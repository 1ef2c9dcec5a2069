---------------------------- MODULE AccountsProofs -----------------------------
(***************************************************************************)
(* Theorems about an email address: Accounts, for any requests and uids,   *)
(* and Billing, for any events, deliveries and instances of the server.    *)
(***************************************************************************)
EXTENDS Accounts, Billing, TLAPS

(***************************************************************************)
(* An instance remembers an event only when some handler has applied it or *)
(* a handler of that instance has it in hand.                              *)
(***************************************************************************)
SeenIsWorkedOn == \A w \in Workers : \A e \in seen[w] : e \in handled \/ InHand(w, e)

\* What is in hand has been emitted.
InHandIsEmitted ==
    \A d \in Deliveries : delivery[d].step # "idle" => event[delivery[d].id] # NoEvent

BillingInv == BillingTypeOK /\ SeenIsWorkedOn /\ InHandIsEmitted /\ AcknowledgedIsHandled

LEMMA Copies ==
  ASSUME NEW ev \in Event \ {NoEvent}
  PROVE  /\ [ev EXCEPT !.acked = FALSE] \in Event \ {NoEvent}
         /\ [ev EXCEPT !.acked = TRUE] \in Event \ {NoEvent}
<1>1. ev.type # "none"
  BY DEF Event
<1>2. [ev EXCEPT !.acked = FALSE] \in Event \ {NoEvent}
  BY <1>1 DEF Event, NoEvent
<1>3. [ev EXCEPT !.acked = TRUE] \in Event \ {NoEvent}
  BY <1>1 DEF Event, NoEvent
<1> QED
  BY <1>2, <1>3, Zenon

LEMMA BillingRecords ==
  /\ NoEvent \in Event /\ Idle \in Delivery /\ ~NoEvent.acked /\ Idle.step = "idle"
  /\ \A ev \in Event : ev.acked \in BOOLEAN
  /\ \A ev \in Event \ {NoEvent} : ev.of \in Checkouts /\ ev.plan \in Plans
  /\ \A v \in Delivery : v.step \in {"idle", "retrieve", "update"}
  /\ \A v \in Delivery : v.step # "idle" =>
        /\ v.event \in Event \ {NoEvent} /\ v.id \in Events
        /\ v.worker \in Workers /\ v.plan \in Plans
<1>1. NoEvent \in Event /\ Idle \in Delivery /\ ~NoEvent.acked /\ Idle.step = "idle"
  BY DEF Event, Delivery, NoEvent, Idle
<1>2. \A ev \in Event : ev.acked \in BOOLEAN
  <2>1. NoEvent.acked \in BOOLEAN
    BY DEF NoEvent
  <2> QED
    BY <2>1 DEF Event
<1>3. \A ev \in Event \ {NoEvent} : ev.of \in Checkouts /\ ev.plan \in Plans
  BY DEF Event
<1>5. \A v \in Delivery : v.step \in {"idle", "retrieve", "update"}
  BY DEF Delivery, Idle
<1>6. \A v \in Delivery : v.step # "idle" =>
        /\ v.event \in Event \ {NoEvent} /\ v.id \in Events
        /\ v.worker \in Workers /\ v.plan \in Plans
  BY DEF Delivery, Idle
<1> QED
  BY <1>1, <1>2, <1>3, <1>5, <1>6

LEMMA InitBilling == BillingInit => BillingInv
<1> SUFFICES ASSUME BillingInit PROVE BillingInv
  OBVIOUS
<1>1. customer \in [Customers -> Customer]
  BY DEF BillingInit, Customer, States, Statuses, LiveStatus, Plans
<1>2. subscription \in [Checkouts -> Subscription]
  BY DEF BillingInit, Subscription, Statuses, LiveStatus, Plans
<1>3. checkout \in [Checkouts -> Checkout]
  BY DEF BillingInit, Checkout, Plans
<1>4. event \in [Events -> Event] /\ delivery \in [Deliveries -> Delivery]
  BY BillingRecords DEF BillingInit
<1>5. BillingTypeOK
  BY <1>1, <1>2, <1>3, <1>4, BillingAssumption DEF BillingAssumption, BillingTypeOK, BillingInit
<1>6. SeenIsWorkedOn /\ InHandIsEmitted /\ AcknowledgedIsHandled
  BY BillingRecords DEF BillingInit, SeenIsWorkedOn, InHandIsEmitted, AcknowledgedIsHandled
<1> QED
  BY <1>5, <1>6 DEF BillingInv

(* Nothing at the webhook moves.                                           *)
LEMMA WebhookRests ==
  ASSUME SeenIsWorkedOn, InHandIsEmitted, AcknowledgedIsHandled, UNCHANGED Webhook
  PROVE  SeenIsWorkedOn' /\ InHandIsEmitted' /\ AcknowledgedIsHandled'
  BY DEF SeenIsWorkedOn, InHandIsEmitted, AcknowledgedIsHandled, InHand, Webhook

(* A new event takes an unused id and is not acknowledged.                 *)
LEMMA Emits ==
  ASSUME BillingInv, NEW c \in Checkouts, NEW type \in {"completed", "updated", "deleted"},
         Emit(type, c), Elsewhere, subscription' \in [Checkouts -> Subscription]
  PROVE  /\ event' \in [Events -> Event]
         /\ SeenIsWorkedOn' /\ InHandIsEmitted' /\ AcknowledgedIsHandled'
<1> DEFINE e0 == CHOOSE e \in Events : e \in Unused
           new == [type |-> type, of |-> c, acked |-> FALSE,
                   status |-> subscription'[c].status, plan |-> subscription'[c].plan]
<1>1. e0 \in Events
  BY DEF Emit, Unused
<1>2. event' = [event EXCEPT ![e0] = new]
  BY DEF Emit
<1>3. new \in Event \ {NoEvent} /\ new.acked = FALSE
  <2>1. subscription'[c].status \in Statuses /\ subscription'[c].plan \in Plans
    BY DEF Subscription
  <2>2. type # "none"
    OBVIOUS
  <2> QED
    BY <2>1, <2>2 DEF Event, NoEvent
<1> HIDE DEF e0, new
<1>4. event' \in [Events -> Event]
  BY <1>1, <1>2, <1>3 DEF BillingInv, BillingTypeOK
<1>5. \A e \in Events : event'[e].acked => event[e].acked
  BY <1>1, <1>2, <1>3 DEF BillingInv, BillingTypeOK
<1>6. \A e \in Events : event[e] # NoEvent => event'[e] # NoEvent
  BY <1>1, <1>2, <1>3 DEF BillingInv, BillingTypeOK
<1>7. SeenIsWorkedOn' /\ AcknowledgedIsHandled'
  BY <1>5 DEF BillingInv, SeenIsWorkedOn, AcknowledgedIsHandled, InHand, Elsewhere
<1>8. InHandIsEmitted'
  BY <1>6, BillingRecords DEF BillingInv, BillingTypeOK, InHandIsEmitted, Elsewhere
<1> QED
  BY <1>4, <1>7, <1>8

LEMMA Acknowledges ==
  ASSUME event \in [Events -> Event], NEW e \in Events, event[e] # NoEvent, Acknowledge(e)
  PROVE  /\ event' \in [Events -> Event]
         /\ \A x \in Events : event'[x].acked => event[x].acked \/ x = e
         /\ \A x \in Events : event[x] # NoEvent => event'[x] # NoEvent
<1> DEFINE new == [event[e] EXCEPT !.acked = TRUE]
<1>1. new \in Event \ {NoEvent}
  BY Copies
<1>2. event' = event \/ event' = [event EXCEPT ![e] = new]
  BY DEF Acknowledge
<1> HIDE DEF new
<1> QED
  BY <1>1, <1>2

(* The steps of a checkout and of Stripe.                                  *)
LEMMA CheckoutSteps ==
  ASSUME BillingInv, NEW c \in Checkouts,
         Start(c) \/ Search(c) \/ CreateCustomer(c) \/ OpenSession(c) \/ CheckoutFails(c)
            \/ Indexes(c)
  PROVE  BillingInv'
<1> USE DEF BillingInv
<1>1. checkout' \in [Checkouts -> Checkout]
  <2>1. checkout[c] \in Checkout
    BY DEF BillingTypeOK
  <2>2. CASE Start(c)
    <3>1. PICK plan \in Plans : checkout' = [checkout EXCEPT ![c].step = "search", ![c].plan = plan]
      BY <2>2 DEF Start
    <3>2. [checkout[c] EXCEPT !.step = "search", !.plan = plan] \in Checkout
      BY <2>1 DEF Checkout
    <3> QED
      BY <3>1, <3>2 DEF BillingTypeOK
  <2>3. CASE Search(c)
    <3>1. Found \subseteq Customers
      BY DEF Found
    <3> QED
      BY <2>1, <2>3, <3>1 DEF Search, Checkout, BillingTypeOK
  <2>4. CASE CreateCustomer(c)
    BY <2>1, <2>4 DEF CreateCustomer, Checkout, Customers, BillingTypeOK
  <2>5. CASE OpenSession(c)
    BY <2>1, <2>5 DEF OpenSession, Checkout, BillingTypeOK
  <2>6. CASE CheckoutFails(c)
    BY <2>1, <2>6 DEF CheckoutFails, Checkout, BillingTypeOK
  <2>7. CASE Indexes(c)
    BY <2>7 DEF Indexes, BillingTypeOK
  <2> QED
    BY <2>2, <2>3, <2>4, <2>5, <2>6, <2>7
<1>2. customer' \in [Customers -> Customer]
  <2>1. CASE CreateCustomer(c)
    <3>1. customer[c] \in Customer
      BY DEF BillingTypeOK, Customers
    <3>2. [customer[c] EXCEPT !.exists = TRUE] \in Customer
      BY <3>1 DEF Customer
    <3> QED
      BY <2>1, <3>2 DEF CreateCustomer, BillingTypeOK
  <2>2. CASE Indexes(c)
    <3>1. customer[c] \in Customer
      BY DEF BillingTypeOK, Customers
    <3>2. [customer[c] EXCEPT !.found = TRUE] \in Customer
      BY <3>1 DEF Customer
    <3> QED
      BY <2>2, <3>2 DEF Indexes, BillingTypeOK
  <2>3. CASE UNCHANGED customer
    BY <2>3 DEF BillingTypeOK
  <2> QED
    BY <2>1, <2>2, <2>3 DEF Start, Search, OpenSession, CheckoutFails, stripe
<1>3. /\ UNCHANGED <<subscription, Webhook>>
      /\ UNCHANGED failures \/ Fails
  BY DEF Start, Search, CreateCustomer, OpenSession, CheckoutFails, Indexes, stripe
<1>4. failures' \in 0 .. MaxFailures
  BY <1>3, BillingAssumption DEF Fails, BillingTypeOK, BillingAssumption
<1>5. BillingTypeOK'
  BY <1>1, <1>2, <1>3, <1>4 DEF BillingTypeOK, Webhook
<1> QED
  BY <1>3, <1>5, WebhookRests

LEMMA StripeSteps ==
  ASSUME BillingInv, NEW c \in Checkouts, Completes(c) \/ Changes(c)
  PROVE  BillingInv'
<1> USE DEF BillingInv
<1>1. PICK type \in {"completed", "updated", "deleted"} : Emit(type, c)
  BY DEF Completes, Changes
<1>2. Elsewhere
  BY DEF Completes, Changes
<1>3. subscription' \in [Checkouts -> Subscription]
  <2>1. CASE Completes(c)
    <3>1. checkout[c].for \in Customers \cup {NoCustomer} /\ checkout[c].plan \in Plans
      BY DEF BillingTypeOK, Checkout
    <3>2. [of |-> checkout[c].for, status |-> "trialing", plan |-> checkout[c].plan,
           price |-> checkout[c].plan] \in Subscription
      BY <3>1 DEF Subscription, Statuses, LiveStatus
    <3> QED
      BY <2>1, <3>2 DEF Completes, BillingTypeOK
  <2>2. CASE Changes(c)
    BY <2>2 DEF Changes, Subscription, Statuses, LiveStatus, BillingTypeOK
  <2> QED
    BY <2>1, <2>2
<1>4. checkout' \in [Checkouts -> Checkout]
  <2>1. CASE Completes(c)
    BY <2>1 DEF Completes, Checkout, BillingTypeOK
  <2>2. CASE Changes(c)
    BY <2>2 DEF Changes, BillingTypeOK
  <2> QED
    BY <2>1, <2>2
<1>5. /\ event' \in [Events -> Event]
      /\ SeenIsWorkedOn' /\ InHandIsEmitted' /\ AcknowledgedIsHandled'
  BY <1>1, <1>2, <1>3, Emits
<1> QED
  BY <1>2, <1>3, <1>4, <1>5 DEF Elsewhere, BillingTypeOK

(* The steps of the webhook.                                               *)
LEMMA DuplicateStep ==
  ASSUME BillingInv, NEW w \in Workers, NEW e \in Events, Duplicate(w, e)
  PROVE  BillingInv'
<1> USE DEF BillingInv
<1>1. /\ event' \in [Events -> Event]
      /\ \A x \in Events : event'[x].acked => event[x].acked \/ x = e
      /\ \A x \in Events : event[x] # NoEvent => event'[x] # NoEvent
  BY Acknowledges DEF Duplicate, BillingTypeOK
<1>2. e \in handled \/ (InHand(w, e) /\ e \in raced')
  BY DEF Duplicate, SeenEvent, SeenIsWorkedOn
<1>3. raced \subseteq raced' /\ raced' \subseteq Events
  BY DEF Duplicate, BillingTypeOK
<1>4. BillingTypeOK'
  BY <1>1, <1>3 DEF Duplicate, BillingTypeOK, stripe
<1>5. SeenIsWorkedOn'
  BY DEF Duplicate, SeenIsWorkedOn, InHand
<1>6. InHandIsEmitted'
  BY <1>1, BillingRecords DEF Duplicate, InHandIsEmitted, BillingTypeOK
<1>7. AcknowledgedIsHandled'
  BY <1>1, <1>2, <1>3 DEF Duplicate, AcknowledgedIsHandled
<1> QED
  BY <1>4, <1>5, <1>6, <1>7

LEMMA DeliverStep ==
  ASSUME BillingInv, NEW d \in Deliveries, NEW w \in Workers, NEW e \in Events, Deliver(d, w, e)
  PROVE  BillingInv'
<1> USE DEF BillingInv
<1> DEFINE new == [step |-> IF event[e].type = "completed" THEN "retrieve" ELSE "update",
                   event |-> [event[e] EXCEPT !.acked = FALSE], id |-> e, worker |-> w,
                   plan |-> event[e].plan]
<1>1. event[e] \in Event \ {NoEvent}
  BY DEF Deliver, BillingTypeOK
<1>2. new \in Delivery
  <2>1. [event[e] EXCEPT !.acked = FALSE] \in Event \ {NoEvent}
    BY <1>1, Copies
  <2>2. event[e].plan \in Plans
    BY <1>1, BillingRecords
  <2> QED
    BY <2>1, <2>2 DEF Delivery
<1>3. new.step # "idle" /\ new.id = e /\ new.worker = w
  OBVIOUS
<1>4. delivery' = [delivery EXCEPT ![d] = new] /\ delivery[d].step = "idle"
  BY DEF Deliver
<1> HIDE DEF new
<1>5. BillingTypeOK'
  BY <1>2, <1>4 DEF Deliver, BillingTypeOK, stripe
<1>6. \A x \in Deliveries \ {d} : delivery'[x] = delivery[x]
  BY <1>4 DEF BillingTypeOK
<1>7. delivery'[d] = new
  BY <1>4 DEF BillingTypeOK
<1>8. SeenIsWorkedOn'
  <2> SUFFICES ASSUME NEW v \in Workers, NEW x \in seen'[v], x \notin handled
               PROVE  InHand(v, x)'
    BY DEF SeenIsWorkedOn, Deliver
  <2>1. CASE v = w /\ x = e
    BY <2>1, <1>3, <1>7 DEF InHand
  <2>2. CASE ~(v = w /\ x = e)
    <3>1. x \in seen[v]
      BY <2>2 DEF Deliver, BillingTypeOK
    <3>2. InHand(v, x)
      BY <3>1 DEF SeenIsWorkedOn
    <3> QED
      BY <3>2, <1>4, <1>6 DEF InHand
  <2> QED
    BY <2>1, <2>2
<1>9. InHandIsEmitted'
  BY <1>1, <1>3, <1>6, <1>7 DEF InHandIsEmitted, Deliver
<1>10. AcknowledgedIsHandled'
  BY DEF AcknowledgedIsHandled, Deliver
<1> QED
  BY <1>5, <1>8, <1>9, <1>10

\* What a handler writes to the customer.
LEMMA FlaggedType ==
  ASSUME BillingTypeOK, NEW d \in Deliveries, delivery[d].step # "idle"
  PROVE  Flagged(d) \in [Customers -> Customer]
<1> DEFINE ev == delivery[d].event
           k == subscription[ev.of].of
           new == [customer[k] EXCEPT !.state = NovaState(ev), !.sub = ev.of,
                                      !.plan = IF ev.type = "deleted" THEN @ ELSE delivery[d].plan]
<1>1. ev \in Event \ {NoEvent} /\ delivery[d].plan \in Plans
  BY BillingRecords DEF BillingTypeOK
<1>2. ev.of \in Checkouts
  BY <1>1, BillingRecords
<1>3. NovaState(ev) \in States
  BY DEF NovaState, States, Statuses, LiveStatus
<1>4. Flagged(d) = [customer EXCEPT ![k] = new]
  BY DEF Flagged
<1>5. ASSUME k \in Customers PROVE new \in Customer
  <2>1. customer[k] \in Customer
    BY <1>5 DEF BillingTypeOK
  <2> HIDE DEF k, ev
  <2> QED
    BY <2>1, <1>1, <1>2, <1>3 DEF Customer
<1> HIDE DEF new
<1> QED
  BY <1>4, <1>5 DEF BillingTypeOK

LEMMA RetrieveStep ==
  ASSUME BillingInv, NEW d \in Deliveries, Retrieve(d)
  PROVE  BillingInv'
<1> USE DEF BillingInv
<1> DEFINE new == [delivery[d] EXCEPT !.step = "update",
                                      !.plan = subscription[delivery[d].event.of].plan]
<1>1. delivery[d] \in Delivery /\ delivery[d].step = "retrieve"
  BY DEF Retrieve, BillingTypeOK
<1>2. delivery[d].event \in Event \ {NoEvent}
  BY <1>1, BillingRecords
<1>3. subscription[delivery[d].event.of].plan \in Plans
  BY <1>2, BillingRecords DEF BillingTypeOK, Subscription
<1>4. new \in Delivery /\ new.step = "update" /\ new.id = delivery[d].id
         /\ new.worker = delivery[d].worker
  <2>1. Idle.step # "retrieve"
    BY BillingRecords
  <2> QED
    BY <2>1, <1>1, <1>3 DEF Delivery
<1>5. delivery' = [delivery EXCEPT ![d] = new]
  BY DEF Retrieve
<1> HIDE DEF new
<1>6. BillingTypeOK'
  BY <1>4, <1>5 DEF Retrieve, BillingTypeOK, stripe
<1>7. \A x \in Deliveries : /\ delivery'[x].step # "idle" <=> delivery[x].step # "idle"
                            /\ delivery'[x].id = delivery[x].id
                            /\ delivery'[x].worker = delivery[x].worker
  BY <1>1, <1>4, <1>5 DEF BillingTypeOK
<1>8. SeenIsWorkedOn'
  <2>1. \A w \in Workers : seen'[w] = seen[w]
    BY DEF Retrieve
  <2>2. \A w, e : InHand(w, e) => InHand(w, e)'
    BY <1>7 DEF InHand
  <2> QED
    BY <2>1, <2>2 DEF Retrieve, SeenIsWorkedOn
<1>9. InHandIsEmitted' /\ AcknowledgedIsHandled'
  BY <1>7 DEF Retrieve, InHandIsEmitted, AcknowledgedIsHandled
<1> QED
  BY <1>6, <1>8, <1>9

\* A handler that ends, however it does, has nothing in hand any more.
LEMMA HandlerEnds ==
  ASSUME BillingTypeOK, NEW d \in Deliveries, delivery' = [delivery EXCEPT ![d] = Idle]
  PROVE  /\ delivery' \in [Deliveries -> Delivery]
         /\ \A x \in Deliveries : delivery'[x].step # "idle" => x # d /\ delivery'[x] = delivery[x]
         /\ \A w \in Workers, e \in Events :
               InHand(w, e) /\ ~(w = delivery[d].worker /\ e = delivery[d].id) => InHand(w, e)'
<1>1. delivery' \in [Deliveries -> Delivery]
  BY BillingRecords DEF BillingTypeOK
<1>2. \A x \in Deliveries : delivery'[x] = IF x = d THEN Idle ELSE delivery[x]
  BY DEF BillingTypeOK
<1>3. \A x \in Deliveries : delivery'[x].step # "idle" => x # d /\ delivery'[x] = delivery[x]
  BY <1>2, BillingRecords
<1>4. ASSUME NEW w \in Workers, NEW e \in Events, InHand(w, e),
             ~(w = delivery[d].worker /\ e = delivery[d].id)
      PROVE  InHand(w, e)'
  BY <1>2, <1>4 DEF InHand
<1> QED
  BY <1>1, <1>3, <1>4

LEMMA UpdateStep ==
  ASSUME BillingInv, NEW d \in Deliveries, Update(d)
  PROVE  BillingInv'
<1> USE DEF BillingInv
<1> DEFINE e == delivery[d].id
<1>1. delivery[d].step = "update" /\ e \in Events /\ event[e] # NoEvent
  BY BillingRecords DEF Update, BillingTypeOK, InHandIsEmitted
<1>2. /\ event' \in [Events -> Event]
      /\ \A x \in Events : event'[x].acked => event[x].acked \/ x = e
      /\ \A x \in Events : event[x] # NoEvent => event'[x] # NoEvent
  BY <1>1, Acknowledges DEF Update, BillingTypeOK
<1>3. customer' \in [Customers -> Customer]
  BY <1>1, FlaggedType DEF Update
<1>4. /\ delivery' \in [Deliveries -> Delivery]
      /\ \A x \in Deliveries : delivery'[x].step # "idle" => x # d /\ delivery'[x] = delivery[x]
      /\ \A w \in Workers, x \in Events :
            InHand(w, x) /\ ~(w = delivery[d].worker /\ x = e) => InHand(w, x)'
  BY HandlerEnds DEF Update
<1>5. handled' = handled \cup {e} /\ UNCHANGED <<subscription, checkout, seen, failures, raced>>
  BY DEF Update
<1>6. BillingTypeOK'
  BY <1>1, <1>2, <1>3, <1>4, <1>5 DEF BillingTypeOK
<1>7. SeenIsWorkedOn'
  <2> SUFFICES ASSUME NEW w \in Workers, NEW x \in seen[w], x \notin handled, x # e
               PROVE  InHand(w, x)'
    BY <1>5 DEF SeenIsWorkedOn
  <2>1. InHand(w, x) /\ x \in Events
    BY DEF SeenIsWorkedOn, BillingTypeOK
  <2> QED
    BY <2>1, <1>4
<1>8. InHandIsEmitted'
  <2> SUFFICES ASSUME NEW x \in Deliveries, delivery'[x].step # "idle"
               PROVE  event'[delivery'[x].id] # NoEvent
    BY DEF InHandIsEmitted
  <2>1. delivery'[x] = delivery[x]
    BY <1>4
  <2>2. delivery[x].id \in Events
    BY <2>1, BillingRecords DEF BillingTypeOK
  <2> QED
    BY <2>1, <2>2, <1>2 DEF InHandIsEmitted
<1>9. AcknowledgedIsHandled'
  BY <1>2, <1>5 DEF AcknowledgedIsHandled
<1> QED
  BY <1>6, <1>7, <1>8, <1>9

LEMMA HandleFailsStep ==
  ASSUME BillingInv, NEW d \in Deliveries, HandleFails(d)
  PROVE  BillingInv'
<1> USE DEF BillingInv
<1> DEFINE e == delivery[d].id
           v == delivery[d].worker
<1>1. delivery[d].step # "idle" /\ e \in Events /\ v \in Workers
  BY BillingRecords DEF HandleFails, BillingTypeOK
<1>2. customer' \in [Customers -> Customer]
  <2>1. Flagged(d) \in [Customers -> Customer]
    BY <1>1, FlaggedType
  <2> QED
    BY <2>1 DEF HandleFails, BillingTypeOK
<1>3. /\ delivery' \in [Deliveries -> Delivery]
      /\ \A x \in Deliveries : delivery'[x].step # "idle" => x # d /\ delivery'[x] = delivery[x]
      /\ \A w \in Workers, x \in Events :
            InHand(w, x) /\ ~(w = v /\ x = e) => InHand(w, x)'
  BY HandlerEnds DEF HandleFails
<1>4. seen' = [seen EXCEPT ![v] = @ \ {e}]
  BY DEF HandleFails, ForgetEvent
<1>5. UNCHANGED <<subscription, checkout, event, handled, raced>>
  BY DEF HandleFails
<1>6. failures' \in 0 .. MaxFailures
  BY BillingAssumption DEF HandleFails, Fails, BillingTypeOK, BillingAssumption
<1>7. BillingTypeOK'
  <2>1. seen' \in [Workers -> SUBSET Events]
    BY <1>4 DEF BillingTypeOK
  <2> QED
    BY <2>1, <1>2, <1>3, <1>5, <1>6 DEF BillingTypeOK
<1>8. SeenIsWorkedOn'
  <2> SUFFICES ASSUME NEW w \in Workers, NEW x \in seen'[w], x \notin handled
               PROVE  InHand(w, x)'
    BY <1>5 DEF SeenIsWorkedOn
  <2>1. x \in seen[w] /\ ~(w = v /\ x = e)
    BY <1>4 DEF BillingTypeOK
  <2>2. InHand(w, x) /\ x \in Events
    BY <2>1 DEF SeenIsWorkedOn, BillingTypeOK
  <2> QED
    BY <2>1, <2>2, <1>3
<1>9. InHandIsEmitted'
  BY <1>3, <1>5 DEF InHandIsEmitted
<1>10. AcknowledgedIsHandled'
  BY <1>5 DEF AcknowledgedIsHandled
<1> QED
  BY <1>7, <1>8, <1>9, <1>10

LEMMA InstanceSteps ==
  ASSUME BillingInv, NEW w \in Workers, ColdStart(w) \/ \E e \in Events : Lapse(w, e)
  PROVE  BillingInv'
<1> USE DEF BillingInv
<1>1. CASE ColdStart(w)
  <2>1. \A d \in Deliveries :
           delivery'[d] = IF delivery[d].worker = w THEN Idle ELSE delivery[d]
    BY <1>1 DEF ColdStart
  <2>2. delivery' \in [Deliveries -> Delivery] /\ failures' \in 0 .. MaxFailures
    <3>1. delivery' = [d \in Deliveries |-> IF delivery[d].worker = w THEN Idle ELSE delivery[d]]
      BY <1>1 DEF ColdStart
    <3>2. delivery' \in [Deliveries -> Delivery]
      BY <3>1, BillingRecords DEF BillingTypeOK
    <3> QED
      BY <1>1, <3>2, BillingAssumption DEF ColdStart, Fails, BillingTypeOK, BillingAssumption
  <2>3. seen' = [seen EXCEPT ![w] = {}] /\ UNCHANGED <<stripe, checkout, event, handled, raced>>
    BY <1>1 DEF ColdStart
  <2>4. BillingTypeOK'
    BY <2>2, <2>3 DEF BillingTypeOK, stripe
  <2>5. SeenIsWorkedOn'
    <3> SUFFICES ASSUME NEW v \in Workers, NEW x \in seen'[v], x \notin handled
                 PROVE  InHand(v, x)'
      BY <2>3 DEF SeenIsWorkedOn
    <3>1. v # w /\ x \in seen[v]
      BY <2>3 DEF BillingTypeOK
    <3>2. InHand(v, x)
      BY <3>1 DEF SeenIsWorkedOn
    <3> QED
      BY <3>1, <3>2, <2>1 DEF InHand
  <2>6. InHandIsEmitted' /\ AcknowledgedIsHandled'
    BY <2>1, <2>3, BillingRecords DEF InHandIsEmitted, AcknowledgedIsHandled
  <2> QED
    BY <2>4, <2>5, <2>6
<1>2. CASE \E e \in Events : Lapse(w, e)
  <2>1. PICK e \in Events : Lapse(w, e)
    BY <1>2
  <2>2. \A v \in Workers : seen'[v] \subseteq seen[v]
    BY <2>1 DEF Lapse, BillingTypeOK
  <2>3. BillingTypeOK'
    BY <2>1 DEF Lapse, BillingTypeOK, stripe
  <2>4. SeenIsWorkedOn'
    BY <2>1, <2>2 DEF Lapse, SeenIsWorkedOn, InHand
  <2>5. InHandIsEmitted' /\ AcknowledgedIsHandled'
    BY <2>1 DEF Lapse, InHandIsEmitted, AcknowledgedIsHandled
  <2> QED
    BY <2>3, <2>4, <2>5
<1> QED
  BY <1>1, <1>2

LEMMA StepBilling == BillingInv /\ [BillingNext]_billingVars => BillingInv'
<1> SUFFICES ASSUME BillingInv, [BillingNext]_billingVars PROVE BillingInv'
  OBVIOUS
<1>1. CASE UNCHANGED billingVars
  <2>1. BillingTypeOK'
    BY <1>1 DEF billingVars, stripe, BillingInv, BillingTypeOK
  <2>2. UNCHANGED Webhook
    BY <1>1 DEF billingVars, Webhook
  <2> QED
    BY <2>1, <2>2, WebhookRests DEF BillingInv
<1>2. CASE BillingNext
  BY <1>2, CheckoutSteps, StripeSteps, DuplicateStep, DeliverStep, RetrieveStep, UpdateStep,
     HandleFailsStep, InstanceSteps DEF BillingNext
<1> QED
  BY <1>1, <1>2

\* Customers, subscriptions, events and what handlers hold are well formed.
THEOREM BillingTypes == BillingSpec => []BillingTypeOK
<1>1. BillingInv => BillingTypeOK
  BY DEF BillingInv
<1> QED
  BY <1>1, InitBilling, StepBilling, PTL DEF BillingSpec

\* What Stripe takes for delivered was applied, unless a duplicate of it raced
\* its handler, for any number of instances, deliveries and failures.
THEOREM Handled == BillingSpec => []AcknowledgedIsHandled
<1>1. BillingInv => AcknowledgedIsHandled
  BY DEF BillingInv
<1> QED
  BY <1>1, InitBilling, StepBilling, PTL DEF BillingSpec

----------------------------------------------------------------------------
(***************************************************************************)
(* Accounts.  What a request has with it when it comes to the step it is   *)
(* at, so that what it then writes is well formed.                         *)
(***************************************************************************)
Carries(q) ==
    /\ q.step \in {"session", "reauth", "fbDelete", "list", "target"} => q.sid \in Sids
    /\ q.step \in {"reauth", "fbDelete", "list", "target", "write"} => q.uid \in Uids
    /\ q.step \in {"session", "reauth", "fbDelete", "list", "target", "write"} =>
          q.kind \in WithSession
    /\ q.step = "access" => q.kind \in {"put", "adminAccess"}
    /\ q.kind = "put" /\ q.step = "access" => q.uid \in Uids
    /\ q.kind = "adminAccess" /\ q.step = "access" => q.user \in Record
    /\ q.kind = "revoke" /\ q.step \in {"session", "target"} => q.on \in Sids
    /\ q.kind = "postVerify" /\ q.step \in {"find", "create", "align", "touch", "issue"} =>
          q.on \in Requests
    /\ q.kind = "signup" /\ q.step \in {"create", "mail"} => q.fuid \in FirebaseUids
    /\ q.kind = "google" => q.step \in {"idle", "done", "issue"} \/ q.fuid = GoogleUid
    /\ q.kind = "login" /\ q.step = "lookup" => q.fuid \in FirebaseUids
    /\ q.kind \in SignIns \ {"google"} /\ q.step \in {"find", "create", "flag", "align", "touch"} =>
          q.fuid \in FirebaseUids
    /\ q.kind \in SignIns /\ q.step \in {"flag", "align", "touch"} => q.user \in Record
    /\ q.kind \in SignIns /\ q.step = "align" => Aligns(q.kind)

FirebaseTyped ==
    /\ fb \in FirebaseUids \cup {NoUid} /\ verified \in BOOLEAN /\ used \subseteq FirebaseUids
    /\ mail \subseteq {"verify", "reset"} /\ (mail # {} => fb # NoUid)
StoreTyped ==
    /\ rec \in Record \cup {NoRecord} /\ session \in [Sids -> Uids \cup {NoUid}]
    /\ index \subseteq Uids \X Sids /\ blobs \subseteq Uids
    /\ handle \in [Requests -> FirebaseUids \cup {NoUid}]
OwnedTyped == proven \subseteq FirebaseUids /\ adopted \subseteq FirebaseUids
OtherTyped == issued \subseteq Sids /\ OwnedTyped /\ faults \in 0 .. MaxFaults
RequestsTyped == req \in [Requests -> Request] /\ \A r \in Requests : Carries(req[r])

Typed == FirebaseTyped /\ StoreTyped /\ OtherTyped /\ RequestsTyped

(***************************************************************************)
(* Sessions.  Writes are under way only while a session is issued, by the  *)
(* request that has its name, or while others are destroyed.               *)
(***************************************************************************)
Todo(o) == \E q \in Requests : o \in req[q].todo
ReadOf(s) == [op |-> "read", sid |-> s, uid |-> NoUid]

Writing ==
    \A r \in Requests :
       /\ req[r].todo # {} => req[r].step \in {"issue", "sweep"}
       /\ req[r].step = "issue" => \E u \in Uids : req[r].todo \subseteq SessionPuts(r, u)
       /\ req[r].step = "sweep" => \A o \in req[r].todo : o.op \notin {"putSession", "putIndex"}
       /\ req[r].step \notin {"sweep", "done"} => req[r].must = {}
       /\ req[r].must \subseteq issued

\* A session is put once: it is there, or its index entry is to be deleted,
\* only after that.
Landed(s) ==
    s \in Requests => /\ req[s].step \in {"issue", "done"}
                      /\ \A o \in req[s].todo : o.op # "putSession"
PutOnce ==
    /\ \A s \in Live : Landed(s)
    /\ \A r \in Requests : \A o \in req[r].todo : o.op = "delIndex" => Landed(o.sid)
    /\ \A s \in issued \cap Requests : req[s].step = "done"

\* A session that is there is in the index, or will be, or is about to go,
\* and so is one whose index entry is about to go.
ToList(s, u) == <<u, s>> \in index \/ Todo([op |-> "putIndex", sid |-> s, uid |-> u])
Listed ==
    /\ \A s \in Sids, u \in Uids :
          Todo([op |-> "putSession", sid |-> s, uid |-> u]) => ToList(s, u)
    /\ \A s \in Live : ToList(s, session[s]) \/ BeingDeleted(s)
    /\ \A s \in Live, u \in Uids :
          Todo([op |-> "delIndex", sid |-> s, uid |-> u]) => BeingDeleted(s)

ToDestroy ==
    \A r \in Requests : \A s \in req[r].must :
       session[s] = NoUid \/ BeingDeleted(s) \/ ReadOf(s) \in req[r].todo

SessionsInv == Writing /\ PutOnce /\ (faults = 0 => Listed /\ ToDestroy)

(***************************************************************************)
(* Who passes the gate.  What is held to be verified, migrated or legacy   *)
(* is of a Firebase account that was proven or adopted, whatever account   *)
(* Firebase has by now, and no account is forgotten.                       *)
(***************************************************************************)
Known == proven \cup adopted

Vouched(q, K) ==
    /\ q.verified \/ q.migrated =>
          q.kind = "login" /\ q.step \notin {"signin", "migrate", "migrateSignup"} /\ q.fuid \in K
    /\ q.user \in Record /\ q.user.legacy => q.user.uid \in K
    /\ q.kind = "login" /\ q.step = "flag" => q.migrated
    /\ q.kind = "login" /\ q.step \in {"flag", "touch"} => q.user.uid = q.fuid
    /\ q.kind \in {"postVerify", "verify", "reset"}
       /\ q.step \in {"find", "create", "align", "touch"} => q.fuid \in K
    /\ q.step = "issue" /\ q.kind # "google" => q.fuid \in K
Backed(K) ==
    /\ verified => fb \in K
    /\ rec \in Record /\ rec.legacy => rec.uid \in K

KnownInv == Backed(Known) /\ \A r \in Requests : Vouched(req[r], Known)

AccountInv == Typed /\ SessionsInv /\ KnownInv

(***************************************************************************)
(* Steps of one request.  Others see at most that their record is stale.   *)
(***************************************************************************)
Moved(r, n) ==
    /\ req' \in [Requests -> Request] /\ req'[r] = n
    /\ \A q \in Requests \ {r} :
         /\ req'[q].kind = req[q].kind /\ req'[q].step = req[q].step
         /\ req'[q].sid = req[q].sid /\ req'[q].on = req[q].on
         /\ req'[q].uid = req[q].uid /\ req'[q].fuid = req[q].fuid
         /\ req'[q].verified = req[q].verified /\ req'[q].migrated = req[q].migrated
         /\ req'[q].user = req[q].user
         /\ req'[q].todo = req[q].todo /\ req'[q].must = req[q].must

LEMMA Goes ==
  ASSUME Typed, NEW r \in Requests, NEW n \in Request, req' = [req EXCEPT ![r] = n]
  PROVE  Moved(r, n)
  BY DEF Typed, RequestsTyped, Moved

LEMMA PutsUser ==
  ASSUME Typed, NEW r \in Requests, NEW n \in Request, NEW user, PutUser(r, user, n)
  PROVE  Moved(r, n) /\ rec' = user
<1>1. req' = [q \in Requests |-> IF q = r THEN n ELSE IF req[q].user = NotRead THEN req[q]
                                 ELSE [req[q] EXCEPT !.stale = TRUE]]
  BY DEF PutUser
<1>2. req'[r] = n /\ rec' = user
  BY <1>1 DEF PutUser
<1>3. ASSUME NEW q \in Requests \ {r}
      PROVE  /\ req'[q] \in Request
             /\ req'[q].kind = req[q].kind /\ req'[q].step = req[q].step
             /\ req'[q].sid = req[q].sid /\ req'[q].on = req[q].on
             /\ req'[q].uid = req[q].uid /\ req'[q].fuid = req[q].fuid
             /\ req'[q].verified = req[q].verified /\ req'[q].migrated = req[q].migrated
             /\ req'[q].user = req[q].user
             /\ req'[q].todo = req[q].todo /\ req'[q].must = req[q].must
  <2> DEFINE x == req[q]
  <2>1. x \in Request
    BY DEF Typed, RequestsTyped
  <2>2. req'[q] = IF x.user = NotRead THEN x ELSE [x EXCEPT !.stale = TRUE]
    BY <1>1, <1>3
  <2> HIDE DEF x
  <2>3. req'[q] \in Request /\ req'[q].kind = x.kind /\ req'[q].step = x.step
        /\ req'[q].sid = x.sid /\ req'[q].on = x.on /\ req'[q].uid = x.uid
        /\ req'[q].fuid = x.fuid /\ req'[q].verified = x.verified
        /\ req'[q].migrated = x.migrated /\ req'[q].user = x.user
        /\ req'[q].todo = x.todo /\ req'[q].must = x.must
    <3>1. CASE x.user = NotRead
      BY <2>1, <2>2, <3>1, ZenonT(30)
    <3>2. CASE x.user # NotRead
      <4>1. req'[q] = [x EXCEPT !.stale = TRUE]
        BY <2>2, <3>2
      <4>2. req'[q] \in Request
        BY <2>1, <4>1 DEF Request
      <4>3. req'[q].kind = x.kind /\ req'[q].step = x.step
            /\ req'[q].sid = x.sid /\ req'[q].on = x.on /\ req'[q].uid = x.uid
        BY <2>1, <4>1 DEF Request
      <4>4. req'[q].fuid = x.fuid /\ req'[q].verified = x.verified
            /\ req'[q].migrated = x.migrated /\ req'[q].user = x.user
            /\ req'[q].todo = x.todo /\ req'[q].must = x.must
        BY <2>1, <4>1 DEF Request
      <4> QED
        BY <4>2, <4>3, <4>4
    <3> QED
      BY <3>1, <3>2
  <2> QED
    BY <2>3 DEF x
<1>4. req' \in [Requests -> Request]
  BY <1>1, <1>2, <1>3
<1> QED
  BY <1>2, <1>3, <1>4 DEF Moved

LEMMA RequestsStayTyped ==
  ASSUME RequestsTyped, NEW r \in Requests, NEW n \in Request, Carries(n), Moved(r, n)
  PROVE  RequestsTyped'
<1> SUFFICES ASSUME NEW q \in Requests PROVE Carries(req'[q])
  BY DEF RequestsTyped, Moved, Carries
<1>1. CASE q = r
  BY <1>1 DEF Moved
<1>2. CASE q # r
  <2> DEFINE x == req[q]
             y == req'[q]
  <2>1. Carries(x)
    BY DEF RequestsTyped
  <2>2. y.kind = x.kind /\ y.step = x.step /\ y.sid = x.sid /\ y.on = x.on /\ y.uid = x.uid
        /\ y.fuid = x.fuid /\ y.user = x.user
    BY <1>2 DEF Moved
  <2> HIDE DEF x, y
  <2>3. Carries(y)
    BY <2>1, <2>2 DEF Carries
  <2> QED
    BY <2>3 DEF y
<1> QED
  BY <1>1, <1>2

LEMMA StaysVouched ==
  ASSUME KnownInv, NEW r \in Requests, NEW n \in Request, Moved(r, n), Known \subseteq Known',
         Vouched(n, Known'), Backed(Known)'
  PROVE  KnownInv'
<1> SUFFICES ASSUME NEW q \in Requests PROVE Vouched(req'[q], Known')
  BY DEF KnownInv
<1>1. CASE q = r
  BY <1>1 DEF Moved
<1>2. CASE q # r
  <2>1. Vouched(req[q], Known)
    BY DEF KnownInv
  <2>2. Vouched(req'[q], Known)
    BY <1>2, <2>1 DEF Moved, Vouched
  <2> QED
    BY <2>2 DEF Vouched
<1> QED
  BY <1>1, <1>2

\* A step that begins to write nothing but what destroys sessions.
Quiet(r, n) ==
    /\ req[r].todo = {} /\ req[r].step \notin {"issue", "done"}
    /\ n.step # "issue" /\ (n.todo # {} => n.step = "sweep")
    /\ \A o \in n.todo : o.op \in {"read", "delUser", "delBlob"}
    /\ (n.must # {} => n.step \in {"sweep", "done"}) /\ n.must \subseteq issued
    /\ faults = 0 => \A s \in n.must : session[s] = NoUid \/ BeingDeleted(s) \/ ReadOf(s) \in n.todo

LEMMA QuietStep ==
  ASSUME Typed, SessionsInv, NEW r \in Requests, NEW n \in Request, Moved(r, n), Quiet(r, n),
         UNCHANGED <<session, index, issued>>, faults' \in {faults, faults + 1}
  PROVE  SessionsInv'
<1>1. faults' = 0 => faults = 0
  BY DEF Typed, OtherTyped
<1>2. Writing'
  <2> SUFFICES ASSUME NEW q \in Requests
               PROVE  /\ req'[q].todo # {} => req'[q].step \in {"issue", "sweep"}
                      /\ req'[q].step = "issue" =>
                           \E u \in Uids : req'[q].todo \subseteq SessionPuts(q, u)
                      /\ req'[q].step = "sweep" =>
                           \A o \in req'[q].todo : o.op \notin {"putSession", "putIndex"}
                      /\ req'[q].step \notin {"sweep", "done"} => req'[q].must = {}
                      /\ req'[q].must \subseteq issued
    BY DEF Writing
  <2>1. CASE q = r
    BY <2>1 DEF Moved, Quiet
  <2>2. CASE q # r
    BY <2>2 DEF Moved, SessionsInv, Writing
  <2> QED
    BY <2>1, <2>2
<1>3. ~Landed(r)
  BY DEF Quiet, Landed
<1>4. ASSUME NEW s, s # r PROVE Landed(s)' <=> Landed(s)
  BY <1>4 DEF Landed, Moved
<1>5. PutOnce'
  <2>1. \A s \in Live' : Landed(s)'
    BY <1>3, <1>4 DEF SessionsInv, PutOnce, Live
  <2>2. ASSUME NEW q \in Requests, NEW o \in req'[q].todo, o.op = "delIndex" PROVE Landed(o.sid)'
    <3>1. q # r
      BY <2>2 DEF Moved, Quiet
    <3>2. o \in req[q].todo
      BY <2>2, <3>1 DEF Moved
    <3> QED
      BY <2>2, <3>2, <1>3, <1>4 DEF SessionsInv, PutOnce
  <2>3. \A s \in issued' \cap Requests : req'[s].step = "done"
    BY DEF Moved, Quiet, SessionsInv, PutOnce
  <2> QED
    BY <2>1, <2>2, <2>3 DEF PutOnce
<1>6. \A o : o.op \in {"putSession", "putIndex", "delIndex", "delSession"} => (Todo(o)' <=> Todo(o))
  BY DEF Todo, Moved, Quiet
<1>7. ASSUME faults' = 0 PROVE Listed' /\ ToDestroy'
  <2>1. \A s : BeingDeleted(s)' <=> BeingDeleted(s)
    <3> SUFFICES ASSUME NEW s PROVE BeingDeleted(s)' <=> BeingDeleted(s)
      OBVIOUS
    <3> DEFINE o == [op |-> "delSession", sid |-> s, uid |-> NoUid]
    <3>1. o.op = "delSession"
      OBVIOUS
    <3>2. (BeingDeleted(s) <=> Todo(o)) /\ (BeingDeleted(s)' <=> Todo(o)')
      BY DEF BeingDeleted, Todo
    <3> HIDE DEF o
    <3> QED
      BY <1>6, <3>1, <3>2
  <2>2. \A s, u : /\ ToList(s, u)' <=> ToList(s, u)
                  /\ Todo([op |-> "putSession", sid |-> s, uid |-> u])'
                       <=> Todo([op |-> "putSession", sid |-> s, uid |-> u])
                  /\ Todo([op |-> "delIndex", sid |-> s, uid |-> u])'
                       <=> Todo([op |-> "delIndex", sid |-> s, uid |-> u])
    BY <1>6 DEF ToList
  <2>3. Listed'
    BY <1>1, <1>7, <2>1, <2>2 DEF SessionsInv, Listed, Live
  <2>4. ToDestroy'
    <3> SUFFICES ASSUME NEW q \in Requests, NEW s \in req'[q].must
                 PROVE  session[s] = NoUid \/ BeingDeleted(s) \/ ReadOf(s) \in req'[q].todo
      BY <2>1 DEF ToDestroy
    <3>1. CASE q = r
      BY <1>1, <1>7, <3>1 DEF Moved, Quiet
    <3>2. CASE q # r
      BY <1>1, <1>7, <3>2 DEF Moved, SessionsInv, ToDestroy
    <3> QED
      BY <3>1, <3>2
  <2> QED
    BY <2>3, <2>4
<1> QED
  BY <1>2, <1>5, <1>7 DEF SessionsInv

----------------------------------------------------------------------------
LEMMA BlankFields ==
  /\ Blank \in Request /\ Blank.kind = "none" /\ Blank.step = "idle" /\ Blank.sid = NoSid
  /\ Blank.on = NoSid /\ Blank.uid = NoUid /\ Blank.fuid = NoUid /\ Blank.verified = FALSE
  /\ Blank.migrated = FALSE /\ Blank.user = NotRead /\ Blank.stale = FALSE
  /\ Blank.todo = {} /\ Blank.must = {}
  BY SMTT(30) DEF Blank, Request

\* What holds of a request at a step that has nothing under way.
LEMMA AtRest ==
  ASSUME AccountInv, NEW r \in Requests
  PROVE  /\ req[r] \in Request /\ Carries(req[r])
         /\ Vouched(req[r], Known) /\ Backed(Known)
         /\ req[r].step \notin {"issue", "sweep"} => req[r].todo = {}
         /\ req[r].step \notin {"sweep", "done"} => req[r].must = {}
  BY DEF AccountInv, Typed, RequestsTyped, KnownInv, SessionsInv, Writing

Fine(r, n) ==
    /\ n \in Request /\ Moved(r, n) /\ Carries(n) /\ Quiet(r, n)
    /\ Vouched(n, Known')

LEMMA FineStep ==
  ASSUME AccountInv, NEW r \in Requests, NEW n, Fine(r, n),
         UNCHANGED <<session, index, issued, faults>>, FirebaseTyped', StoreTyped',
         OwnedTyped', Known \subseteq Known', Backed(Known)'
  PROVE  AccountInv'
<1>1. n \in Request /\ Moved(r, n) /\ Carries(n) /\ Quiet(r, n)
  BY DEF Fine
<1>2. RequestsTyped' /\ OtherTyped'
  BY <1>1, RequestsStayTyped DEF AccountInv, Typed, OtherTyped
<1>3. SessionsInv'
  BY <1>1, QuietStep DEF AccountInv
<1>4. KnownInv'
  BY <1>1, StaysVouched DEF AccountInv, Fine
<1> QED
  BY <1>2, <1>3, <1>4 DEF AccountInv, Typed

\* Nobody more is known, and what is held to be verified or legacy stays.
LEMMA OwnedRests ==
  ASSUME AccountInv, UNCHANGED owned
  PROVE  /\ OwnedTyped' /\ Known' = Known /\ Known \subseteq Known'
         /\ UNCHANGED <<fb, verified, rec>> => Backed(Known)'
<1>1. OwnedTyped' /\ Known' = Known
  BY DEF AccountInv, Typed, OtherTyped, OwnedTyped, Known, owned
<1>2. UNCHANGED <<fb, verified, rec>> => Backed(Known)'
  BY <1>1 DEF AccountInv, KnownInv, Backed
<1> QED
  BY <1>1, <1>2

\* An account becomes known.
LEMMA Grows ==
  ASSUME AccountInv, NEW u \in FirebaseUids,
         \/ proven' = proven \cup {u} /\ adopted' = adopted
         \/ adopted' = adopted \cup ({u} \ proven) /\ proven' = proven
  PROVE  /\ OwnedTyped' /\ u \in Known' /\ Known \subseteq Known'
         /\ UNCHANGED <<fb, verified, rec>> => Backed(Known)'
<1>1. OwnedTyped' /\ u \in Known' /\ Known \subseteq Known'
  BY DEF AccountInv, Typed, OtherTyped, OwnedTyped, Known
<1>2. UNCHANGED <<fb, verified, rec>> => Backed(Known)'
  BY <1>1 DEF AccountInv, KnownInv, Backed
<1> QED
  BY <1>1, <1>2

\* A step that changes nothing but the request.
LEMMA FineAlone ==
  ASSUME AccountInv, NEW r \in Requests, NEW n, Fine(r, n),
         UNCHANGED <<firebase, store, issued, faults>>, UNCHANGED owned
  PROVE  AccountInv'
<1>1. FirebaseTyped' /\ StoreTyped'
  BY DEF AccountInv, Typed, FirebaseTyped, StoreTyped, firebase, store
<1> QED
  BY <1>1, OwnedRests, FineStep DEF firebase, store

LEMMA AnsweredFields ==
  ASSUME AccountInv, NEW r \in Requests
  PROVE  /\ Answered(r) \in Request /\ Answered(r).kind = "none" /\ Answered(r).step = "done"
         /\ Answered(r).todo = {} /\ Answered(r).user = NotRead
         /\ ~Answered(r).verified /\ ~Answered(r).migrated
         /\ Answered(r).must = req[r].must /\ Answered(r).must \subseteq issued
<1>1. req[r].must \subseteq issued /\ req[r].must \in SUBSET Sids
  BY AtRest DEF AccountInv, SessionsInv, Writing, Request
<1> QED
  BY <1>1, BlankFields DEF Answered, Request

LEMMA AnsweredFine ==
  ASSUME AccountInv, NEW r \in Requests, Moved(r, Answered(r)),
         req[r].step \notin {"issue", "done"}, req[r].todo = {}
  PROVE  Fine(r, Answered(r))
<1> DEFINE n == Answered(r)
<1>1. n \in Request /\ n.kind = "none" /\ n.step = "done" /\ n.todo = {} /\ n.user = NotRead
      /\ ~n.verified /\ ~n.migrated
      /\ n.must = req[r].must /\ n.must \subseteq issued /\ Moved(r, n)
  BY AnsweredFields
<1> HIDE DEF n
<1>2. Carries(n)
  BY <1>1 DEF Carries, SignIns
<1>3. Quiet(r, n)
  BY <1>1 DEF Quiet, AccountInv, SessionsInv, ToDestroy
<1>4. Vouched(n, Known')
  BY <1>1, RecordAssumption DEF Vouched
<1> QED
  BY <1>1, <1>2, <1>3, <1>4 DEF Fine, n

LEMMA Answers ==
  ASSUME AccountInv, NEW r \in Requests, Answer(r), req[r].step \notin {"issue", "done"},
         req[r].todo = {}
  PROVE  Fine(r, Answered(r))
<1>1. Moved(r, Answered(r))
  BY AnsweredFields, Goes DEF Answer, AccountInv
<1> QED
  BY <1>1, AnsweredFine

\* A step that goes on with what the request carries.
LEMMA GoesOn ==
  ASSUME AccountInv, NEW r \in Requests, NEW n \in Request, req' = [req EXCEPT ![r] = n],
         Carries(n), Vouched(n, Known'),
         req[r].step \notin {"issue", "sweep", "done"}, n.step # "issue",
         n.todo = {} \/ n.step = "sweep",
         \A o \in n.todo : o.op \in {"read", "delUser", "delBlob"},
         n.must = {}
  PROVE  Fine(r, n)
<1>1. Moved(r, n)
  BY Goes DEF AccountInv
<1>2. Quiet(r, n)
  BY AtRest DEF Quiet
<1> QED
  BY <1>1, <1>2 DEF Fine

\* A step that gives an answer, or goes on, and changes nothing else.
LEMMA AnswersAlone ==
  ASSUME AccountInv, NEW r \in Requests, Answer(r), req[r].step \notin {"issue", "sweep", "done"},
         UNCHANGED <<firebase, store, issued, owned, faults>>
  PROVE  AccountInv'
<1>1. Fine(r, Answered(r))
  BY Answers, AtRest
<1> QED
  BY <1>1, FineAlone

LEMMA GoesOnAlone ==
  ASSUME AccountInv, NEW r \in Requests, NEW n \in Request, req' = [req EXCEPT ![r] = n],
         Carries(n), Vouched(n, Known),
         req[r].step \notin {"issue", "sweep", "done"}, n.step # "issue",
         n.todo = {} \/ n.step = "sweep",
         \A o \in n.todo : o.op \in {"read", "delUser", "delBlob"},
         n.must = {},
         UNCHANGED <<firebase, store, issued, owned, faults>>
  PROVE  AccountInv'
<1>1. Fine(r, n)
  BY GoesOn, OwnedRests
<1> QED
  BY <1>1, FineAlone

Steps == {"idle", "done", "session", "signin", "migrate", "migrateSignup", "lookup", "find",
          "signupFirebase", "create", "mail", "flag", "align", "touch", "issue", "reauth",
          "fbDelete", "list", "target", "sweep", "access", "write"}

\* A request taken to a step, with all it has but what the set names.
Keeps(n, q, F) ==
    /\ n \in Request /\ n.kind = q.kind /\ n.sid = q.sid /\ n.must = q.must
    /\ "on" \notin F => n.on = q.on
    /\ "uid" \notin F => n.uid = q.uid
    /\ "fuid" \notin F => n.fuid = q.fuid
    /\ "verified" \notin F => n.verified = q.verified
    /\ "migrated" \notin F => n.migrated = q.migrated
    /\ "user" \notin F => n.user = q.user
    /\ "todo" \notin F => n.todo = q.todo

LEMMA SetsStep ==
  ASSUME NEW q \in Request, NEW st \in Steps
  PROVE  Keeps([q EXCEPT !.step = st], q, {})
<1> DEFINE n == [q EXCEPT !.step = st]
<1>0. n = [q EXCEPT !.step = st]
  OBVIOUS
<1> HIDE DEF n
<1>1. n \in Request
  BY <1>0 DEF Request, Steps
<1>2. n.kind = q.kind /\ n.sid = q.sid /\ n.must = q.must
  BY <1>0 DEF Request
<1>3. n.on = q.on /\ n.uid = q.uid /\ n.fuid = q.fuid
  BY <1>0 DEF Request
<1>4. n.verified = q.verified /\ n.migrated = q.migrated /\ n.user = q.user /\ n.todo = q.todo
  BY <1>0 DEF Request
<1> QED
  BY <1>1, <1>2, <1>3, <1>4 DEF Keeps, n

LEMMA SetsFuid ==
  ASSUME NEW q \in Request, NEW st \in Steps, NEW f \in Uids \cup {NoUid}
  PROVE  Keeps([q EXCEPT !.step = st, !.fuid = f], q, {"fuid"})
<1> DEFINE n == [q EXCEPT !.step = st, !.fuid = f]
<1>0. n = [q EXCEPT !.step = st, !.fuid = f]
  OBVIOUS
<1> HIDE DEF n
<1>1. n \in Request
  BY <1>0 DEF Request, Steps
<1>2. n.kind = q.kind /\ n.sid = q.sid /\ n.must = q.must
  BY <1>0 DEF Request
<1>3. n.on = q.on /\ n.uid = q.uid /\ n.verified = q.verified
  BY <1>0 DEF Request
<1>4. n.migrated = q.migrated /\ n.user = q.user /\ n.todo = q.todo
  BY <1>0 DEF Request
<1> QED
  BY <1>1, <1>2, <1>3, <1>4 DEF Keeps, n

LEMMA SetsMigrated ==
  ASSUME NEW q \in Request, NEW st \in Steps, NEW f \in Uids \cup {NoUid}, NEW b \in BOOLEAN
  PROVE  Keeps([q EXCEPT !.step = st, !.fuid = f, !.migrated = b], q, {"fuid", "migrated"})
<1> DEFINE n == [q EXCEPT !.step = st, !.fuid = f, !.migrated = b]
<1>0. n = [q EXCEPT !.step = st, !.fuid = f, !.migrated = b]
  OBVIOUS
<1> HIDE DEF n
<1>1. n \in Request
  BY <1>0 DEF Request, Steps
<1>2. n.kind = q.kind /\ n.sid = q.sid /\ n.must = q.must
  BY <1>0 DEF Request
<1>3. n.on = q.on /\ n.uid = q.uid
  BY <1>0 DEF Request
<1>4. n.verified = q.verified /\ n.user = q.user /\ n.todo = q.todo
  BY <1>0 DEF Request
<1> QED
  BY <1>1, <1>2, <1>3, <1>4 DEF Keeps, n

LEMMA SetsOn ==
  ASSUME NEW q \in Request, NEW st \in Steps, NEW f \in Uids \cup {NoUid}, NEW t \in Sids
  PROVE  Keeps([q EXCEPT !.step = st, !.fuid = f, !.on = t], q, {"fuid", "on"})
<1> DEFINE n == [q EXCEPT !.step = st, !.fuid = f, !.on = t]
<1>0. n = [q EXCEPT !.step = st, !.fuid = f, !.on = t]
  OBVIOUS
<1> HIDE DEF n
<1>1. n \in Request
  BY <1>0 DEF Request, Steps
<1>2. n.kind = q.kind /\ n.sid = q.sid /\ n.must = q.must
  BY <1>0 DEF Request
<1>3. n.uid = q.uid /\ n.verified = q.verified
  BY <1>0 DEF Request
<1>4. n.migrated = q.migrated /\ n.user = q.user /\ n.todo = q.todo
  BY <1>0 DEF Request
<1> QED
  BY <1>1, <1>2, <1>3, <1>4 DEF Keeps, n

LEMMA SetsVerified ==
  ASSUME NEW q \in Request, NEW st \in Steps, NEW b \in BOOLEAN
  PROVE  Keeps([q EXCEPT !.step = st, !.verified = b], q, {"verified"})
<1> DEFINE n == [q EXCEPT !.step = st, !.verified = b]
<1>0. n = [q EXCEPT !.step = st, !.verified = b]
  OBVIOUS
<1> HIDE DEF n
<1>1. n \in Request
  BY <1>0 DEF Request, Steps
<1>2. n.kind = q.kind /\ n.sid = q.sid /\ n.must = q.must
  BY <1>0 DEF Request
<1>3. n.on = q.on /\ n.uid = q.uid /\ n.fuid = q.fuid
  BY <1>0 DEF Request
<1>4. n.migrated = q.migrated /\ n.user = q.user /\ n.todo = q.todo
  BY <1>0 DEF Request
<1> QED
  BY <1>1, <1>2, <1>3, <1>4 DEF Keeps, n

LEMMA SetsUid ==
  ASSUME NEW q \in Request, NEW st \in Steps, NEW u \in Uids \cup {NoUid}
  PROVE  Keeps([q EXCEPT !.step = st, !.uid = u], q, {"uid"})
<1> DEFINE n == [q EXCEPT !.step = st, !.uid = u]
<1>0. n = [q EXCEPT !.step = st, !.uid = u]
  OBVIOUS
<1> HIDE DEF n
<1>1. n \in Request
  BY <1>0 DEF Request, Steps
<1>2. n.kind = q.kind /\ n.sid = q.sid /\ n.must = q.must
  BY <1>0 DEF Request
<1>3. n.on = q.on /\ n.fuid = q.fuid /\ n.verified = q.verified
  BY <1>0 DEF Request
<1>4. n.migrated = q.migrated /\ n.user = q.user /\ n.todo = q.todo
  BY <1>0 DEF Request
<1> QED
  BY <1>1, <1>2, <1>3, <1>4 DEF Keeps, n

LEMMA SetsUser ==
  ASSUME NEW q \in Request, NEW st \in Steps, NEW u \in Record \cup {NoRecord, NotRead}
  PROVE  Keeps([q EXCEPT !.step = st, !.user = u], q, {"user"})
<1> DEFINE n == [q EXCEPT !.step = st, !.user = u]
<1>0. n = [q EXCEPT !.step = st, !.user = u]
  OBVIOUS
<1> HIDE DEF n
<1>1. n \in Request
  BY <1>0 DEF Request, Steps
<1>2. n.kind = q.kind /\ n.sid = q.sid /\ n.must = q.must
  BY <1>0 DEF Request
<1>3. n.on = q.on /\ n.uid = q.uid /\ n.fuid = q.fuid
  BY <1>0 DEF Request
<1>4. n.verified = q.verified /\ n.migrated = q.migrated /\ n.todo = q.todo
  BY <1>0 DEF Request
<1> QED
  BY <1>1, <1>2, <1>3, <1>4 DEF Keeps, n

LEMMA SetsReading ==
  ASSUME NEW q \in Request, NEW st \in Steps, NEW u \in Record \cup {NoRecord, NotRead},
         NEW b \in BOOLEAN
  PROVE  Keeps([q EXCEPT !.step = st, !.user = u, !.stale = b], q, {"user"})
<1> DEFINE n == [q EXCEPT !.step = st, !.user = u, !.stale = b]
<1>0. n = [q EXCEPT !.step = st, !.user = u, !.stale = b]
  OBVIOUS
<1> HIDE DEF n
<1>1. n \in Request
  BY <1>0 DEF Request, Steps
<1>2. n.kind = q.kind /\ n.sid = q.sid /\ n.must = q.must
  BY <1>0 DEF Request
<1>3. n.on = q.on /\ n.uid = q.uid /\ n.fuid = q.fuid
  BY <1>0 DEF Request
<1>4. n.verified = q.verified /\ n.migrated = q.migrated /\ n.todo = q.todo
  BY <1>0 DEF Request
<1> QED
  BY <1>1, <1>2, <1>3, <1>4 DEF Keeps, n

LEMMA SetsTodo ==
  ASSUME NEW q \in Request, NEW st \in Steps, NEW d \in SUBSET Op
  PROVE  Keeps([q EXCEPT !.step = st, !.todo = d], q, {"todo"})
<1> DEFINE n == [q EXCEPT !.step = st, !.todo = d]
<1>0. n = [q EXCEPT !.step = st, !.todo = d]
  OBVIOUS
<1> HIDE DEF n
<1>1. n \in Request
  BY <1>0 DEF Request, Steps
<1>2. n.kind = q.kind /\ n.sid = q.sid /\ n.must = q.must
  BY <1>0 DEF Request
<1>3. n.on = q.on /\ n.uid = q.uid /\ n.fuid = q.fuid
  BY <1>0 DEF Request
<1>4. n.verified = q.verified /\ n.migrated = q.migrated /\ n.user = q.user
  BY <1>0 DEF Request
<1> QED
  BY <1>1, <1>2, <1>3, <1>4 DEF Keeps, n

LEMMA SignupFindsInv ==
  ASSUME AccountInv, NEW r \in Requests, SignupFinds(r)
  PROVE  AccountInv'
<1> DEFINE q == req[r]
<1>0. q \in Request
  BY AtRest
<1>1. q \in Request /\ Carries(q) /\ Vouched(q, Known) /\ Backed(Known)
      /\ q.todo = {} /\ q.must = {} /\ q.kind = "signup" /\ q.step = "find"
  BY AtRest DEF SignupFinds, At, SignIns, WithSession
<1>2. fb \in Uids \cup {NoUid} /\ rec \in Record \cup {NoRecord, NotRead}
      /\ FALSE \in BOOLEAN
  BY DEF AccountInv, Typed, FirebaseTyped, StoreTyped, Uids
<1>9. fb \in FirebaseUids \cup {NoUid} /\ rec \in Record \cup {NoRecord}
  BY DEF AccountInv, Typed, FirebaseTyped, StoreTyped
<1>3. CASE Answer(r)
  BY <1>1, <1>3, AnswersAlone DEF SignupFinds
<1>4. CASE Goto(r, "signupFirebase")
  <2> DEFINE n == [q EXCEPT !.step = "signupFirebase"]
  <2>1. req' = [req EXCEPT ![r] = n]
    BY <1>1, <1>4 DEF AccountInv, Typed, RequestsTyped, Goto
  <2> HIDE DEF q
  <2>0. "signupFirebase" \in Steps
    BY DEF Steps
  <2>2. Keeps(n, q, {})
    BY <1>0, <1>2, <2>0, SetsStep, Zenon DEF n
  <2>5. n.step = "signupFirebase"
    BY <1>1 DEF n, Request
  <2> HIDE DEF n
  <2>3. Carries(n)
    BY <1>1, <1>9, <1>4, <2>2, <2>5 DEF Keeps, Carries, SignIns
  <2>4. Vouched(n, Known)
    BY <1>1, <1>9, <1>4, <2>2, <2>5 DEF Keeps, Vouched, Backed, SignIns
  <2> QED
    BY <1>1, <2>1, <2>2, <2>5, <2>3, <2>4, GoesOnAlone DEF Keeps, SignupFinds, q
<1> QED
  BY <1>3, <1>4 DEF SignupFinds

LEMMA LoginAtFirebaseInv ==
  ASSUME AccountInv, NEW r \in Requests, LoginAtFirebase(r)
  PROVE  AccountInv'
<1> DEFINE q == req[r]
<1>0. q \in Request
  BY AtRest
<1>1. q \in Request /\ Carries(q) /\ Vouched(q, Known) /\ Backed(Known)
      /\ q.todo = {} /\ q.must = {} /\ q.kind = "login" /\ q.step = "signin"
  BY AtRest DEF LoginAtFirebase, At, SignIns, WithSession
<1>2. fb \in Uids \cup {NoUid} /\ rec \in Record \cup {NoRecord, NotRead}
      /\ FALSE \in BOOLEAN
  BY DEF AccountInv, Typed, FirebaseTyped, StoreTyped, Uids
<1>9. fb \in FirebaseUids \cup {NoUid} /\ rec \in Record \cup {NoRecord}
  BY DEF AccountInv, Typed, FirebaseTyped, StoreTyped
<1>3. CASE Answer(r)
  BY <1>1, <1>3, AnswersAlone DEF LoginAtFirebase
<1>4. CASE fb # NoUid /\ req' = [req EXCEPT ![r].step = "lookup", ![r].fuid = fb]
  <2> DEFINE n == [q EXCEPT !.step = "lookup", !.fuid = fb]
  <2>1. req' = [req EXCEPT ![r] = n]
    BY <1>1, <1>4 DEF AccountInv, Typed, RequestsTyped, Goto
  <2> HIDE DEF q
  <2>0. "lookup" \in Steps
    BY DEF Steps
  <2>2. Keeps(n, q, {"fuid"})
    BY <1>0, <1>2, <2>0, SetsFuid, Zenon DEF n
  <2>5. n.step = "lookup" /\ n.fuid = fb
    BY <1>1 DEF n, Request
  <2> HIDE DEF n
  <2>3. Carries(n)
    BY <1>1, <1>9, <1>4, <2>2, <2>5 DEF Keeps, Carries, SignIns
  <2>4. Vouched(n, Known)
    BY <1>1, <1>9, <1>4, <2>2, <2>5 DEF Keeps, Vouched, Backed, SignIns
  <2> QED
    BY <1>1, <2>1, <2>2, <2>5, <2>3, <2>4, GoesOnAlone DEF Keeps, LoginAtFirebase, q
<1>5. CASE Goto(r, "migrate")
  <2> DEFINE n == [q EXCEPT !.step = "migrate"]
  <2>1. req' = [req EXCEPT ![r] = n]
    BY <1>1, <1>5 DEF AccountInv, Typed, RequestsTyped, Goto
  <2> HIDE DEF q
  <2>0. "migrate" \in Steps
    BY DEF Steps
  <2>2. Keeps(n, q, {})
    BY <1>0, <1>2, <2>0, SetsStep, Zenon DEF n
  <2>5. n.step = "migrate"
    BY <1>1 DEF n, Request
  <2> HIDE DEF n
  <2>3. Carries(n)
    BY <1>1, <1>9, <1>5, <2>2, <2>5 DEF Keeps, Carries, SignIns
  <2>4. Vouched(n, Known)
    BY <1>1, <1>9, <1>5, <2>2, <2>5 DEF Keeps, Vouched, Backed, SignIns
  <2> QED
    BY <1>1, <2>1, <2>2, <2>5, <2>3, <2>4, GoesOnAlone DEF Keeps, LoginAtFirebase, q
<1> QED
  BY <1>3, <1>4, <1>5 DEF LoginAtFirebase

LEMMA MigrateFindsInv ==
  ASSUME AccountInv, NEW r \in Requests, MigrateFinds(r)
  PROVE  AccountInv'
<1> DEFINE q == req[r]
<1>0. q \in Request
  BY AtRest
<1>1. q \in Request /\ Carries(q) /\ Vouched(q, Known) /\ Backed(Known)
      /\ q.todo = {} /\ q.must = {} /\ q.kind = "login" /\ q.step = "migrate"
  BY AtRest DEF MigrateFinds, At, SignIns, WithSession
<1>2. fb \in Uids \cup {NoUid} /\ rec \in Record \cup {NoRecord, NotRead}
      /\ FALSE \in BOOLEAN
  BY DEF AccountInv, Typed, FirebaseTyped, StoreTyped, Uids
<1>9. fb \in FirebaseUids \cup {NoUid} /\ rec \in Record \cup {NoRecord}
  BY DEF AccountInv, Typed, FirebaseTyped, StoreTyped
<1>3. CASE Answer(r)
  BY <1>1, <1>3, AnswersAlone DEF MigrateFinds
<1>4. CASE rec # NoRecord /\ rec.hash /\ Goto(r, "migrateSignup")
  <2> DEFINE n == [q EXCEPT !.step = "migrateSignup"]
  <2>1. req' = [req EXCEPT ![r] = n]
    BY <1>1, <1>4 DEF AccountInv, Typed, RequestsTyped, Goto
  <2> HIDE DEF q
  <2>0. "migrateSignup" \in Steps
    BY DEF Steps
  <2>2. Keeps(n, q, {})
    BY <1>0, <1>2, <2>0, SetsStep, Zenon DEF n
  <2>5. n.step = "migrateSignup"
    BY <1>1 DEF n, Request
  <2> HIDE DEF n
  <2>3. Carries(n)
    BY <1>1, <1>9, <1>4, <2>2, <2>5 DEF Keeps, Carries, SignIns
  <2>4. Vouched(n, Known)
    BY <1>1, <1>9, <1>4, <2>2, <2>5 DEF Keeps, Vouched, Backed, SignIns
  <2> QED
    BY <1>1, <2>1, <2>2, <2>5, <2>3, <2>4, GoesOnAlone DEF Keeps, MigrateFinds, q
<1> QED
  BY <1>3, <1>4 DEF MigrateFinds

LEMMA ResetSignsInInv ==
  ASSUME AccountInv, NEW r \in Requests, ResetSignsIn(r)
  PROVE  AccountInv'
<1> DEFINE q == req[r]
<1>0. q \in Request
  BY AtRest
<1>1. q \in Request /\ Carries(q) /\ Vouched(q, Known) /\ Backed(Known)
      /\ q.todo = {} /\ q.must = {} /\ q.kind = "reset" /\ q.step = "signin"
  BY AtRest DEF ResetSignsIn, At, SignIns, WithSession
<1>2. fb \in Uids \cup {NoUid} /\ rec \in Record \cup {NoRecord, NotRead}
      /\ FALSE \in BOOLEAN
  BY DEF AccountInv, Typed, FirebaseTyped, StoreTyped, Uids
<1>9. fb \in FirebaseUids \cup {NoUid} /\ rec \in Record \cup {NoRecord}
  BY DEF AccountInv, Typed, FirebaseTyped, StoreTyped
<1>3. CASE Answer(r) /\ UNCHANGED proven
  BY <1>1, <1>3, AnswersAlone DEF ResetSignsIn, owned
<1>4. CASE /\ fb # NoUid /\ proven' = proven \cup {fb}
           /\ req' = [req EXCEPT ![r].step = "find", ![r].fuid = fb]
  <2> DEFINE n == [q EXCEPT !.step = "find", !.fuid = fb]
  <2>1. req' = [req EXCEPT ![r] = n]
    BY <1>1, <1>4 DEF AccountInv, Typed, RequestsTyped, Goto
  <2> HIDE DEF q
  <2>0. "find" \in Steps
    BY DEF Steps
  <2>2. Keeps(n, q, {"fuid"})
    BY <1>0, <1>2, <2>0, SetsFuid, Zenon DEF n
  <2>5. n.step = "find" /\ n.fuid = fb
    BY <1>1 DEF n, Request
  <2> HIDE DEF n
  <2>3. Carries(n)
    BY <1>1, <1>9, <1>4, <2>2, <2>5 DEF Keeps, Carries, SignIns
  <2>6. OwnedTyped' /\ fb \in Known' /\ Known \subseteq Known' /\ Backed(Known)'
    BY <1>4, <1>9, Grows DEF ResetSignsIn, firebase, store
  <2>4. Vouched(n, Known')
    BY <1>1, <2>2, <2>5, <2>6 DEF Keeps, Vouched
  <2>7. Fine(r, n)
    BY <1>1, <2>1, <2>2, <2>5, <2>3, <2>4, GoesOn DEF Keeps, q
  <2>8. StoreTyped' /\ FirebaseTyped'
    BY DEF ResetSignsIn, firebase, store, StoreTyped, AccountInv, Typed, FirebaseTyped
  <2> QED
    BY <2>6, <2>7, <2>8, FineStep DEF ResetSignsIn, store
<1> QED
  BY <1>3, <1>4 DEF ResetSignsIn

LEMMA LoginLooksUpInv ==
  ASSUME AccountInv, NEW r \in Requests, LoginLooksUp(r)
  PROVE  AccountInv'
<1> DEFINE q == req[r]
<1>0. q \in Request
  BY AtRest
<1>1. q \in Request /\ Carries(q) /\ Vouched(q, Known) /\ Backed(Known)
      /\ q.todo = {} /\ q.must = {} /\ q.kind = "login" /\ q.step = "lookup"
  BY AtRest DEF LoginLooksUp, At, SignIns, WithSession
<1>2. fb \in Uids \cup {NoUid} /\ rec \in Record \cup {NoRecord, NotRead}
      /\ FALSE \in BOOLEAN
  BY DEF AccountInv, Typed, FirebaseTyped, StoreTyped, Uids
<1>9. fb \in FirebaseUids \cup {NoUid} /\ rec \in Record \cup {NoRecord}
  BY DEF AccountInv, Typed, FirebaseTyped, StoreTyped
<1>3. PICK v \in {FALSE, verified /\ fb = q.fuid} :
           req' = [req EXCEPT ![r].step = "find", ![r].verified = v]
  BY DEF LoginLooksUp
<1>4. v \in BOOLEAN /\ (~verified => ~v)
  BY <1>3 DEF AccountInv, Typed, FirebaseTyped
<1>5. CASE TRUE
  <2> DEFINE n == [q EXCEPT !.step = "find", !.verified = v]
  <2>1. req' = [req EXCEPT ![r] = n]
    BY <1>1, <1>3 DEF AccountInv, Typed, RequestsTyped, Goto
  <2> HIDE DEF q
  <2>0. "find" \in Steps
    BY DEF Steps
  <2>2. Keeps(n, q, {"verified"})
    BY <1>0, <1>4, <2>0, SetsVerified, Zenon DEF n
  <2>5. n.step = "find" /\ n.verified = v
    BY <1>1 DEF n, Request
  <2> HIDE DEF n
  <2>3. Carries(n)
    BY <1>1, <1>4, <2>2, <2>5 DEF Keeps, Carries, SignIns
  <2>4. Vouched(n, Known)
    BY <1>1, <1>4, <2>2, <2>5 DEF Keeps, Vouched, Backed, SignIns
  <2> QED
    BY <1>1, <2>1, <2>2, <2>5, <2>3, <2>4, GoesOnAlone DEF Keeps, LoginLooksUp, q
<1> QED
  BY <1>5 DEF LoginLooksUp

LEMMA PostVerifyLooksUpInv ==
  ASSUME AccountInv, NEW r \in Requests, PostVerifyLooksUp(r)
  PROVE  AccountInv'
<1> DEFINE q == req[r]
<1>0. q \in Request
  BY AtRest
<1>1. q \in Request /\ Carries(q) /\ Vouched(q, Known) /\ Backed(Known)
      /\ q.todo = {} /\ q.must = {} /\ q.kind = "postVerify" /\ q.step = "lookup"
  BY AtRest DEF PostVerifyLooksUp, At, SignIns, WithSession
<1>2. fb \in Uids \cup {NoUid} /\ rec \in Record \cup {NoRecord, NotRead}
      /\ FALSE \in BOOLEAN
  BY DEF AccountInv, Typed, FirebaseTyped, StoreTyped, Uids
<1>9. fb \in FirebaseUids \cup {NoUid} /\ rec \in Record \cup {NoRecord}
  BY DEF AccountInv, Typed, FirebaseTyped, StoreTyped
<1>3. CASE Answer(r)
  BY <1>1, <1>3, AnswersAlone DEF PostVerifyLooksUp
<1>4. CASE fb # NoUid /\ verified
               /\ \E t \in Requests :
                    req' = [req EXCEPT ![r].step = "find", ![r].fuid = fb, ![r].on = t]
  <2>9. PICK t \in Requests :
             req' = [req EXCEPT ![r].step = "find", ![r].fuid = fb, ![r].on = t]
    BY <1>4
  <2>8. t \in Sids
    BY <2>9 DEF Sids
  <2> DEFINE n == [q EXCEPT !.step = "find", !.fuid = fb, !.on = t]
  <2>1. req' = [req EXCEPT ![r] = n]
    BY <1>1, <2>9 DEF AccountInv, Typed, RequestsTyped, Goto
  <2> HIDE DEF q
  <2>0. "find" \in Steps
    BY DEF Steps
  <2>2. Keeps(n, q, {"fuid", "on"})
    BY <1>0, <1>2, <2>0, <2>8, SetsOn, Zenon DEF n
  <2>5. n.step = "find" /\ n.fuid = fb /\ n.on = t
    BY <1>1 DEF n, Request
  <2> HIDE DEF n
  <2>3. Carries(n)
    BY <1>1, <1>9, <1>4, <2>2, <2>5 DEF Keeps, Carries, SignIns
  <2>4. Vouched(n, Known)
    BY <1>1, <1>9, <1>4, <2>2, <2>5 DEF Keeps, Vouched, Backed, SignIns
  <2> QED
    BY <1>1, <2>1, <2>2, <2>5, <2>3, <2>4, GoesOnAlone DEF Keeps, PostVerifyLooksUp, q
<1> QED
  BY <1>3, <1>4 DEF PostVerifyLooksUp

LEMMA FindUserByEmailInv ==
  ASSUME AccountInv, NEW r \in Requests, FindUserByEmail(r)
  PROVE  AccountInv'
<1> DEFINE q == req[r]
<1>0. q \in Request
  BY AtRest
<1>1. q \in Request /\ Carries(q) /\ Vouched(q, Known) /\ Backed(Known)
      /\ q.todo = {} /\ q.must = {} /\ q.kind \in SignIns /\ q.step = "find"
  BY AtRest DEF FindUserByEmail, At, SignIns, WithSession
<1>2. fb \in Uids \cup {NoUid} /\ rec \in Record \cup {NoRecord, NotRead}
      /\ FALSE \in BOOLEAN
  BY DEF AccountInv, Typed, FirebaseTyped, StoreTyped, Uids
<1>9. fb \in FirebaseUids \cup {NoUid} /\ rec \in Record \cup {NoRecord}
  BY DEF AccountInv, Typed, FirebaseTyped, StoreTyped
<1> DEFINE st == IF rec = NoRecord THEN "create"
                 ELSE IF Aligns(q.kind) /\ rec.uid # q.fuid THEN "align" ELSE "touch"
<1>3. CASE TRUE
  <2> DEFINE n == [q EXCEPT !.step = st, !.user = rec, !.stale = FALSE]
  <2>1. req' = [req EXCEPT ![r] = n]
    BY <1>1, <1>3 DEF AccountInv, Typed, RequestsTyped, Goto, FindUserByEmail
  <2> HIDE DEF q
  <2>0. st \in Steps
    BY DEF Steps, st
  <2>2. Keeps(n, q, {"user"})
    BY <1>0, <1>2, <2>0, SetsReading, Zenon DEF n
  <2>5. n.step = st /\ n.user = rec
    BY <1>1 DEF n, Request
  <2> HIDE DEF n
  <2>3. Carries(n)
    BY <1>1, <1>9, <2>2, <2>5 DEF Keeps, Carries, SignIns, st, Aligns
  <2>4. Vouched(n, Known)
    BY <1>1, <1>9, <2>2, <2>5 DEF Keeps, Vouched, Backed, SignIns, st, Aligns
  <2> QED
    BY <1>1, <2>1, <2>2, <2>5, <2>3, <2>4, GoesOnAlone DEF Keeps, FindUserByEmail, q
<1> QED
  BY <1>3 DEF FindUserByEmail

LEMMA ReadsSessionInv ==
  ASSUME AccountInv, NEW r \in Requests, ReadsSession(r)
  PROVE  AccountInv'
<1> DEFINE q == req[r]
<1>0. q \in Request
  BY AtRest
<1>1. q \in Request /\ Carries(q) /\ Vouched(q, Known) /\ Backed(Known)
      /\ q.todo = {} /\ q.must = {} /\ q.kind \in WithSession /\ q.step = "session"
  BY AtRest DEF ReadsSession, At, SignIns, WithSession
<1>2. q.sid \in Sids
  BY <1>1 DEF Carries
<1> DEFINE u == session[q.sid]
           st == CASE q.kind \in {"change", "delete"} -> "reauth"
                   [] q.kind = "revoke" -> "target"
                   [] q.kind = "put" -> "access"
                   [] q.kind = "logout" -> "sweep"
<1>9. u \in Uids \cup {NoUid}
  BY <1>2 DEF AccountInv, Typed, StoreTyped
<1>8. st \in Steps /\ (q.kind # "logout" => st \in {"reauth", "target", "access"})
      /\ (st = "access" => q.kind = "put") /\ (q.kind = "logout" => st = "sweep")
  BY <1>1 DEF WithSession, Steps
<1>3. CASE Answer(r)
  BY <1>1, <1>3, AnswersAlone DEF ReadsSession
<1>4. CASE q.kind # "logout" /\ u # NoUid /\ req' = [req EXCEPT ![r].step = st, ![r].uid = u]
  <2> DEFINE n == [q EXCEPT !.step = st, !.uid = u]
  <2> HIDE DEF st, u
  <2>1. req' = [req EXCEPT ![r] = n]
    BY <1>1, <1>4 DEF AccountInv, Typed, RequestsTyped
  <2> HIDE DEF q
  <2>2. Keeps(n, q, {"uid"})
    BY <1>0, <1>8, <1>9, SetsUid, Zenon DEF n
  <2>5. n.step = st /\ n.uid = u
    BY <1>1 DEF n, Request
  <2> HIDE DEF n
  <2>3. Carries(n)
    BY <1>1, <1>2, <1>4, <1>8, <1>9, <2>2, <2>5 DEF Keeps, Carries, SignIns, WithSession
  <2>4. Vouched(n, Known)
    BY <1>1, <1>8, <2>2, <2>5 DEF Keeps, Vouched, WithSession
  <2> QED
    BY <1>1, <1>4, <1>8, <2>1, <2>2, <2>5, <2>3, <2>4, GoesOnAlone DEF Keeps, ReadsSession, q
<1>5. CASE q.kind = "logout" /\ req' = [req EXCEPT ![r].step = st, ![r].todo =
                                          {[op |-> "read", sid |-> q.sid, uid |-> NoUid]}]
  <2> DEFINE d == {[op |-> "read", sid |-> q.sid, uid |-> NoUid]}
             n == [q EXCEPT !.step = st, !.todo = d]
  <2>1. req' = [req EXCEPT ![r] = n]
    BY <1>1, <1>5 DEF AccountInv, Typed, RequestsTyped
  <2>6. d \in SUBSET Op /\ \A o \in d : o.op = "read"
    BY <1>2 DEF Op
  <2> HIDE DEF q, st, u, d
  <2>2. Keeps(n, q, {"todo"})
    BY <1>0, <1>8, <2>6, SetsTodo, Zenon DEF n
  <2>5. n.step = st /\ n.todo = d
    BY <1>1 DEF n, Request
  <2> HIDE DEF n
  <2>3. Carries(n)
    BY <1>1, <1>2, <1>5, <1>8, <2>2, <2>5 DEF Keeps, Carries, SignIns, WithSession
  <2>4. Vouched(n, Known)
    BY <1>1, <1>5, <1>8, <2>2, <2>5 DEF Keeps, Vouched
  <2> QED
    BY <1>1, <1>5, <1>8, <2>1, <2>2, <2>5, <2>6, <2>3, <2>4, GoesOnAlone
    DEF Keeps, ReadsSession, q
<1> QED
  BY <1>3, <1>4, <1>5 DEF ReadsSession

LEMMA ReauthenticatesInv ==
  ASSUME AccountInv, NEW r \in Requests, Reauthenticates(r)
  PROVE  AccountInv'
<1> DEFINE q == req[r]
<1>0. q \in Request
  BY AtRest
<1>1. q \in Request /\ Carries(q) /\ Vouched(q, Known) /\ Backed(Known)
      /\ q.todo = {} /\ q.must = {} /\ q.step = "reauth"
  BY AtRest DEF Reauthenticates, At, SignIns, WithSession
<1>2. fb \in Uids \cup {NoUid} /\ rec \in Record \cup {NoRecord, NotRead}
      /\ FALSE \in BOOLEAN
  BY DEF AccountInv, Typed, FirebaseTyped, StoreTyped, Uids
<1>9. fb \in FirebaseUids \cup {NoUid} /\ rec \in Record \cup {NoRecord}
  BY DEF AccountInv, Typed, FirebaseTyped, StoreTyped
<1>7. q.kind \in WithSession
  BY <1>1 DEF Carries
<1> DEFINE st == IF q.kind = "delete" THEN "fbDelete" ELSE "list"
<1>3. CASE Answer(r)
  BY <1>1, <1>3, AnswersAlone DEF Reauthenticates
<1>4. CASE fb # NoUid /\ req' = [req EXCEPT ![r].fuid = fb, ![r].step = st]
  <2> DEFINE n == [q EXCEPT !.step = st, !.fuid = fb]
  <2>1. req' = [req EXCEPT ![r] = n]
    BY <1>1, <1>4 DEF AccountInv, Typed, RequestsTyped, Goto
  <2> HIDE DEF q
  <2>0. st \in Steps
    BY DEF Steps, st
  <2>2. Keeps(n, q, {"fuid"})
    BY <1>0, <1>2, <2>0, SetsFuid, Zenon DEF n
  <2>5. n.step = st /\ n.fuid = fb
    BY <1>1 DEF n, Request
  <2> HIDE DEF n
  <2>3. Carries(n)
    BY <1>1, <1>7, <1>9, <1>4, <2>2, <2>5 DEF Keeps, Carries, SignIns, st, WithSession
  <2>4. Vouched(n, Known)
    BY <1>1, <1>7, <1>9, <1>4, <2>2, <2>5
      DEF Keeps, Vouched, Backed, WithSession, st
  <2> QED
    BY <1>1, <2>1, <2>2, <2>5, <2>3, <2>4, GoesOnAlone DEF Keeps, st, Reauthenticates, q
<1> QED
  BY <1>3, <1>4 DEF Reauthenticates

LEMMA ChecksAccessInv ==
  ASSUME AccountInv, NEW r \in Requests, ChecksAccess(r)
  PROVE  AccountInv'
<1> DEFINE q == req[r]
<1>0. q \in Request
  BY AtRest
<1>1. q \in Request /\ Carries(q) /\ Vouched(q, Known) /\ Backed(Known)
      /\ q.todo = {} /\ q.must = {} /\ q.kind = "put" /\ q.step = "access"
  BY AtRest DEF ChecksAccess, At, SignIns, WithSession
<1>2. fb \in Uids \cup {NoUid} /\ rec \in Record \cup {NoRecord, NotRead}
      /\ FALSE \in BOOLEAN
  BY DEF AccountInv, Typed, FirebaseTyped, StoreTyped, Uids
<1>9. fb \in FirebaseUids \cup {NoUid} /\ rec \in Record \cup {NoRecord}
  BY DEF AccountInv, Typed, FirebaseTyped, StoreTyped
<1>3. CASE Answer(r)
  BY <1>1, <1>3, AnswersAlone DEF ChecksAccess
<1>4. CASE Goto(r, "write")
  <2> DEFINE n == [q EXCEPT !.step = "write"]
  <2>1. req' = [req EXCEPT ![r] = n]
    BY <1>1, <1>4 DEF AccountInv, Typed, RequestsTyped, Goto
  <2> HIDE DEF q
  <2>0. "write" \in Steps
    BY DEF Steps
  <2>2. Keeps(n, q, {})
    BY <1>0, <1>2, <2>0, SetsStep, Zenon DEF n
  <2>5. n.step = "write"
    BY <1>1 DEF n, Request
  <2> HIDE DEF n
  <2>3. Carries(n)
    BY <1>1, <1>9, <1>4, <2>2, <2>5 DEF Keeps, Carries, SignIns, WithSession
  <2>4. Vouched(n, Known)
    BY <1>1, <1>9, <1>4, <2>2, <2>5 DEF Keeps, Vouched, Backed, SignIns
  <2> QED
    BY <1>1, <2>1, <2>2, <2>5, <2>3, <2>4, GoesOnAlone DEF Keeps, ChecksAccess, q
<1> QED
  BY <1>3, <1>4 DEF ChecksAccess

LEMMA SweepEndsInv ==
  ASSUME AccountInv, NEW r \in Requests, SweepEnds(r)
  PROVE  AccountInv'
<1>1. Fine(r, Answered(r))
  BY Answers DEF SweepEnds
<1> QED
  BY <1>1, FineAlone DEF SweepEnds

LEMMA ReadsTargetInv ==
  ASSUME AccountInv, NEW r \in Requests, ReadsTarget(r)
  PROVE  AccountInv'
<1> DEFINE q == req[r]
<1>1. q \in Request /\ Carries(q) /\ Vouched(q, Known) /\ q.todo = {}
      /\ q.kind = "revoke" /\ q.step = "target"
  BY AtRest DEF ReadsTarget, At
<1>2. q.on \in Sids
  BY <1>1 DEF Carries
<1>3. CASE Answer(r)
  BY <1>1, <1>3, AnswersAlone DEF ReadsTarget
<1>4. CASE ~Answer(r)
  <2> DEFINE d == DestroyReads({q.on})
             n == [Blank EXCEPT !.kind = "revoke", !.step = "sweep", !.todo = d]
  <2>1. req' = [req EXCEPT ![r] = n]
    BY <1>4 DEF ReadsTarget
  <2>2. d \in SUBSET Op /\ \A o \in d : o.op = "read"
    BY <1>2 DEF DestroyReads, Op
  <2> HIDE DEF d, q
  <2>3. n \in Request
    BY <2>2, BlankFields DEF Request, Kinds, WithSession
  <2>4. n.kind = "revoke" /\ n.step = "sweep" /\ n.todo = d /\ n.must = {}
        /\ ~n.verified /\ ~n.migrated /\ n.user = NotRead
    BY BlankFields DEF Request
  <2> HIDE DEF n
  <2>5. Carries(n) /\ Vouched(n, Known)
    BY <2>4, RecordAssumption DEF Carries, Vouched, SignIns
  <2> QED
    BY <1>1, <1>2, <2>1, <2>2, <2>3, <2>4, <2>5, GoesOnAlone DEF ReadsTarget, q
<1> QED
  BY <1>3, <1>4

LEMMA AdminFindsInv ==
  ASSUME AccountInv, NEW r \in Requests, AdminFinds(r)
  PROVE  AccountInv'
<1> DEFINE q == req[r]
<1>0. q \in Request
  BY AtRest
<1>1. Carries(q) /\ Vouched(q, Known) /\ Backed(Known) /\ q.todo = {} /\ q.must = {}
      /\ q.kind \in {"adminDelete", "adminAccess"} /\ q.step = "find"
  BY AtRest DEF AdminFinds
<1>2. rec # NoRecord => rec \in Record /\ rec \in Record \cup {NoRecord, NotRead}
                        /\ rec.uid \in Uids
  BY DEF AccountInv, Typed, StoreTyped, Record
<1>3. CASE rec = NoRecord
  BY <1>1, <1>3, AnswersAlone DEF AdminFinds
<1>4. CASE rec # NoRecord /\ q.kind = "adminDelete"
  <2> DEFINE d == {[op |-> "delUser", uid |-> rec.uid], [op |-> "delBlob", uid |-> rec.uid]}
             n == [q EXCEPT !.step = "sweep", !.todo = d]
  <2>2. d \in SUBSET Op /\ \A o \in d : o.op \in {"delUser", "delBlob"}
    BY <1>2, <1>4 DEF Op
  <2>0. req' = [req EXCEPT ![r].step = "sweep", ![r].todo = d]
    BY <1>4 DEF AdminFinds
  <2> HIDE DEF d
  <2>1. req' = [req EXCEPT ![r] = n]
    BY <2>0, <1>0 DEF AccountInv, Typed, RequestsTyped
  <2> HIDE DEF q
  <2>3. "sweep" \in Steps
    BY DEF Steps
  <2>4. Keeps(n, q, {"todo"})
    BY <1>0, <2>2, <2>3, SetsTodo, Zenon DEF n
  <2>5. n.step = "sweep" /\ n.todo = d
    BY <1>0 DEF n, Request
  <2> HIDE DEF n
  <2>6. Carries(n) /\ Vouched(n, Known)
    BY <1>1, <1>4, <2>4, <2>5 DEF Keeps, Carries, Vouched, SignIns, WithSession
  <2> QED
    BY <1>1, <2>1, <2>2, <2>4, <2>5, <2>6, GoesOnAlone DEF AdminFinds, Keeps, q
<1>5. CASE rec # NoRecord /\ q.kind = "adminAccess"
  <2> DEFINE n == [q EXCEPT !.step = "access", !.user = rec, !.stale = FALSE]
  <2>1. req' = [req EXCEPT ![r] = n]
    BY <1>0, <1>1, <1>5 DEF AdminFinds, AccountInv, Typed, RequestsTyped
  <2> HIDE DEF q
  <2>3. "access" \in Steps /\ FALSE \in BOOLEAN
    BY DEF Steps
  <2>4. Keeps(n, q, {"user"})
    BY <1>0, <1>2, <1>5, <2>3, SetsReading, Zenon DEF n
  <2>5. n.step = "access" /\ n.user = rec
    BY <1>0 DEF n, Request
  <2> HIDE DEF n
  <2>6. Carries(n) /\ Vouched(n, Known)
    BY <1>1, <1>2, <1>5, <2>4, <2>5
      DEF Keeps, Carries, Vouched, Backed, SignIns, WithSession
  <2> QED
    BY <1>1, <2>1, <2>4, <2>5, <2>6, GoesOnAlone DEF AdminFinds, Keeps, q
<1> QED
  BY <1>1, <1>3, <1>4, <1>5

\* What a deletion or a change of password lists is every session it must end.
LEMMA ListsSessionsInv ==
  ASSUME AccountInv, NEW r \in Requests, ListsSessions(r)
  PROVE  AccountInv'
<1> DEFINE q == req[r]
           u == q.uid
           mine == ListSessionsForUser(u)
           m == {s \in issued \ {q.sid} : session[s] = u}
           d == IF q.kind = "change" THEN DestroyReads(mine \ {q.sid})
                ELSE DestroyReads(mine \cup {q.sid})
                     \cup {[op |-> "delUser", uid |-> u], [op |-> "delBlob", uid |-> u]}
           n == [Blank EXCEPT !.kind = q.kind, !.step = "sweep", !.must = m, !.todo = d]
<1>1. q \in Request /\ Carries(q) /\ Vouched(q, Known) /\ q.todo = {} /\ q.step = "list"
  BY AtRest DEF ListsSessions
<1>2. q.kind \in WithSession /\ u \in Uids /\ q.sid \in Sids
  BY <1>1 DEF Carries
<1>3. req' = [req EXCEPT ![r] = n]
  BY DEF ListsSessions
<1>4. m \in SUBSET Sids /\ m \subseteq issued
  BY DEF AccountInv, Typed, OtherTyped
<1>5. d \in SUBSET Op /\ \A o \in d : o.op \in {"read", "delUser", "delBlob"}
  <2>1. mine \subseteq Sids
    BY DEF ListSessionsForUser
  <2> HIDE DEF mine, u
  <2> QED
    BY <1>2, <2>1 DEF DestroyReads, Op
<1>6. \A s \in mine \ {q.sid} : ReadOf(s) \in d
  BY DEF DestroyReads, ReadOf
<1>7. ASSUME faults = 0, NEW s \in m
      PROVE  BeingDeleted(s) \/ ReadOf(s) \in d
  <2>1. s \in Sids /\ s \in issued /\ s # q.sid /\ session[s] = u /\ s \in Live
    BY <1>2, <1>4, AccountsAssumption DEF Live, Uids
  <2>2. ToList(s, u) \/ BeingDeleted(s)
    BY <1>7, <2>1 DEF AccountInv, SessionsInv, Listed
  <2>3. ~Todo([op |-> "putIndex", sid |-> s, uid |-> u])
    <3> DEFINE o == [op |-> "putIndex", sid |-> s, uid |-> u]
    <3>1. o.op = "putIndex" /\ o.sid = s
      OBVIOUS
    <3> SUFFICES ASSUME NEW x \in Requests, o \in req[x].todo PROVE FALSE
      BY DEF Todo
    <3> HIDE DEF o
    <3>2. req[x].step = "issue"
      BY <3>1 DEF AccountInv, SessionsInv, Writing
    <3>3. o.sid = x
      BY <3>2 DEF AccountInv, SessionsInv, Writing, SessionPuts
    <3> QED
      BY <3>1, <3>2, <3>3, <2>1 DEF AccountInv, SessionsInv, PutOnce
  <2>4. <<u, s>> \in index => s \in mine
    BY <2>1 DEF ListSessionsForUser
  <2> QED
    BY <2>1, <2>2, <2>3, <2>4, <1>6 DEF ToList
<1> HIDE DEF d, m, q, u, mine
<1>8. n \in Request
  <2>1. q.kind \in Kinds \cup {"none"} /\ Blank \in Request
    BY <1>1, BlankFields DEF Request
  <2> DEFINE b == [Blank EXCEPT !.kind = q.kind, !.step = "sweep"]
  <2>2. b \in Request
    BY <2>1 DEF Request
  <2> HIDE DEF b
  <2>3. [b EXCEPT !.must = m, !.todo = d] \in Request
    BY <1>4, <1>5, <2>2 DEF Request
  <2> QED
    BY <2>3 DEF b
<1>9. n.kind = q.kind /\ n.step = "sweep" /\ n.must = m /\ n.todo = d
      /\ ~n.verified /\ ~n.migrated /\ n.user = NotRead
  BY BlankFields DEF Request
<1> HIDE DEF n
<1>10. Carries(n) /\ Vouched(n, Known')
  BY <1>2, <1>9, RecordAssumption DEF Carries, Vouched, SignIns, WithSession
<1>11. Moved(r, n)
  BY <1>3, <1>8, Goes DEF AccountInv
<1>12. Quiet(r, n)
  BY <1>1, <1>4, <1>5, <1>7, <1>9 DEF Quiet, q
<1>13. Fine(r, n)
  BY <1>2, <1>8, <1>10, <1>11, <1>12 DEF Fine, ListsSessions
<1> QED
  BY <1>13, FineAlone DEF ListsSessions

LEMMA FirstStepKnown ==
  ASSUME NEW kind \in Kinds
  PROVE  /\ kind \in {"signup", "google", "adminDelete", "adminAccess"} => FirstStep(kind) = "find"
         /\ kind = "login" => FirstStep(kind) = "signin"
         /\ kind \in {"postVerify", "verify", "reset"} => FirstStep(kind) = "lookup"
         /\ kind \in WithSession => FirstStep(kind) = "session"
  BY DEF FirstStep, Kinds, SignIns, WithSession

LEMMA ArrivesInv ==
  ASSUME AccountInv, NEW r \in Requests, NEW kind \in Kinds, Arrives(r, kind)
  PROVE  AccountInv'
<1>1. PICK s \in IF kind \in WithSession THEN issued ELSE {NoSid},
           o \in IF kind = "revoke" THEN issued ELSE {NoSid} :
             req' = [req EXCEPT ![r] =
                   [Blank EXCEPT !.kind = kind, !.step = FirstStep(kind), !.sid = s, !.on = o,
                                 !.fuid = IF kind = "google" THEN GoogleUid ELSE NoUid]]
  BY DEF Arrives
<1> DEFINE st == FirstStep(kind)
           f == IF kind = "google" THEN GoogleUid ELSE NoUid
           n == [Blank EXCEPT !.kind = kind, !.step = st, !.sid = s, !.on = o, !.fuid = f]
<1>2. /\ req' = [req EXCEPT ![r] = n] /\ req[r].step = "idle" /\ req[r].todo = {}
      /\ f \in Uids \cup {NoUid} /\ (kind = "google" => f = GoogleUid)
      /\ s \in Sids \cup {NoSid} /\ o \in Sids \cup {NoSid}
      /\ kind \in WithSession => s \in Sids /\ s \in issued
      /\ kind = "revoke" => o \in Sids
  BY <1>1, AtRest DEF Arrives, Uids, AccountInv, Typed, OtherTyped, WithSession
<1>3. st \in {"find", "signin", "lookup", "session"} /\ (kind \notin WithSession => st # "session")
      /\ (st = "find" => kind \in {"signup", "google", "adminDelete", "adminAccess"})
      /\ (st = "lookup" => kind \in {"postVerify", "verify", "reset"})
      /\ (kind = "login" => st = "signin")
      /\ (kind \in {"postVerify", "verify", "reset"} => st = "lookup")
  BY FirstStepKnown DEF Kinds, SignIns, WithSession
<1> HIDE DEF st, f
<1>4. n \in Request
  <2>1. st \in Steps /\ kind \in Kinds \cup {"none"} /\ Blank \in Request
    BY <1>3, BlankFields DEF Steps
  <2> DEFINE b == [Blank EXCEPT !.kind = kind, !.step = st]
  <2>2. b \in Request
    BY <2>1 DEF Request, Steps
  <2> HIDE DEF b
  <2>3. [b EXCEPT !.sid = s, !.on = o, !.fuid = f] \in Request
    BY <1>2, <2>2 DEF Request
  <2> QED
    BY <2>3 DEF b
<1>5. n.kind = kind /\ n.step = st /\ n.sid = s /\ n.on = o
  BY BlankFields DEF Request
<1>6. n.fuid = f /\ n.user = NotRead /\ n.todo = {} /\ n.must = {}
  BY BlankFields DEF Request
<1>7. n.verified = FALSE /\ n.migrated = FALSE
  BY BlankFields DEF Request
<1> HIDE DEF n
<1>8. Carries(n)
  BY <1>2, <1>3, <1>5, <1>6 DEF Carries, SignIns, WithSession
<1>9. Vouched(n, Known')
  BY <1>3, <1>5, <1>6, <1>7, RecordAssumption DEF Vouched
<1>10. Fine(r, n)
  BY <1>2, <1>3, <1>4, <1>5, <1>6, <1>8, <1>9, GoesOn
<1>11. FirebaseTyped' /\ StoreTyped'
  BY DEF AccountInv, Typed, OtherTyped, FirebaseTyped, StoreTyped, Arrives, firebase, store
<1> QED
  BY <1>10, <1>11, OwnedRests, FineStep DEF Arrives, firebase, store

LEMMA NewAccountTyped ==
  ASSUME AccountInv, NEW u \in FirebaseUids, NewAccount(u)
  PROVE  FirebaseTyped' /\ ~verified'
  BY DEF NewAccount, FirebaseTyped, AccountInv, Typed

LEMMA SignupAtFirebaseInv ==
  ASSUME AccountInv, NEW r \in Requests, SignupAtFirebase(r)
  PROVE  AccountInv'
<1> DEFINE q == req[r]
<1>0. q \in Request
  BY AtRest
<1>1. Carries(q) /\ Vouched(q, Known) /\ Backed(Known) /\ q.todo = {} /\ q.must = {}
      /\ q.kind = "signup" /\ q.step = "signupFirebase"
  BY AtRest DEF SignupAtFirebase, At
<1>2. CASE Answer(r) /\ UNCHANGED firebase
  BY <1>1, <1>2, AnswersAlone DEF SignupAtFirebase
<1>3. ASSUME fb = NoUid, NEW u \in FirebaseUids, NewAccount(u),
             req' = [req EXCEPT ![r].step = "create", ![r].fuid = u]
      PROVE  AccountInv'
  <2> DEFINE n == [q EXCEPT !.step = "create", !.fuid = u]
  <2>1. req' = [req EXCEPT ![r] = n]
    BY <1>0, <1>3 DEF AccountInv, Typed, RequestsTyped
  <2> HIDE DEF q
  <2>2. "create" \in Steps /\ u \in Uids \cup {NoUid}
    BY <1>3 DEF Steps, Uids
  <2>3. Keeps(n, q, {"fuid"})
    BY <1>0, <2>2, SetsFuid, Zenon DEF n
  <2>4. n.step = "create" /\ n.fuid = u
    BY <1>0 DEF n, Request
  <2> HIDE DEF n
  <2>5. Carries(n) /\ n \in Request
    BY <1>1, <1>3, <2>3, <2>4 DEF Keeps, Carries, SignIns, WithSession
  <2>6. Vouched(n, Known')
    BY <1>1, <2>3, <2>4, OwnedRests DEF Keeps, Vouched, SignupAtFirebase
  <2>7. Fine(r, n)
    BY <1>1, <2>1, <2>3, <2>4, <2>5, <2>6, GoesOn DEF Keeps, q
  <2>8. StoreTyped' /\ OwnedTyped' /\ Known' = Known
    BY OwnedRests DEF SignupAtFirebase, store, StoreTyped, AccountInv, Typed
  <2>9. Backed(Known)'
    BY <1>1, <1>3, <2>8, NewAccountTyped DEF Backed, SignupAtFirebase, store
  <2> QED
    BY <1>3, <2>7, <2>8, <2>9, NewAccountTyped, FineStep DEF SignupAtFirebase, store
<1> QED
  BY <1>2, <1>3 DEF SignupAtFirebase

LEMMA MigrateSignsUpInv ==
  ASSUME AccountInv, NEW r \in Requests, MigrateSignsUp(r)
  PROVE  AccountInv'
<1> DEFINE q == req[r]
<1>0. q \in Request
  BY AtRest
<1>1. Carries(q) /\ Vouched(q, Known) /\ Backed(Known) /\ q.todo = {} /\ q.must = {}
      /\ q.kind = "login" /\ q.step = "migrateSignup"
  BY AtRest DEF MigrateSignsUp, At
<1>2. CASE Answer(r) /\ UNCHANGED <<firebase, proven>>
  BY <1>1, <1>2, AnswersAlone DEF MigrateSignsUp, owned
<1>3. ASSUME NEW u \in FirebaseUids, NewAccount(u), proven' = proven \cup {u},
             req' = [req EXCEPT ![r].step = "lookup", ![r].fuid = u, ![r].migrated = TRUE]
      PROVE  AccountInv'
  <2> DEFINE n == [q EXCEPT !.step = "lookup", !.fuid = u, !.migrated = TRUE]
  <2>1. req' = [req EXCEPT ![r] = n]
    BY <1>0, <1>3 DEF AccountInv, Typed, RequestsTyped
  <2> HIDE DEF q
  <2>2. "lookup" \in Steps /\ u \in Uids \cup {NoUid} /\ TRUE \in BOOLEAN
    BY <1>3 DEF Steps, Uids
  <2>3. Keeps(n, q, {"fuid", "migrated"})
    BY <1>0, <2>2, SetsMigrated, Zenon DEF n
  <2>4. n.step = "lookup" /\ n.fuid = u
    BY <1>0 DEF n, Request
  <2> HIDE DEF n
  <2>5. Carries(n)
    BY <1>1, <1>3, <2>3, <2>4 DEF Keeps, Carries, SignIns, WithSession
  <2>8. OwnedTyped' /\ u \in Known' /\ Known \subseteq Known'
    BY <1>3, Grows DEF MigrateSignsUp
  <2>9. Vouched(n, Known')
    BY <1>1, <2>3, <2>4, <2>8 DEF Keeps, Vouched
  <2>6. Fine(r, n)
    BY <1>1, <2>1, <2>3, <2>4, <2>5, <2>9, GoesOn DEF Keeps, q
  <2>7. StoreTyped' /\ Backed(Known)'
    BY <1>1, <1>3, <2>8, NewAccountTyped
    DEF MigrateSignsUp, store, StoreTyped, AccountInv, Typed, Backed
  <2> QED
    BY <1>3, <2>6, <2>7, <2>8, NewAccountTyped, FineStep DEF MigrateSignsUp, store
<1> QED
  BY <1>2, <1>3 DEF MigrateSignsUp

LEMMA VerifyAppliesInv ==
  ASSUME AccountInv, NEW r \in Requests, VerifyApplies(r)
  PROVE  AccountInv'
<1> DEFINE q == req[r]
<1>0. q \in Request
  BY AtRest
<1>1. Carries(q) /\ Vouched(q, Known) /\ Backed(Known) /\ q.todo = {} /\ q.must = {}
      /\ q.kind = "verify" /\ q.step = "lookup"
  BY AtRest DEF VerifyApplies, At
<1>2. CASE Answer(r) /\ UNCHANGED <<verified, mail, proven>>
  BY <1>1, <1>2, AnswersAlone DEF VerifyApplies, firebase, owned
<1>3. CASE /\ "verify" \in mail
           /\ verified' = TRUE /\ mail' = mail \ {"verify"} /\ proven' = proven \cup {fb}
           /\ req' = [req EXCEPT ![r].step = "find", ![r].fuid = fb]
  <2> DEFINE n == [q EXCEPT !.step = "find", !.fuid = fb]
  <2>1. req' = [req EXCEPT ![r] = n]
    BY <1>0, <1>3 DEF AccountInv, Typed, RequestsTyped
  <2> HIDE DEF q
  <2>2. "find" \in Steps /\ fb \in Uids \cup {NoUid} /\ fb \in FirebaseUids
    BY <1>3 DEF Steps, Uids, AccountInv, Typed, FirebaseTyped
  <2>3. Keeps(n, q, {"fuid"})
    BY <1>0, <2>2, SetsFuid, Zenon DEF n
  <2>4. n.step = "find" /\ n.fuid = fb
    BY <1>0 DEF n, Request
  <2> HIDE DEF n
  <2>5. Carries(n)
    BY <1>1, <2>2, <2>3, <2>4 DEF Keeps, Carries, SignIns, WithSession
  <2>8. OwnedTyped' /\ fb \in Known' /\ Known \subseteq Known'
    BY <1>3, <2>2, Grows DEF VerifyApplies
  <2>9. Vouched(n, Known') /\ Backed(Known)'
    BY <1>1, <2>3, <2>4, <2>8 DEF Keeps, Vouched, Backed, VerifyApplies, store
  <2>6. Fine(r, n)
    BY <1>1, <2>1, <2>3, <2>4, <2>5, <2>9, GoesOn DEF Keeps, q
  <2>7. StoreTyped' /\ FirebaseTyped'
    BY <1>3 DEF VerifyApplies, store, StoreTyped, AccountInv, Typed, FirebaseTyped
  <2> QED
    BY <2>6, <2>7, <2>8, <2>9, FineStep DEF VerifyApplies, store
<1> QED
  BY <1>2, <1>3 DEF VerifyApplies

LEMMA ResetConfirmsInv ==
  ASSUME AccountInv, NEW r \in Requests, ResetConfirms(r)
  PROVE  AccountInv'
<1> DEFINE q == req[r]
<1>0. q \in Request
  BY AtRest
<1>1. Carries(q) /\ Vouched(q, Known) /\ q.todo = {} /\ q.must = {}
      /\ q.kind = "reset" /\ q.step = "lookup"
  BY AtRest DEF ResetConfirms, At
<1>2. CASE Answer(r) /\ UNCHANGED <<mail, proven>>
  BY <1>1, <1>2, AnswersAlone DEF ResetConfirms, firebase, owned
<1>3. CASE /\ "reset" \in mail /\ mail' = mail \ {"reset"} /\ proven' = proven \cup {fb}
           /\ Goto(r, "signin")
  <2> DEFINE n == [q EXCEPT !.step = "signin"]
  <2>1. req' = [req EXCEPT ![r] = n]
    BY <1>3 DEF Goto
  <2> HIDE DEF q
  <2>2. "signin" \in Steps
    BY DEF Steps
  <2>3. Keeps(n, q, {})
    BY <1>0, <2>2, SetsStep, Zenon DEF n
  <2>4. n.step = "signin"
    BY <1>0 DEF n, Request
  <2> HIDE DEF n
  <2>5. Carries(n)
    BY <1>1, <2>3, <2>4 DEF Keeps, Carries, SignIns, WithSession
  <2>8. OwnedTyped' /\ Known \subseteq Known' /\ Backed(Known)'
    BY <1>3, Grows DEF ResetConfirms, store, AccountInv, Typed, FirebaseTyped
  <2>9. Vouched(n, Known')
    BY <1>1, <2>3, <2>4, <2>8 DEF Keeps, Vouched
  <2>6. Fine(r, n)
    BY <1>1, <2>1, <2>3, <2>4, <2>5, <2>9, GoesOn DEF Keeps, q
  <2>7. StoreTyped' /\ FirebaseTyped'
    BY <1>3 DEF ResetConfirms, store, StoreTyped, AccountInv, Typed, FirebaseTyped
  <2> QED
    BY <2>6, <2>7, <2>8, FineStep DEF ResetConfirms, store
<1> QED
  BY <1>2, <1>3 DEF ResetConfirms

LEMMA DeletesAtFirebaseInv ==
  ASSUME AccountInv, NEW r \in Requests, DeletesAtFirebase(r)
  PROVE  AccountInv'
<1> DEFINE q == req[r]
<1>0. q \in Request
  BY AtRest
<1>1. Carries(q) /\ Vouched(q, Known) /\ Backed(Known) /\ q.todo = {} /\ q.must = {}
      /\ q.kind = "delete" /\ q.step = "fbDelete"
  BY AtRest DEF DeletesAtFirebase, At
<1>2. CASE Answer(r) /\ UNCHANGED firebase
  BY <1>1, <1>2, AnswersAlone DEF DeletesAtFirebase
<1>3. CASE fb' = NoUid /\ verified' = FALSE /\ mail' = {} /\ used' = used /\ Goto(r, "list")
  <2> DEFINE n == [q EXCEPT !.step = "list"]
  <2>1. req' = [req EXCEPT ![r] = n]
    BY <1>3 DEF Goto
  <2> HIDE DEF q
  <2>2. "list" \in Steps
    BY DEF Steps
  <2>3. Keeps(n, q, {})
    BY <1>0, <2>2, SetsStep, Zenon DEF n
  <2>4. n.step = "list"
    BY <1>0 DEF n, Request
  <2> HIDE DEF n
  <2>5. Carries(n)
    BY <1>1, <2>3, <2>4 DEF Keeps, Carries, SignIns, WithSession
  <2>8. OwnedTyped' /\ Known' = Known
    BY OwnedRests DEF DeletesAtFirebase
  <2>9. Vouched(n, Known') /\ Backed(Known)'
    BY <1>1, <1>3, <2>3, <2>4, <2>8 DEF Keeps, Vouched, Backed, DeletesAtFirebase, store
  <2>6. Fine(r, n)
    BY <1>1, <2>1, <2>3, <2>4, <2>5, <2>9, GoesOn DEF Keeps, q
  <2>7. StoreTyped' /\ FirebaseTyped'
    BY <1>3 DEF DeletesAtFirebase, store, StoreTyped, AccountInv, Typed, FirebaseTyped
  <2> QED
    BY <2>6, <2>7, <2>8, <2>9, FineStep DEF DeletesAtFirebase, store
<1> QED
  BY <1>2, <1>3 DEF DeletesAtFirebase

LEMMA MovesOn ==
  ASSUME AccountInv, NEW r \in Requests, NEW n \in Request, Moved(r, n),
         Carries(n), Vouched(n, Known'),
         req[r].step \notin {"issue", "sweep", "done"}, n.step # "issue", n.todo = {}, n.must = {}
  PROVE  Fine(r, n)
<1>1. Quiet(r, n)
  BY AtRest DEF Quiet
<1> QED
  BY <1>1 DEF Fine

\* The record is put and the request goes on, or answers.
LEMMA PutsFine ==
  ASSUME AccountInv, NEW r \in Requests, NEW n, NEW user \in Record, Fine(r, n), rec' = user,
         OwnedTyped', Known \subseteq Known', user.legacy => user.uid \in Known',
         UNCHANGED <<firebase, session, index, blobs, handle, issued, faults>>
  PROVE  AccountInv'
<1>1. FirebaseTyped' /\ StoreTyped'
  BY DEF AccountInv, Typed, FirebaseTyped, StoreTyped, firebase
<1>2. Backed(Known)'
  BY DEF AccountInv, KnownInv, Backed, firebase
<1> QED
  BY <1>1, <1>2, FineStep DEF firebase

LEMMA FreshRecord ==
  ASSUME NEW u \in Uids
  PROVE  LET user == CreateUserFromFirebase(u)
         IN  user \in Record /\ user.uid = u /\ ~user.legacy /\ ~user.hash
  BY AccountsAssumption DEF CreateUserFromFirebase, Record

LEMMA SignupCreatesInv ==
  ASSUME AccountInv, NEW r \in Requests, SignupCreates(r)
  PROVE  AccountInv'
<1> DEFINE q == req[r]
           user == CreateUserFromFirebase(q.fuid)
           n == [q EXCEPT !.step = "mail"]
<1>0. q \in Request
  BY AtRest
<1>1. Carries(q) /\ q.todo = {} /\ q.must = {} /\ Vouched(q, Known)
      /\ q.kind = "signup" /\ q.step = "create"
  BY AtRest DEF SignupCreates, At
<1>2. PutUser(r, user, n)
  BY DEF SignupCreates
<1>3. "mail" \in Steps /\ q.fuid \in FirebaseUids /\ q.fuid \in Uids
  BY <1>1 DEF Steps, Carries, Uids
<1>4. user \in Record /\ user.uid = q.fuid /\ ~user.legacy /\ ~user.hash
  BY <1>3, FreshRecord
<1> HIDE DEF q, user
<1>5. Keeps(n, q, {})
  BY <1>0, <1>3, SetsStep, Zenon DEF n
<1>6. n.step = "mail"
  BY <1>0 DEF n, Request
<1> HIDE DEF n
<1>7. Carries(n) /\ Vouched(n, Known')
  BY <1>1, <1>3, <1>4, <1>5, <1>6, OwnedRests
  DEF Keeps, Carries, Vouched, SignIns, WithSession, SignupCreates
<1>8. Moved(r, n) /\ rec' = user
  BY <1>2, <1>5, PutsUser DEF Keeps, AccountInv
<1>9. Fine(r, n)
  BY <1>1, <1>5, <1>6, <1>7, <1>8, MovesOn DEF Keeps, q, SignupCreates
<1> QED
  BY <1>4, <1>8, <1>9, OwnedRests, PutsFine DEF SignupCreates

LEMMA CreatesUserInv ==
  ASSUME AccountInv, NEW r \in Requests, CreatesUser(r)
  PROVE  AccountInv'
<1> DEFINE q == req[r]
           user == CreateUserFromFirebase(q.fuid)
           st == IF q.migrated THEN "flag" ELSE "touch"
           n == [q EXCEPT !.user = user, !.step = st]
           m == [q EXCEPT !.step = st, !.user = user]
<1>0. q \in Request
  BY AtRest
<1>1. Carries(q) /\ q.todo = {} /\ q.must = {} /\ Vouched(q, Known)
      /\ q.kind \in SignIns /\ q.step = "create"
  BY AtRest DEF CreatesUser
<1>2. PutUser(r, user, n)
  BY DEF CreatesUser
<1>3. st \in Steps /\ q.fuid \in Uids
  BY <1>1 DEF Steps, Carries, Uids, SignIns
<1>4. user \in Record /\ user.uid = q.fuid /\ ~user.legacy /\ ~user.hash
  BY <1>3, FreshRecord
<1>11. user \in Record \cup {NoRecord, NotRead}
  BY <1>4
<1> HIDE DEF q, user
<1>12. st \in {"flag", "touch"} /\ (st = "flag" => q.migrated)
  OBVIOUS
<1> HIDE DEF st
<1>5. Keeps(m, q, {"user"})
  BY <1>0, <1>3, <1>11, SetsUser, Zenon DEF m
<1>6. m.step = st /\ m.user = user /\ n = m
  BY <1>0 DEF m, n, Request
<1> HIDE DEF n, m
<1>7. Carries(m) /\ Vouched(m, Known')
  BY <1>1, <1>4, <1>5, <1>6, <1>12, OwnedRests
  DEF Keeps, Carries, Vouched, SignIns, WithSession, CreatesUser
<1>8. Moved(r, m) /\ rec' = user
  BY <1>2, <1>5, <1>6, PutsUser DEF Keeps, AccountInv
<1>9. Fine(r, m)
  BY <1>1, <1>5, <1>6, <1>7, <1>8, <1>12, MovesOn DEF Keeps, q, CreatesUser
<1> QED
  BY <1>4, <1>8, <1>9, OwnedRests, PutsFine DEF CreatesUser

LEMMA FlagsUserInv ==
  ASSUME AccountInv, NEW r \in Requests, FlagsUser(r)
  PROVE  AccountInv'
<1> DEFINE q == req[r]
           user == [q.user EXCEPT !.legacy = TRUE]
           n == [q EXCEPT !.user = user, !.step = "touch"]
           m == [q EXCEPT !.step = "touch", !.user = user]
<1>0. q \in Request
  BY AtRest
<1>1. Carries(q) /\ q.todo = {} /\ q.must = {} /\ Vouched(q, Known)
      /\ q.kind = "login" /\ q.step = "flag"
  BY AtRest DEF FlagsUser, At
<1>2. PutUser(r, user, n)
  BY DEF FlagsUser
<1>3. "touch" \in Steps /\ q.user \in Record
  BY <1>1 DEF Steps, Carries, SignIns
<1>4. user \in Record /\ user \in Record \cup {NoRecord, NotRead} /\ user.uid = q.user.uid
  <2> DEFINE x == q.user
  <2> HIDE DEF x
  <2>1. [x EXCEPT !.legacy = TRUE] \in Record /\ [x EXCEPT !.legacy = TRUE].uid = x.uid
    BY <1>3 DEF Record, x
  <2> QED
    BY <2>1 DEF x
<1> HIDE DEF q, user
<1>5. Keeps(m, q, {"user"})
  BY <1>0, <1>3, <1>4, SetsUser, Zenon DEF m
<1>6. m.step = "touch" /\ m.user = user /\ n = m
  BY <1>0 DEF m, n, Request
<1> HIDE DEF n, m
<1>10. q.fuid \in Known /\ user.uid = q.fuid /\ Known' = Known
  BY <1>1, <1>4, OwnedRests DEF Vouched, FlagsUser
<1>7. Carries(m) /\ Vouched(m, Known')
  BY <1>1, <1>4, <1>5, <1>6, <1>10 DEF Keeps, Carries, Vouched, SignIns, WithSession
<1>8. Moved(r, m) /\ rec' = user
  BY <1>2, <1>5, <1>6, PutsUser DEF Keeps, AccountInv
<1>9. Fine(r, m)
  BY <1>1, <1>5, <1>6, <1>7, <1>8, MovesOn DEF Keeps, q, FlagsUser
<1> QED
  BY <1>4, <1>8, <1>9, <1>10, OwnedRests, PutsFine DEF FlagsUser

LEMMA AlignsUserInv ==
  ASSUME AccountInv, NEW r \in Requests, AlignsUser(r)
  PROVE  AccountInv'
<1> DEFINE q == req[r]
           user == Aligned(r)
           n == [q EXCEPT !.user = user, !.step = "touch"]
           m == [q EXCEPT !.step = "touch", !.user = user]
<1>0. q \in Request
  BY AtRest
<1>1. Carries(q) /\ q.todo = {} /\ q.must = {} /\ Vouched(q, Known)
      /\ Aligns(q.kind) /\ q.kind \in SignIns /\ q.step = "align"
  BY AtRest DEF AlignsUser, Carries
<1>2. PutUser(r, user, n)
  BY DEF AlignsUser
<1>3. "touch" \in Steps /\ q.user \in Record /\ q.fuid \in Uids /\ q.fuid \in FirebaseUids
  BY <1>1 DEF Steps, Carries, SignIns, Uids, Aligns
<1>4. user \in Record /\ user \in Record \cup {NoRecord, NotRead} /\ user.uid = q.fuid
  <2> DEFINE x == q.user
             f == q.fuid
             l == x.legacy \/ q.kind # "postVerify"
  <2>1. l \in BOOLEAN
    BY <1>3 DEF Record
  <2>2. user = [x EXCEPT !.uid = f, !.hash = FALSE, !.legacy = l]
    BY DEF Aligned
  <2> HIDE DEF x, f, l
  <2>3. [x EXCEPT !.uid = f, !.hash = FALSE, !.legacy = l] \in Record
        /\ [x EXCEPT !.uid = f, !.hash = FALSE, !.legacy = l].uid = f
    BY <1>3, <2>1 DEF Record, x, f
  <2> QED
    BY <2>2, <2>3 DEF f
<1> HIDE DEF q, user
<1>5. Keeps(m, q, {"user"})
  BY <1>0, <1>3, <1>4, SetsUser, Zenon DEF m
<1>6. m.step = "touch" /\ m.user = user /\ n = m
  BY <1>0 DEF m, n, Request
<1> HIDE DEF n, m
<1>10. OwnedTyped' /\ q.fuid \in Known' /\ Known \subseteq Known'
  BY <1>3, Grows DEF AlignsUser, q
<1>7. Carries(m) /\ Vouched(m, Known')
  BY <1>1, <1>4, <1>5, <1>6, <1>10 DEF Keeps, Carries, Vouched, SignIns, WithSession
<1>8. Moved(r, m) /\ rec' = user
  BY <1>2, <1>5, <1>6, PutsUser DEF Keeps, AccountInv
<1>9. Fine(r, m)
  BY <1>1, <1>5, <1>6, <1>7, <1>8, MovesOn DEF Keeps, q, AlignsUser
<1> QED
  BY <1>4, <1>8, <1>9, <1>10, PutsFine DEF AlignsUser

LEMMA AdminWritesInv ==
  ASSUME AccountInv, NEW r \in Requests, AdminWrites(r)
  PROVE  AccountInv'
<1> DEFINE q == req[r]
           x == q.user
<1>1. Carries(q) /\ q.todo = {} /\ Vouched(q, Known)
      /\ q.kind = "adminAccess" /\ q.step = "access"
  BY AtRest DEF AdminWrites, At
<1>2. x \in Record /\ (x.legacy => x.uid \in Known)
  BY <1>1 DEF Carries, Vouched
<1>3. PICK user \in {ExtendTrial(x), ResetTrial(x), GrantSubscription(x), CancelSubscription(x)} :
             PutUser(r, user, Answered(r))
  BY DEF AdminWrites
<1>4. user \in Record /\ user.uid = x.uid /\ user.legacy = x.legacy /\ user.hash = x.hash
  <2> HIDE DEF x
  <2>1. CASE user = ExtendTrial(x)
    BY <1>2, <2>1, AccountsAssumption DEF ExtendTrial, Record
  <2>2. CASE user = ResetTrial(x)
    BY <1>2, <2>2, AccountsAssumption DEF ResetTrial, Record
  <2>3. CASE user = GrantSubscription(x)
    <3> DEFINE v == (IF x.sub > Today THEN x.sub ELSE Today) + GrantDays
    <3>1. user = [x EXCEPT !.sub = v]
      BY <2>3 DEF GrantSubscription
    <3>2. v \in Nat
      BY <1>2, AccountsAssumption DEF Record
    <3> HIDE DEF v
    <3> QED
      BY <1>2, <3>1, <3>2 DEF Record
  <2>4. CASE user = CancelSubscription(x)
    BY <1>2, <2>4 DEF CancelSubscription, Record
  <2> QED
    BY <1>3, <2>1, <2>2, <2>3, <2>4
<1>5. Moved(r, Answered(r)) /\ rec' = user
  BY <1>3, AnsweredFields, PutsUser DEF AccountInv
<1>6. Fine(r, Answered(r))
  BY <1>1, <1>5, AnsweredFine
<1> QED
  BY <1>2, <1>4, <1>5, <1>6, OwnedRests, PutsFine DEF AdminWrites

LEMMA SignupMailsInv ==
  ASSUME AccountInv, NEW r \in Requests, SignupMails(r)
  PROVE  AccountInv'
<1>1. Carries(req[r]) /\ req[r].todo = {} /\ req[r].kind = "signup" /\ req[r].step = "mail"
  BY AtRest DEF SignupMails, At
<1>2. Fine(r, Answered(r))
  BY <1>1, Answers DEF SignupMails
<1>3. req[r].fuid \in FirebaseUids
  BY <1>1 DEF Carries
<1>4. FirebaseTyped' /\ StoreTyped'
  BY <1>3, AccountsAssumption
  DEF SignupMails, AccountInv, Typed, FirebaseTyped, StoreTyped, OtherTyped
<1> QED
  BY <1>2, <1>4, OwnedRests, FineStep DEF SignupMails, firebase

LEMMA LoginRefusedInv ==
  ASSUME AccountInv, NEW r \in Requests, LoginRefused(r)
  PROVE  AccountInv'
<1>1. Carries(req[r]) /\ req[r].todo = {} /\ req[r].kind = "login" /\ req[r].step = "touch"
  BY AtRest DEF LoginRefused, Refused
<1>2. Fine(r, Answered(r))
  BY <1>1, Answers DEF LoginRefused
<1>3. req[r].fuid \in FirebaseUids
  BY <1>1 DEF Carries, SignIns
<1>4. FirebaseTyped' /\ StoreTyped'
  BY <1>3 DEF LoginRefused, firebase, AccountInv, Typed, FirebaseTyped, StoreTyped, OtherTyped
<1> QED
  BY <1>2, <1>4, OwnedRests, FineStep DEF LoginRefused, firebase

LEMMA PutsSettingsInv ==
  ASSUME AccountInv, NEW r \in Requests, PutsSettings(r)
  PROVE  AccountInv'
<1>1. Carries(req[r]) /\ req[r].todo = {} /\ req[r].kind = "put" /\ req[r].step = "write"
  BY AtRest DEF PutsSettings, At
<1>2. Fine(r, Answered(r))
  BY <1>1, Answers DEF PutsSettings
<1>3. req[r].uid \in Uids
  BY <1>1 DEF Carries
<1>4. FirebaseTyped' /\ StoreTyped'
  BY <1>3 DEF PutsSettings, firebase, AccountInv, Typed, FirebaseTyped, StoreTyped, OtherTyped
<1> QED
  BY <1>2, <1>4, OwnedRests, FineStep DEF PutsSettings, firebase

----------------------------------------------------------------------------
(* Steps that leave every request as it is.                                *)
LEMMA SessionsUnchanged ==
  ASSUME SessionsInv, UNCHANGED <<req, session, index, issued, faults>>
  PROVE  SessionsInv'
<1>1. \A o : Todo(o)' <=> Todo(o)
  BY DEF Todo
<1>2. \A s : (Landed(s)' <=> Landed(s)) /\ (BeingDeleted(s)' <=> BeingDeleted(s))
  BY DEF Landed, BeingDeleted
<1>3. Writing' /\ PutOnce'
  BY <1>2 DEF SessionsInv, Writing, PutOnce, Live
<1>4. (Listed' <=> Listed) /\ (ToDestroy' <=> ToDestroy)
  BY <1>1, <1>2 DEF Listed, ToDestroy, ToList, Live
<1> QED
  BY <1>3, <1>4 DEF SessionsInv

LEMMA RequestsRest ==
  ASSUME AccountInv, UNCHANGED <<store, req, issued, faults>>, FirebaseTyped', OwnedTyped',
         Known \subseteq Known', Backed(Known)'
  PROVE  AccountInv'
<1>1. Typed'
  BY DEF AccountInv, Typed, StoreTyped, OtherTyped, RequestsTyped, Carries, store
<1>2. SessionsInv'
  BY SessionsUnchanged DEF AccountInv, store
<1>3. KnownInv'
  <2> SUFFICES ASSUME NEW r \in Requests PROVE Vouched(req[r], Known')
    BY DEF KnownInv
  <2> QED
    BY AtRest DEF Vouched
<1> QED
  BY <1>1, <1>2, <1>3 DEF AccountInv

LEMMA SendsLinkInv ==
  ASSUME AccountInv, NEW link \in {"verify", "reset"}, SendsLink(link)
  PROVE  AccountInv'
<1>1. FirebaseTyped'
  BY DEF SendsLink, AccountInv, Typed, FirebaseTyped
<1> QED
  BY <1>1, OwnedRests, RequestsRest DEF SendsLink, store

LEMMA VerifiesInv ==
  ASSUME AccountInv, VerifiesAtFirebase
  PROVE  AccountInv'
<1>1. FirebaseTyped'
  BY DEF VerifiesAtFirebase, AccountInv, Typed, FirebaseTyped
<1>2. OwnedTyped' /\ fb \in Known' /\ Known \subseteq Known'
  BY Grows DEF VerifiesAtFirebase, AccountInv, Typed, FirebaseTyped
<1>3. Backed(Known)'
  BY <1>2 DEF VerifiesAtFirebase, store, AccountInv, KnownInv, Backed
<1> QED
  BY <1>1, <1>2, <1>3, RequestsRest DEF VerifiesAtFirebase

LEMMA StutterInv ==
  ASSUME AccountInv, UNCHANGED vars
  PROVE  AccountInv'
<1>1. FirebaseTyped' /\ UNCHANGED owned
  BY DEF vars, owned, AccountInv, Typed, FirebaseTyped
<1> QED
  BY <1>1, OwnedRests, RequestsRest DEF vars, store

----------------------------------------------------------------------------
(* A session is issued.                                                    *)
LEMMA TouchFields ==
  ASSUME AccountInv, NEW r \in Requests, TouchLastLogin(r)
  PROVE  /\ req[r].kind # "google" => req[r].fuid \in Known
         /\ req[r].user \in Record /\ req[r].user.uid \in Uids
         /\ req[r].step = "touch" /\ req[r].kind \in SignIns /\ req[r].must = {} /\ req[r].todo = {}
         /\ req[r].kind = "postVerify" => req[r].on \in Requests
<1> DEFINE q == req[r]
<1>1. q \in Request /\ Carries(q) /\ Vouched(q, Known) /\ q.todo = {} /\ q.must = {}
      /\ q.kind \in SignIns /\ q.step = "touch"
  BY AtRest DEF TouchLastLogin
<1>2. ~Refused(r)
  BY DEF TouchLastLogin
<1> HIDE DEF q
<1>3. q.user \in Record /\ (q.kind = "postVerify" => q.on \in Requests)
  BY <1>1 DEF Carries
<1>4. q.kind # "google" => q.fuid \in Known
  BY <1>1, <1>2, <1>3 DEF Vouched, SignIns, Refused, q
<1> QED
  BY <1>1, <1>3, <1>4 DEF q, Record

LEMMA TouchLastLoginInv ==
  ASSUME AccountInv, NEW r \in Requests, TouchLastLogin(r)
  PROVE  AccountInv'
<1> DEFINE q == req[r]
           u == q.user.uid
           d == SessionPuts(r, u)
           n == [Blank EXCEPT !.kind = q.kind, !.step = "issue", !.on = q.on,
                          !.fuid = q.fuid, !.todo = d]
<1>1. q \in Request /\ Vouched(q, Known) /\ q.user \in Record /\ u \in Uids /\ q.step = "touch"
      /\ q.kind \in SignIns /\ q.must = {} /\ q.todo = {}
      /\ (q.kind = "postVerify" => q.on \in Requests)
      /\ (q.kind # "google" => q.fuid \in Known)
  BY TouchFields, AtRest
<1>2. PutUser(r, q.user, n) \/ (req' = [req EXCEPT ![r] = n] /\ UNCHANGED rec)
  BY DEF TouchLastLogin
<1>3. d \in SUBSET Op /\ \A o \in d : o.op \in {"putSession", "putIndex"} /\ o.sid = r
  BY <1>1 DEF SessionPuts, Op, Sids
<1>4. /\ \A v : [op |-> "putSession", sid |-> r, uid |-> v] \in d
                  => [op |-> "putIndex", sid |-> r, uid |-> v] \in d
      /\ d = SessionPuts(r, u)
  BY <1>1 DEF SessionPuts
<1> HIDE DEF q, u, d
<1>5. n \in Request
  <2>1. q.kind \in Kinds \cup {"none"} /\ q.on \in Sids \cup {NoSid}
        /\ q.fuid \in Uids \cup {NoUid} /\ Blank \in Request
    BY <1>1, BlankFields DEF Request
  <2> DEFINE b == [Blank EXCEPT !.kind = q.kind, !.step = "issue"]
  <2>2. b \in Request
    BY <2>1 DEF Request
  <2> HIDE DEF b
  <2>3. [b EXCEPT !.on = q.on, !.fuid = q.fuid, !.todo = d] \in Request
    BY <1>3, <2>1, <2>2 DEF Request
  <2> QED
    BY <2>3 DEF b
<1>6. n.kind = q.kind /\ n.step = "issue" /\ n.on = q.on /\ n.todo = d /\ n.must = {}
      /\ n.fuid = q.fuid /\ n.user = NotRead /\ ~n.verified /\ ~n.migrated
  BY BlankFields DEF Request
<1> HIDE DEF n
<1>7. Carries(n)
  BY <1>1, <1>6 DEF Carries, SignIns, WithSession
<1>8. Moved(r, n) /\ rec' \in Record \cup {NoRecord} /\ rec' \in {rec, q.user}
  <2>1. CASE PutUser(r, q.user, n)
    BY <1>1, <1>5, <2>1, PutsUser DEF AccountInv
  <2>2. CASE req' = [req EXCEPT ![r] = n] /\ UNCHANGED rec
    BY <1>5, <2>2, Goes DEF AccountInv, Typed, StoreTyped
  <2> QED
    BY <1>2, <2>1, <2>2
<1>9. Typed' /\ KnownInv'
  <2>1. RequestsTyped' /\ rec' \in Record \cup {NoRecord}
    BY <1>5, <1>7, <1>8, RequestsStayTyped DEF AccountInv, Typed
  <2>2. FirebaseTyped' /\ StoreTyped'
    BY <2>1 DEF TouchLastLogin, firebase, AccountInv, Typed, FirebaseTyped, StoreTyped
  <2>3. OtherTyped'
    <3>1. faults' \in 0 .. MaxFaults
      BY AccountsAssumption DEF TouchLastLogin, AccountInv, Typed, OtherTyped
    <3> QED
      BY <3>1, OwnedRests DEF TouchLastLogin, AccountInv, Typed, OtherTyped
  <2>4. KnownInv'
    <3>1. Known' = Known /\ Backed(Known) /\ KnownInv
      BY AtRest, OwnedRests DEF TouchLastLogin, AccountInv
    <3>2. Vouched(n, Known')
      BY <1>1, <1>6, <3>1, RecordAssumption DEF Vouched
    <3>3. Backed(Known)'
      BY <1>1, <1>8, <3>1 DEF Vouched, Backed, TouchLastLogin, firebase
    <3> QED
      BY <1>5, <1>8, <3>1, <3>2, <3>3, StaysVouched
  <2> QED
    BY <2>1, <2>2, <2>3, <2>4 DEF Typed
<1>10. r \notin issued /\ ~Landed(r)
  BY <1>1 DEF AccountInv, SessionsInv, PutOnce, Landed, q
<1>11. ASSUME NEW s, s # r PROVE Landed(s)' <=> Landed(s)
  BY <1>8, <1>11 DEF Landed, Moved
<1>12. \A o : Todo(o)' <=> Todo(o) \/ o \in d
  BY <1>1, <1>6, <1>8 DEF Todo, Moved, q
<1>13. UNCHANGED <<session, index, issued>> /\ (faults' = 0 => faults = 0)
  BY DEF TouchLastLogin, AccountInv, Typed, OtherTyped
<1>14. Writing'
  <2> SUFFICES ASSUME NEW x \in Requests
               PROVE  /\ req'[x].todo # {} => req'[x].step \in {"issue", "sweep"}
                      /\ req'[x].step = "issue" =>
                           \E v \in Uids : req'[x].todo \subseteq SessionPuts(x, v)
                      /\ req'[x].step = "sweep" =>
                           \A o \in req'[x].todo : o.op \notin {"putSession", "putIndex"}
                      /\ req'[x].step \notin {"sweep", "done"} => req'[x].must = {}
                      /\ req'[x].must \subseteq issued
    BY <1>13 DEF Writing
  <2>1. CASE x = r
    BY <1>1, <1>4, <1>6, <1>8, <2>1 DEF Moved
  <2>2. CASE x # r
    BY <1>8, <2>2 DEF Moved, AccountInv, SessionsInv, Writing
  <2> QED
    BY <2>1, <2>2
<1>15. PutOnce'
  <2>1. \A s \in Live' : Landed(s)'
    BY <1>10, <1>11, <1>13 DEF AccountInv, SessionsInv, PutOnce, Live
  <2>2. ASSUME NEW x \in Requests, NEW o \in req'[x].todo, o.op = "delIndex" PROVE Landed(o.sid)'
    <3>1. x # r
      BY <1>3, <1>6, <1>8, <2>2 DEF Moved
    <3>2. o \in req[x].todo
      BY <1>8, <2>2, <3>1 DEF Moved
    <3> QED
      BY <2>2, <3>2, <1>10, <1>11 DEF AccountInv, SessionsInv, PutOnce
  <2>3. \A s \in issued' \cap Requests : req'[s].step = "done"
    BY <1>8, <1>10, <1>13 DEF Moved, AccountInv, SessionsInv, PutOnce
  <2> QED
    BY <2>1, <2>2, <2>3 DEF PutOnce
<1>16. ASSUME faults' = 0 PROVE Listed' /\ ToDestroy'
  <2>0. Listed /\ ToDestroy
    BY <1>13, <1>16 DEF AccountInv, SessionsInv
  <2>1. \A s : BeingDeleted(s) => BeingDeleted(s)'
    <3> SUFFICES ASSUME NEW s, BeingDeleted(s) PROVE BeingDeleted(s)'
      OBVIOUS
    <3> DEFINE o == [op |-> "delSession", sid |-> s, uid |-> NoUid]
    <3>1. (BeingDeleted(s) <=> Todo(o)) /\ (BeingDeleted(s)' <=> Todo(o)')
      BY DEF BeingDeleted, Todo
    <3> HIDE DEF o
    <3> QED
      BY <1>12, <3>1
  <2>2. \A s, v : ToList(s, v) => ToList(s, v)'
    BY <1>12, <1>13 DEF ToList
  <2>3. ASSUME NEW s \in Sids, NEW v \in Uids, Todo([op |-> "putSession", sid |-> s, uid |-> v])'
        PROVE  ToList(s, v)'
    <3> DEFINE o == [op |-> "putSession", sid |-> s, uid |-> v]
               p == [op |-> "putIndex", sid |-> s, uid |-> v]
    <3>1. CASE Todo(o)
      BY <2>0, <2>2, <3>1 DEF Listed
    <3>2. CASE o \in d
      <4>1. s = r
        BY <1>3, <3>2
      <4>2. p \in d
        BY <1>4, <3>2, <4>1
      <4> HIDE DEF p
      <4>3. Todo(p)'
        BY <1>12, <4>2
      <4> QED
        BY <4>3 DEF ToList, p
    <3> HIDE DEF o
    <3>3. Todo(o)'
      BY <2>3 DEF o
    <3> QED
      BY <1>12, <3>1, <3>2, <3>3
  <2>4. ASSUME NEW s \in Sids, NEW v \in Uids, Todo([op |-> "delIndex", sid |-> s, uid |-> v])'
        PROVE  Todo([op |-> "delIndex", sid |-> s, uid |-> v])
    <3> DEFINE o == [op |-> "delIndex", sid |-> s, uid |-> v]
    <3>1. o.op = "delIndex" /\ Todo(o)'
      BY <2>4
    <3> HIDE DEF o
    <3>2. Todo(o)
      BY <1>3, <1>12, <3>1
    <3> QED
      BY <3>2 DEF o
  <2>5. Live' = Live /\ Live \subseteq Sids
    BY <1>13 DEF Live
  <2>6. Listed'
    <3>1. ASSUME NEW s \in Live PROVE (ToList(s, session[s]) \/ BeingDeleted(s))'
      <4>1. PICK v : v = session[s]
        OBVIOUS
      <4>2. ToList(s, v)' \/ BeingDeleted(s)'
        BY <2>0, <2>1, <2>2, <4>1 DEF Listed
      <4>3. session'[s] = v
        BY <1>13, <4>1
      <4> QED
        BY <4>2, <4>3 DEF ToList
    <3>2. \A s \in Live', v \in Uids :
             Todo([op |-> "delIndex", sid |-> s, uid |-> v])' => BeingDeleted(s)'
      BY <2>0, <2>1, <2>4, <2>5 DEF Listed
    <3> QED
      BY <2>3, <2>5, <3>1, <3>2 DEF Listed
  <2>7. ToDestroy'
    <3> SUFFICES ASSUME NEW x \in Requests, NEW s \in req'[x].must
                 PROVE  session[s] = NoUid \/ BeingDeleted(s)' \/ ReadOf(s) \in req'[x].todo
      BY <1>13 DEF ToDestroy
    <3>1. x # r
      BY <1>6, <1>8 DEF Moved
    <3> QED
      BY <1>8, <2>0, <2>1, <3>1 DEF Moved, ToDestroy
  <2> QED
    BY <2>6, <2>7
<1> QED
  BY <1>9, <1>14, <1>15, <1>16 DEF AccountInv, SessionsInv

LEMMA WritingStep ==
  ASSUME Writing, NEW r \in Requests, NEW n, Moved(r, n), issued \subseteq issued',
         n.todo # {} => n.step \in {"issue", "sweep"},
         n.step = "issue" => \E u \in Uids : n.todo \subseteq SessionPuts(r, u),
         n.step = "sweep" => \A o \in n.todo : o.op \notin {"putSession", "putIndex"},
         n.step \notin {"sweep", "done"} => n.must = {},
         n.must \subseteq issued
  PROVE  Writing'
<1> SUFFICES ASSUME NEW x \in Requests
             PROVE  /\ req'[x].todo # {} => req'[x].step \in {"issue", "sweep"}
                    /\ req'[x].step = "issue" =>
                         \E v \in Uids : req'[x].todo \subseteq SessionPuts(x, v)
                    /\ req'[x].step = "sweep" =>
                         \A o \in req'[x].todo : o.op \notin {"putSession", "putIndex"}
                    /\ req'[x].step \notin {"sweep", "done"} => req'[x].must = {}
                    /\ req'[x].must \subseteq issued'
  BY DEF Writing
<1>1. CASE x = r
  BY <1>1 DEF Moved
<1>2. CASE x # r
  BY <1>2 DEF Moved, Writing
<1> QED
  BY <1>1, <1>2

LEMMA BeingDeletedIsTodo ==
  ASSUME NEW s
  PROVE  /\ BeingDeleted(s) <=> Todo([op |-> "delSession", sid |-> s, uid |-> NoUid])
         /\ BeingDeleted(s)' <=> Todo([op |-> "delSession", sid |-> s, uid |-> NoUid])'
  BY DEF BeingDeleted, Todo

\* A request that ends where no writes are under way but those that destroy.
LEMMA SessionIssuedInv ==
  ASSUME AccountInv, NEW r \in Requests, SessionIssued(r)
  PROVE  AccountInv'
<1> DEFINE n == Answered(r)
<1>1. req[r].step = "issue" /\ req[r].todo = {} /\ req[r].must = {}
  BY AtRest DEF SessionIssued
<1>2. n \in Request /\ n.kind = "none" /\ n.step = "done" /\ n.todo = {} /\ n.user = NotRead
      /\ n.must = {} /\ ~n.verified /\ ~n.migrated
  BY <1>1, AnsweredFields
<1>3. Moved(r, n)
  BY <1>2, Goes DEF SessionIssued, Answer, AccountInv
<1> HIDE DEF n
<1>4. Carries(n)
  BY <1>2 DEF Carries, SignIns
<1>5. Typed'
  <2>1. handle' \in [Requests -> FirebaseUids \cup {NoUid}]
    <3>1. handle \in [Requests -> FirebaseUids \cup {NoUid}]
      BY DEF AccountInv, Typed, StoreTyped
    <3>2. handle' = handle \/ \E t : handle' = [handle EXCEPT ![t] = NoUid]
      BY DEF SessionIssued
    <3> QED
      BY <3>1, <3>2
  <2>2. RequestsTyped'
    BY <1>2, <1>3, <1>4, RequestsStayTyped DEF AccountInv, Typed
  <2>3. StoreTyped' /\ FirebaseTyped' /\ OtherTyped'
    BY <2>1, OwnedRests DEF SessionIssued, firebase, AccountInv, Typed, StoreTyped, FirebaseTyped,
                OtherTyped, Sids
  <2> QED
    BY <2>2, <2>3 DEF Typed
<1>6. KnownInv'
  <2>1. Vouched(n, Known')
    BY <1>2, RecordAssumption DEF Vouched
  <2> QED
    BY <1>2, <1>3, <2>1, OwnedRests, StaysVouched DEF SessionIssued, firebase, AccountInv
<1>7. UNCHANGED <<session, index, faults>> /\ issued' = issued \cup {r}
  BY DEF SessionIssued
<1>8. \A o : Todo(o)' <=> Todo(o)
  BY <1>1, <1>2, <1>3 DEF Todo, Moved
<1>9. \A s : Landed(s) => Landed(s)'
  BY <1>2, <1>3 DEF Landed, Moved
<1>10. Writing'
  BY <1>2, <1>3, <1>7, WritingStep DEF AccountInv, SessionsInv
<1>11. PutOnce'
  <2>1. \A s \in Live' : Landed(s)'
    BY <1>7, <1>9 DEF AccountInv, SessionsInv, PutOnce, Live
  <2>2. \A x \in Requests : \A o \in req'[x].todo : o.op = "delIndex" => Landed(o.sid)'
    BY <1>2, <1>3, <1>9 DEF AccountInv, SessionsInv, PutOnce, Moved
  <2>3. \A s \in issued' \cap Requests : req'[s].step = "done"
    BY <1>2, <1>3, <1>7 DEF Moved, AccountInv, SessionsInv, PutOnce
  <2> QED
    BY <2>1, <2>2, <2>3 DEF PutOnce
<1>12. \A s : BeingDeleted(s)' <=> BeingDeleted(s)
  BY <1>1, <1>2, <1>3 DEF BeingDeleted, Moved
<1>13. ASSUME faults' = 0 PROVE Listed' /\ ToDestroy'
  <2>1. Listed' <=> Listed
    BY <1>7, <1>8, <1>12 DEF Listed, ToList, Live
  <2>2. ToDestroy'
    BY <1>2, <1>3, <1>7, <1>12, <1>13 DEF AccountInv, SessionsInv, ToDestroy, Moved
  <2> QED
    BY <1>7, <1>13, <2>1, <2>2 DEF AccountInv, SessionsInv
<1> QED
  BY <1>5, <1>6, <1>10, <1>11, <1>13 DEF AccountInv, SessionsInv

\* Once something has failed only the order of the writes is kept.
LEMMA DiesInv ==
  ASSUME AccountInv, NEW r \in Requests, Dies(r)
  PROVE  AccountInv'
<1> DEFINE n == [Blank EXCEPT !.step = "done"]
<1>1. n \in Request /\ n.kind = "none" /\ n.step = "done" /\ n.todo = {} /\ n.user = NotRead
      /\ n.must = {} /\ ~n.verified /\ ~n.migrated
  BY BlankFields DEF Request
<1>2. req' = [req EXCEPT ![r] = n]
  BY DEF Dies
<1> HIDE DEF n
<1>3. Moved(r, n)
  BY <1>1, <1>2, Goes DEF AccountInv
<1>4. faults' # 0 /\ faults' \in 0 .. MaxFaults
  BY AccountsAssumption DEF Dies, AccountInv, Typed, OtherTyped
<1>5. Carries(n) /\ Vouched(n, Known')
  BY <1>1, RecordAssumption DEF Carries, Vouched, SignIns, WithSession
<1>6. Typed'
  <2>1. RequestsTyped'
    BY <1>1, <1>3, <1>5, RequestsStayTyped DEF AccountInv, Typed
  <2>2. StoreTyped' /\ FirebaseTyped' /\ OtherTyped'
    BY <1>4, OwnedRests
    DEF Dies, firebase, store, AccountInv, Typed, StoreTyped, FirebaseTyped, OtherTyped
  <2> QED
    BY <2>1, <2>2 DEF Typed
<1>7. KnownInv'
  BY <1>1, <1>3, <1>5, OwnedRests, StaysVouched DEF Dies, firebase, store, AccountInv
<1>8. Writing'
  BY <1>1, <1>3, WritingStep DEF AccountInv, SessionsInv, Dies
<1>9. \A s : Landed(s) => Landed(s)'
  BY <1>1, <1>3 DEF Landed, Moved
<1>10. PutOnce'
  BY <1>1, <1>3, <1>9 DEF PutOnce, Live, Moved, Dies, store, AccountInv, SessionsInv
<1> QED
  BY <1>4, <1>6, <1>7, <1>8, <1>10 DEF AccountInv, SessionsInv

----------------------------------------------------------------------------
(* Writes that are under way.                                              *)
Lessened(r, n, d) ==
    /\ n \in Request /\ Carries(n) /\ n.todo = d /\ n.step = req[r].step /\ n.must = req[r].must
    /\ Vouched(n, Known)

LEMMA Lessens ==
  ASSUME AccountInv, NEW r \in Requests, NEW d \in SUBSET Op
  PROVE  Lessened(r, [req[r] EXCEPT !.todo = d], d)
<1> DEFINE q == req[r]
           n == [q EXCEPT !.todo = d]
<1>1. q \in Request /\ Carries(q) /\ Vouched(q, Known)
  BY AtRest
<1> HIDE DEF q
<1>2. n \in Request /\ n.todo = d
  BY <1>1 DEF Request
<1>3. n.kind = q.kind /\ n.step = q.step /\ n.sid = q.sid /\ n.must = q.must
  BY <1>1 DEF Request
<1>4. n.on = q.on /\ n.uid = q.uid /\ n.fuid = q.fuid
  BY <1>1 DEF Request
<1>5. n.verified = q.verified /\ n.migrated = q.migrated /\ n.user = q.user
  BY <1>1 DEF Request
<1> HIDE DEF n
<1>6. Carries(n)
  BY <1>1, <1>3, <1>4, <1>5 DEF Carries
<1>7. Vouched(n, Known)
  BY <1>1, <1>3, <1>4, <1>5 DEF Vouched
<1>8. Lessened(r, n, d)
  BY <1>2, <1>3, <1>6, <1>7 DEF Lessened, q
<1> QED
  BY <1>8 DEF n, q

\* What is under way is well formed; it is a session that is issued or it
\* destroys.
LEMMA UnderWay ==
  ASSUME AccountInv, NEW r \in Requests, NEW o \in req[r].todo
  PROVE  /\ o \in Op /\ req[r].todo \in SUBSET Op /\ req[r].step \in {"issue", "sweep"}
         /\ req[r].step = "issue" <=> o.op \in {"putSession", "putIndex"}
         /\ o.op \in {"putSession", "putIndex"} =>
              /\ o.sid = r /\ o.uid \in Uids /\ r \notin issued
              /\ \A p \in req[r].todo : p.op \in {"putSession", "putIndex"} /\ p.sid = r
                   /\ p.uid = o.uid
         /\ o.op \in {"read", "delSession", "delIndex"} => o.sid \in Sids
<1>1. o \in Op /\ req[r].todo \in SUBSET Op /\ req[r].step \in {"issue", "sweep"}
  BY AtRest DEF Request, AccountInv, SessionsInv, Writing
<1>2. CASE req[r].step = "sweep"
  BY <1>1, <1>2 DEF AccountInv, SessionsInv, Writing, Op
<1>3. CASE req[r].step = "issue"
  <2>1. PICK u \in Uids : req[r].todo \subseteq SessionPuts(r, u)
    BY <1>3 DEF AccountInv, SessionsInv, Writing
  <2>3. r \notin issued
    BY <1>3 DEF AccountInv, SessionsInv, PutOnce
  <2> QED
    BY <1>1, <1>3, <2>1, <2>3 DEF SessionPuts
<1> QED
  BY <1>1, <1>2, <1>3

\* What any write that lands, or fails, does not disturb.
LEMMA WriteLeaves ==
  ASSUME AccountInv, NEW r \in Requests, NEW o \in req[r].todo, NEW n, Moved(r, n),
         Lessened(r, n, req[r].todo \ {o}),
         UNCHANGED <<firebase, handle, issued, owned>>, faults' \in 0 .. MaxFaults,
         rec' \in {rec, NoRecord}, session' \in [Sids -> Uids \cup {NoUid}],
         index' \subseteq Uids \X Sids, blobs' \subseteq Uids
  PROVE  /\ Typed' /\ KnownInv' /\ Writing'
         /\ \A p : p # o => (Todo(p)' <=> Todo(p))
         /\ \A p : Todo(p)' => Todo(p)
         /\ \A s : Landed(s) => Landed(s)'
         /\ \A x \in Requests : \A p \in req'[x].todo : p.op = "delIndex" => Landed(p.sid)'
         /\ \A s \in issued' \cap Requests : req'[s].step = "done"
         /\ \A x \in Requests : req'[x].must = req[x].must
<1>1. n \in Request /\ Carries(n) /\ Vouched(n, Known)
      /\ n.todo = req[r].todo \ {o} /\ n.step = req[r].step /\ n.must = req[r].must
  BY DEF Lessened
<1>2. Typed'
  <2>1. RequestsTyped'
    BY <1>1, RequestsStayTyped DEF AccountInv, Typed
  <2>2. StoreTyped' /\ FirebaseTyped' /\ OtherTyped'
    BY OwnedRests DEF firebase, AccountInv, Typed, StoreTyped, FirebaseTyped, OtherTyped
  <2> QED
    BY <2>1, <2>2 DEF Typed
<1>3. KnownInv'
  <2>1. Known' = Known /\ Backed(Known)
    BY AtRest, OwnedRests
  <2>2. Backed(Known)'
    BY <2>1, RecordAssumption DEF Backed, firebase
  <2> QED
    BY <1>1, <2>1, <2>2, StaysVouched DEF AccountInv
<1>4. Writing'
  <2>1. Writing
    BY DEF AccountInv, SessionsInv
  <2>2. /\ n.todo # {} => n.step \in {"issue", "sweep"}
        /\ n.step = "issue" => \E u \in Uids : n.todo \subseteq SessionPuts(r, u)
        /\ n.step = "sweep" => \A p \in n.todo : p.op \notin {"putSession", "putIndex"}
        /\ n.step \notin {"sweep", "done"} => n.must = {}
        /\ n.must \subseteq issued
    BY <1>1, <2>1 DEF Writing
  <2> QED
    BY <2>1, <2>2, WritingStep
<1>5. \A p : /\ p # o => (Todo(p)' <=> Todo(p))
             /\ Todo(p)' => Todo(p)
  BY <1>1 DEF Todo, Moved
<1>6. \A s : Landed(s) => Landed(s)'
  BY <1>1 DEF Landed, Moved
<1>7. \A x \in Requests : \A p \in req'[x].todo : p.op = "delIndex" => Landed(p.sid)'
  BY <1>1, <1>6 DEF Moved, AccountInv, SessionsInv, PutOnce
<1>8. \A s \in issued' \cap Requests : req'[s].step = "done"
  BY <1>1 DEF Moved, AccountInv, SessionsInv, PutOnce
<1>9. \A x \in Requests : req'[x].must = req[x].must
  BY <1>1 DEF Moved
<1> QED
  BY <1>2, <1>3, <1>4, <1>5, <1>6, <1>7, <1>8, <1>9

LEMMA DoneMoves ==
  ASSUME AccountInv, NEW r \in Requests, NEW o \in req[r].todo, Done(r, o)
  PROVE  \E n : Moved(r, n) /\ Lessened(r, n, req[r].todo \ {o})
<1> DEFINE n == [req[r] EXCEPT !.todo = req[r].todo \ {o}]
<1>1. req' = [req EXCEPT ![r] = n]
  BY AtRest DEF Done, AccountInv, Typed, RequestsTyped
<1>2. req[r].todo \ {o} \in SUBSET Op
  BY UnderWay
<1>3. Lessened(r, n, req[r].todo \ {o})
  BY <1>2, Lessens
<1> HIDE DEF n
<1>4. Moved(r, n)
  BY <1>1, <1>3, Goes DEF Lessened, AccountInv
<1> QED
  BY <1>3, <1>4

LEMMA DeleteFailsInv ==
  ASSUME AccountInv, NEW r \in Requests, DeleteFails(r)
  PROVE  AccountInv'
<1>1. PICK o \in req[r].todo : Done(r, o)
  BY DEF DeleteFails
<1>2. PICK n : Moved(r, n) /\ Lessened(r, n, req[r].todo \ {o})
  BY <1>1, DoneMoves
<1>3. faults' # 0 /\ faults' \in 0 .. MaxFaults
  BY AccountsAssumption DEF DeleteFails, AccountInv, Typed, OtherTyped
<1>4. UNCHANGED <<firebase, store, issued, owned>>
  BY DEF DeleteFails
<1>5. /\ Typed' /\ KnownInv' /\ Writing'
      /\ \A s : Landed(s) => Landed(s)'
      /\ \A x \in Requests : \A p \in req'[x].todo : p.op = "delIndex" => Landed(p.sid)'
      /\ \A s \in issued' \cap Requests : req'[s].step = "done"
  BY <1>2, <1>3, <1>4, WriteLeaves DEF store, AccountInv, Typed, StoreTyped
<1>6. PutOnce'
  BY <1>4, <1>5 DEF PutOnce, Live, store, AccountInv, SessionsInv
<1> QED
  BY <1>3, <1>5, <1>6 DEF AccountInv, SessionsInv

\* A put of a session is under way only in the request that has its name.
LEMMA PutsAreOwn ==
  ASSUME AccountInv, NEW s, NEW v, NEW op \in {"putSession", "putIndex"},
         Todo([op |-> op, sid |-> s, uid |-> v])
  PROVE  /\ s \in Requests /\ s \notin issued /\ v \in Uids
         /\ [op |-> op, sid |-> s, uid |-> v] \in req[s].todo
         /\ op = "putSession" => ~Landed(s)
<1> DEFINE o == [op |-> op, sid |-> s, uid |-> v]
<1>1. o.op = op /\ o.sid = s /\ o.uid = v
  OBVIOUS
<1>2. PICK x \in Requests : o \in req[x].todo
  BY DEF Todo
<1> HIDE DEF o
<1>3. s = x /\ s \notin issued /\ v \in Uids
  BY <1>1, <1>2, UnderWay
<1>4. op = "putSession" => ~Landed(s)
  BY <1>1, <1>2, <1>3 DEF Landed
<1> QED
  BY <1>2, <1>3, <1>4 DEF o

LEMMA PutsSessionInv ==
  ASSUME AccountInv, NEW r \in Requests, NEW o \in req[r].todo, PutsSession(r, o),
         UNCHANGED <<firebase, handle, issued, owned, faults>>
  PROVE  AccountInv'
<1>1. PICK n : Moved(r, n) /\ Lessened(r, n, req[r].todo \ {o})
  BY DoneMoves DEF PutsSession
<1> DEFINE u == o.uid
<1>2. o.op = "putSession" /\ o.sid = r /\ u \in Uids /\ r \notin issued /\ req[r].step = "issue"
      /\ \A p \in req[r].todo : p.op \in {"putSession", "putIndex"} /\ p.sid = r /\ p.uid = u
      /\ o \in Op
  BY UnderWay DEF PutsSession
<1>3. session' = [session EXCEPT ![r] = u] /\ UNCHANGED <<rec, index, blobs>>
  BY <1>2 DEF PutsSession
<1>4. o = [op |-> "putSession", sid |-> r, uid |-> u]
  BY <1>2 DEF Op
<1> HIDE DEF u
<1>5. session' \in [Sids -> Uids \cup {NoUid}] /\ faults' \in 0 .. MaxFaults
  BY <1>2, <1>3 DEF AccountInv, Typed, StoreTyped, OtherTyped
<1>6. /\ Typed' /\ KnownInv' /\ Writing'
      /\ \A p : p # o => (Todo(p)' <=> Todo(p))
      /\ \A p : Todo(p)' => Todo(p)
      /\ \A s : Landed(s) => Landed(s)'
      /\ \A x \in Requests : \A p \in req'[x].todo : p.op = "delIndex" => Landed(p.sid)'
      /\ \A s \in issued' \cap Requests : req'[s].step = "done"
      /\ \A x \in Requests : req'[x].must = req[x].must
  BY <1>1, <1>3, <1>5, WriteLeaves DEF AccountInv, Typed, StoreTyped
<1>7. Landed(r)' /\ ~Landed(r)
  <2>1. req'[r].step = "issue" /\ req'[r].todo = req[r].todo \ {o}
    BY <1>1, <1>2 DEF Moved, Lessened
  <2>2. \A p \in req'[r].todo : p.op # "putSession"
    <3> SUFFICES ASSUME NEW p \in req[r].todo, p.op = "putSession" PROVE p = o
      BY <2>1
    <3>1. p \in Op /\ p.sid = r /\ p.uid = u
      BY <1>2, UnderWay
    <3>2. p = [op |-> "putSession", sid |-> r, uid |-> u]
      BY <3>1 DEF Op
    <3> QED
      BY <1>4, <3>2
  <2> QED
    BY <1>2, <2>1, <2>2 DEF Landed
<1>8. \A s \in Sids : s # r => session'[s] = session[s]
  BY <1>3 DEF AccountInv, Typed, StoreTyped
<1>9. session'[r] = u /\ r \in Sids /\ r \notin Live
  BY <1>3, <1>7 DEF AccountInv, Typed, StoreTyped, Sids, SessionsInv, PutOnce
<1>10. PutOnce'
  BY <1>6, <1>7, <1>8 DEF PutOnce, Live, AccountInv, SessionsInv
<1>11. \A s : BeingDeleted(s) => BeingDeleted(s)'
  <2> SUFFICES ASSUME NEW s, BeingDeleted(s) PROVE BeingDeleted(s)'
    OBVIOUS
  <2> DEFINE p == [op |-> "delSession", sid |-> s, uid |-> NoUid]
  <2>1. p.op = "delSession" /\ Todo(p)
    BY BeingDeletedIsTodo
  <2> HIDE DEF p
  <2>2. Todo(p)'
    BY <1>2, <1>6, <2>1
  <2> QED
    BY <2>2, BeingDeletedIsTodo DEF p
<1>12. \A s, v : ToList(s, v) => ToList(s, v)'
  <2> SUFFICES ASSUME NEW s, NEW v, ToList(s, v) PROVE ToList(s, v)'
    OBVIOUS
  <2> DEFINE p == [op |-> "putIndex", sid |-> s, uid |-> v]
  <2>1. p # o
    BY <1>2
  <2> HIDE DEF p
  <2>2. Todo(p) => Todo(p)'
    BY <1>6, <2>1
  <2> QED
    BY <1>3, <2>2 DEF ToList, p
<1>13. ASSUME faults' = 0 PROVE Listed' /\ ToDestroy'
  <2>1. Listed /\ ToDestroy
    BY <1>13 DEF AccountInv, SessionsInv
  <2>2. ToList(r, u)'
    <3>1. Todo(o)
      BY DEF Todo
    <3> QED
      BY <1>2, <1>4, <1>9, <1>12, <2>1, <3>1 DEF Listed
  <2>3. ASSUME NEW s \in Live' PROVE (ToList(s, session[s]) \/ BeingDeleted(s))'
    <3>1. CASE s = r
      BY <1>9, <2>2, <3>1 DEF ToList
    <3>2. CASE s # r
      <4>1. PICK v : v = session[s]
        OBVIOUS
      <4>2. ToList(s, v)' \/ BeingDeleted(s)'
        BY <1>8, <1>11, <1>12, <2>1, <2>3, <3>2, <4>1 DEF Listed, Live
      <4>3. session'[s] = v
        BY <1>8, <2>3, <3>2, <4>1 DEF Live
      <4> QED
        BY <4>2, <4>3 DEF ToList
    <3> QED
      BY <3>1, <3>2
  <2>4. ASSUME NEW s \in Live', NEW v \in Uids, Todo([op |-> "delIndex", sid |-> s, uid |-> v])'
        PROVE  BeingDeleted(s)'
    <3> DEFINE p == [op |-> "delIndex", sid |-> s, uid |-> v]
    <3>1. p.op = "delIndex" /\ p.sid = s /\ Todo(p)
      BY <1>6, <2>4
    <3> HIDE DEF p
    <3>2. Landed(s)
      BY <3>1 DEF Todo, AccountInv, SessionsInv, PutOnce
    <3>3. s # r
      BY <1>7, <3>2
    <3> QED
      BY <1>8, <1>11, <2>1, <2>4, <3>1, <3>3 DEF Listed, Live, p
  <2>5. Listed'
    BY <1>6, <1>12, <2>1, <2>3, <2>4 DEF Listed
  <2>6. ToDestroy'
    <3> SUFFICES ASSUME NEW x \in Requests, NEW s \in req[x].must
                 PROVE  session'[s] = NoUid \/ BeingDeleted(s)' \/ ReadOf(s) \in req'[x].todo
      BY <1>6 DEF ToDestroy
    <3>1. s \in issued /\ s # r /\ s \in Sids
      BY <1>2 DEF AccountInv, SessionsInv, Writing, Typed, OtherTyped
    <3>2. ReadOf(s) \in req[x].todo => ReadOf(s) \in req'[x].todo
      BY <1>1, <1>2 DEF Moved, Lessened, ReadOf
    <3> QED
      BY <1>8, <1>11, <2>1, <3>1, <3>2 DEF ToDestroy
  <2> QED
    BY <2>5, <2>6
<1> QED
  BY <1>6, <1>10, <1>13 DEF AccountInv, SessionsInv

\* A write that takes no session away and no entry out of the index.
LEMMA WriteLeavesSessions ==
  ASSUME AccountInv, NEW r \in Requests, NEW o \in req[r].todo, NEW n, Moved(r, n),
         Lessened(r, n, req[r].todo \ {o}),
         UNCHANGED <<firebase, handle, issued, owned, faults, session>>,
         rec' \in {rec, NoRecord}, index' \subseteq Uids \X Sids, blobs' \subseteq Uids,
         index \subseteq index', o.op \in {"putIndex", "delUser", "delBlob"},
         o.op = "putIndex" => <<o.uid, o.sid>> \in index'
  PROVE  AccountInv'
<1>1. /\ Typed' /\ KnownInv' /\ Writing'
      /\ \A p : p # o => (Todo(p)' <=> Todo(p))
      /\ \A p : Todo(p)' => Todo(p)
      /\ \A s : Landed(s) => Landed(s)'
      /\ \A x \in Requests : \A p \in req'[x].todo : p.op = "delIndex" => Landed(p.sid)'
      /\ \A s \in issued' \cap Requests : req'[s].step = "done"
      /\ \A x \in Requests : req'[x].must = req[x].must
  BY WriteLeaves DEF AccountInv, Typed, StoreTyped, OtherTyped
<1>2. PutOnce'
  BY <1>1 DEF PutOnce, Live, AccountInv, SessionsInv
<1>3. \A s : BeingDeleted(s) => BeingDeleted(s)'
  <2> SUFFICES ASSUME NEW s, BeingDeleted(s) PROVE BeingDeleted(s)'
    OBVIOUS
  <2> DEFINE p == [op |-> "delSession", sid |-> s, uid |-> NoUid]
  <2>1. p.op = "delSession" /\ Todo(p)
    BY BeingDeletedIsTodo
  <2> HIDE DEF p
  <2>2. Todo(p)'
    BY <1>1, <2>1
  <2> QED
    BY <2>2, BeingDeletedIsTodo DEF p
<1>4. \A s, v : ToList(s, v) => ToList(s, v)'
  <2> SUFFICES ASSUME NEW s, NEW v, ToList(s, v) PROVE ToList(s, v)'
    OBVIOUS
  <2> DEFINE p == [op |-> "putIndex", sid |-> s, uid |-> v]
  <2>1. p.op = "putIndex" /\ p.sid = s /\ p.uid = v
    OBVIOUS
  <2>2. <<v, s>> \in index \/ Todo(p)
    BY DEF ToList
  <2> HIDE DEF p
  <2>3. <<v, s>> \in index' \/ Todo(p)'
    BY <1>1, <2>1, <2>2
  <2> QED
    BY <2>3 DEF ToList, p
<1>5. ASSUME faults' = 0 PROVE Listed' /\ ToDestroy'
  <2>1. Listed /\ ToDestroy
    BY <1>5 DEF AccountInv, SessionsInv
  <2>2. Live' = Live
    BY DEF Live
  <2>3. ASSUME NEW s \in Live PROVE (ToList(s, session[s]) \/ BeingDeleted(s))'
    <3>1. PICK v : v = session[s]
      OBVIOUS
    <3>2. ToList(s, v)' \/ BeingDeleted(s)'
      BY <1>3, <1>4, <2>1, <3>1 DEF Listed
    <3> QED
      BY <3>1, <3>2 DEF ToList
  <2>4. Listed'
    BY <1>1, <1>3, <1>4, <2>1, <2>2, <2>3 DEF Listed
  <2>5. ToDestroy'
    <3> SUFFICES ASSUME NEW x \in Requests, NEW s \in req[x].must
                 PROVE  session[s] = NoUid \/ BeingDeleted(s)' \/ ReadOf(s) \in req'[x].todo
      BY <1>1 DEF ToDestroy
    <3>1. ReadOf(s) \in req[x].todo => ReadOf(s) \in req'[x].todo
      BY DEF Moved, Lessened, ReadOf
    <3> QED
      BY <1>3, <2>1, <3>1 DEF ToDestroy
  <2> QED
    BY <2>4, <2>5
<1> QED
  BY <1>1, <1>2, <1>5 DEF AccountInv, SessionsInv

LEMMA PutsIndexInv ==
  ASSUME AccountInv, NEW r \in Requests, NEW o \in req[r].todo, PutsIndex(r, o),
         UNCHANGED <<firebase, handle, issued, owned, faults>>
  PROVE  AccountInv'
<1>1. PICK n : Moved(r, n) /\ Lessened(r, n, req[r].todo \ {o})
  BY DoneMoves DEF PutsIndex
<1>2. o.op = "putIndex" /\ o.sid \in Sids /\ o.uid \in Uids
  BY UnderWay DEF PutsIndex, Sids
<1>3. UNCHANGED <<rec, session, blobs>> /\ index' = index \cup {<<o.uid, o.sid>>}
  BY DEF PutsIndex
<1>4. index' \subseteq Uids \X Sids /\ index \subseteq index' /\ <<o.uid, o.sid>> \in index'
      /\ blobs' \subseteq Uids
  BY <1>2, <1>3 DEF AccountInv, Typed, StoreTyped
<1> QED
  BY <1>1, <1>2, <1>3, <1>4, WriteLeavesSessions

LEMMA DeletesBlobInv ==
  ASSUME AccountInv, NEW r \in Requests, NEW o \in req[r].todo, DeletesBlob(r, o),
         UNCHANGED <<firebase, handle, issued, owned, faults>>
  PROVE  AccountInv'
<1>1. PICK n : Moved(r, n) /\ Lessened(r, n, req[r].todo \ {o})
  BY DoneMoves DEF DeletesBlob
<1> QED
  BY <1>1, WriteLeavesSessions DEF DeletesBlob, AccountInv, Typed, StoreTyped

LEMMA DeletesUserInv ==
  ASSUME AccountInv, NEW r \in Requests, NEW o \in req[r].todo, DeletesUser(r, o),
         UNCHANGED <<firebase, handle, issued, owned, faults>>
  PROVE  AccountInv'
<1> DEFINE n == [req[r] EXCEPT !.todo = req[r].todo \ {o}]
<1>1. PutUser(r, NoRecord, n) /\ o.op = "delUser" /\ UNCHANGED <<session, index, blobs>>
  BY DEF DeletesUser
<1>2. req[r].todo \ {o} \in SUBSET Op
  BY UnderWay
<1>3. Lessened(r, n, req[r].todo \ {o})
  BY <1>2, Lessens
<1> HIDE DEF n
<1>4. Moved(r, n) /\ rec' = NoRecord
  BY <1>1, <1>3, PutsUser DEF Lessened, AccountInv
<1> QED
  BY <1>1, <1>3, <1>4, WriteLeavesSessions DEF AccountInv, Typed, StoreTyped

LEMMA DeletesSessionInv ==
  ASSUME AccountInv, NEW r \in Requests, NEW o \in req[r].todo, DeletesSession(r, o),
         UNCHANGED <<firebase, handle, issued, owned, faults>>
  PROVE  AccountInv'
<1>1. PICK n : Moved(r, n) /\ Lessened(r, n, req[r].todo \ {o})
  BY DoneMoves DEF DeletesSession
<1>2. o.op = "delSession" /\ o.sid \in Sids /\ UNCHANGED <<rec, index, blobs>>
      /\ session' = [session EXCEPT ![o.sid] = NoUid]
  BY UnderWay DEF DeletesSession
<1> DEFINE t == o.sid
<1>3. \A s \in Sids : session'[s] = IF s = t THEN NoUid ELSE session[s]
  BY <1>2 DEF AccountInv, Typed, StoreTyped
<1>4. session' \in [Sids -> Uids \cup {NoUid}]
  BY <1>2 DEF AccountInv, Typed, StoreTyped
<1>5. /\ Typed' /\ KnownInv' /\ Writing'
      /\ \A p : p # o => (Todo(p)' <=> Todo(p))
      /\ \A p : Todo(p)' => Todo(p)
      /\ \A s : Landed(s) => Landed(s)'
      /\ \A x \in Requests : \A p \in req'[x].todo : p.op = "delIndex" => Landed(p.sid)'
      /\ \A s \in issued' \cap Requests : req'[s].step = "done"
      /\ \A x \in Requests : req'[x].must = req[x].must
  BY <1>1, <1>2, <1>4, WriteLeaves DEF AccountInv, Typed, StoreTyped, OtherTyped
<1>6. Live' = Live \ {t}
  BY <1>3 DEF Live
<1>7. PutOnce'
  BY <1>5, <1>6 DEF PutOnce, AccountInv, SessionsInv
<1>8. ASSUME NEW s, s # t, BeingDeleted(s) PROVE BeingDeleted(s)'
  <2> DEFINE p == [op |-> "delSession", sid |-> s, uid |-> NoUid]
  <2>1. p.sid = s /\ Todo(p)
    BY <1>8, BeingDeletedIsTodo
  <2> HIDE DEF p
  <2>2. Todo(p)'
    BY <1>5, <1>8, <2>1
  <2> QED
    BY <2>2, BeingDeletedIsTodo DEF p
<1>9. \A s, v : ToList(s, v) => ToList(s, v)'
  <2> SUFFICES ASSUME NEW s, NEW v, ToList(s, v) PROVE ToList(s, v)'
    OBVIOUS
  <2> DEFINE p == [op |-> "putIndex", sid |-> s, uid |-> v]
  <2>1. p.op = "putIndex"
    OBVIOUS
  <2>2. <<v, s>> \in index \/ Todo(p)
    BY DEF ToList
  <2> HIDE DEF p
  <2>3. <<v, s>> \in index' \/ Todo(p)'
    BY <1>2, <1>5, <2>1, <2>2
  <2> QED
    BY <2>3 DEF ToList, p
<1> HIDE DEF t
<1>10. ASSUME faults' = 0 PROVE Listed' /\ ToDestroy'
  <2>1. Listed /\ ToDestroy
    BY <1>10 DEF AccountInv, SessionsInv
  <2>3. ASSUME NEW s \in Live' PROVE (ToList(s, session[s]) \/ BeingDeleted(s))'
    <3>1. PICK v : v = session[s]
      OBVIOUS
    <3>2. ToList(s, v)' \/ BeingDeleted(s)'
      BY <1>6, <1>8, <1>9, <2>1, <2>3, <3>1 DEF Listed
    <3>3. session'[s] = v
      BY <1>3, <1>6, <2>3, <3>1 DEF Live
    <3> QED
      BY <3>2, <3>3 DEF ToList
  <2>4. Listed'
    BY <1>5, <1>6, <1>8, <1>9, <2>1, <2>3 DEF Listed
  <2>5. ToDestroy'
    <3> SUFFICES ASSUME NEW x \in Requests, NEW s \in req[x].must
                 PROVE  session'[s] = NoUid \/ BeingDeleted(s)' \/ ReadOf(s) \in req'[x].todo
      BY <1>5 DEF ToDestroy
    <3>1. ReadOf(s) \in req[x].todo => ReadOf(s) \in req'[x].todo
      BY <1>1, <1>2 DEF Moved, Lessened, ReadOf
    <3>2. s \in Sids
      BY DEF AccountInv, SessionsInv, Writing, Typed, OtherTyped
    <3> QED
      BY <1>3, <1>8, <2>1, <3>1, <3>2 DEF ToDestroy
  <2> QED
    BY <2>4, <2>5
<1> QED
  BY <1>5, <1>7, <1>10 DEF AccountInv, SessionsInv

\* An entry that is deleted is that of a session on its way out.
LEMMA DeletesIndexInv ==
  ASSUME AccountInv, NEW r \in Requests, NEW o \in req[r].todo, DeletesIndex(r, o),
         UNCHANGED <<firebase, handle, issued, owned, faults>>
  PROVE  AccountInv'
<1>1. PICK n : Moved(r, n) /\ Lessened(r, n, req[r].todo \ {o})
  BY DoneMoves DEF DeletesIndex
<1> DEFINE t == o.sid
           u == o.uid
<1>2. o.op = "delIndex" /\ t \in Sids /\ UNCHANGED <<rec, session, blobs>> /\ o \in Op
      /\ index' = index \ {<<u, t>>} /\ Landed(t)
  BY UnderWay DEF DeletesIndex, AccountInv, SessionsInv, PutOnce
<1>3. o = [op |-> "delIndex", sid |-> t, uid |-> u]
  BY <1>2 DEF Op
<1> HIDE DEF t, u
<1>4. index' \subseteq Uids \X Sids
  BY <1>2 DEF AccountInv, Typed, StoreTyped
<1>5. /\ Typed' /\ KnownInv' /\ Writing'
      /\ \A p : p # o => (Todo(p)' <=> Todo(p))
      /\ \A p : Todo(p)' => Todo(p)
      /\ \A s : Landed(s) => Landed(s)'
      /\ \A x \in Requests : \A p \in req'[x].todo : p.op = "delIndex" => Landed(p.sid)'
      /\ \A s \in issued' \cap Requests : req'[s].step = "done"
      /\ \A x \in Requests : req'[x].must = req[x].must
  BY <1>1, <1>2, <1>4, WriteLeaves DEF AccountInv, Typed, StoreTyped, OtherTyped
<1>6. PutOnce'
  BY <1>2, <1>5 DEF PutOnce, Live, AccountInv, SessionsInv
<1>7. \A s : BeingDeleted(s) => BeingDeleted(s)'
  <2> SUFFICES ASSUME NEW s, BeingDeleted(s) PROVE BeingDeleted(s)'
    OBVIOUS
  <2> DEFINE p == [op |-> "delSession", sid |-> s, uid |-> NoUid]
  <2>1. p.op = "delSession" /\ Todo(p)
    BY BeingDeletedIsTodo
  <2> HIDE DEF p
  <2>2. Todo(p)'
    BY <1>2, <1>5, <2>1
  <2> QED
    BY <2>2, BeingDeletedIsTodo DEF p
<1>8. ASSUME NEW s, NEW v, ToList(s, v), s # t \/ v # u PROVE ToList(s, v)'
  <2> DEFINE p == [op |-> "putIndex", sid |-> s, uid |-> v]
  <2>1. p.op = "putIndex"
    OBVIOUS
  <2>2. <<v, s>> \in index \/ Todo(p)
    BY <1>8 DEF ToList
  <2> HIDE DEF p
  <2>3. <<v, s>> \in index' \/ Todo(p)'
    BY <1>2, <1>5, <1>8, <2>1, <2>2
  <2> QED
    BY <2>3 DEF ToList, p
<1>9. ASSUME faults' = 0 PROVE Listed' /\ ToDestroy'
  <2>1. Listed /\ ToDestroy /\ Live' = Live
    BY <1>2, <1>9 DEF AccountInv, SessionsInv, Live
  <2>2. ASSUME NEW s \in Sids, NEW v \in Uids, Todo([op |-> "putSession", sid |-> s, uid |-> v])'
        PROVE  ToList(s, v)'
    <3>1. Todo([op |-> "putSession", sid |-> s, uid |-> v])
      BY <1>5, <2>2
    <3>2. ~Landed(s)
      BY <3>1, PutsAreOwn
    <3> QED
      BY <1>2, <1>8, <2>1, <3>1, <3>2 DEF Listed
  <2>3. ASSUME NEW s \in Live PROVE (ToList(s, session[s]) \/ BeingDeleted(s))'
    <3>1. PICK v : v = session[s]
      OBVIOUS
    <3>2. v \in Uids /\ s \in Sids
      BY <3>1 DEF Live, AccountInv, Typed, StoreTyped
    <3>3. ToList(s, v) \/ BeingDeleted(s)
      BY <2>1, <3>1 DEF Listed
    <3>4. s = t /\ v = u => BeingDeleted(s)
      <4>1. Todo(o)
        BY DEF Todo
      <4> QED
        BY <1>3, <2>1, <3>2, <4>1 DEF Listed
    <3>5. ToList(s, v)' \/ BeingDeleted(s)'
      BY <1>7, <1>8, <3>3, <3>4
    <3> QED
      BY <1>2, <3>1, <3>5 DEF ToList
  <2>4. Listed'
    BY <1>5, <1>7, <2>1, <2>2, <2>3 DEF Listed
  <2>5. ToDestroy'
    <3> SUFFICES ASSUME NEW x \in Requests, NEW s \in req[x].must
                 PROVE  session[s] = NoUid \/ BeingDeleted(s)' \/ ReadOf(s) \in req'[x].todo
      BY <1>2, <1>5 DEF ToDestroy
    <3>1. ReadOf(s) \in req[x].todo => ReadOf(s) \in req'[x].todo
      BY <1>1, <1>2 DEF Moved, Lessened, ReadOf
    <3> QED
      BY <1>7, <2>1, <3>1 DEF ToDestroy
  <2> QED
    BY <2>4, <2>5
<1> QED
  BY <1>5, <1>6, <1>9 DEF AccountInv, SessionsInv

\* The session that was read goes, and its entry; it is one of those there.
LEMMA ReadsToDestroyInv ==
  ASSUME AccountInv, NEW r \in Requests, NEW o \in req[r].todo, ReadsToDestroy(r, o),
         UNCHANGED <<firebase, handle, issued, owned, faults>>
  PROVE  AccountInv'
<1> DEFINE t == o.sid
           d == DestroySession(t, session[t])
           n == [req[r] EXCEPT !.todo = (req[r].todo \ {o}) \cup d]
<1>1. o.op = "read" /\ t \in Sids /\ req[r].step = "sweep" /\ req[r].todo \in SUBSET Op
      /\ UNCHANGED <<rec, session, index, blobs>>
  BY UnderWay DEF ReadsToDestroy
<1>2. session[t] \in Uids \cup {NoUid}
  BY <1>1 DEF AccountInv, Typed, StoreTyped
<1>3. /\ d \in SUBSET Op
      /\ \A p \in d : p.op \in {"delSession", "delIndex"} /\ p.sid = t
      /\ [op |-> "delSession", sid |-> t, uid |-> NoUid] \in d
      /\ \A p \in d : p.op = "delIndex" => t \in Live /\ p.uid = session[t]
  <2>1. [op |-> "delSession", sid |-> t, uid |-> NoUid] \in Op
    BY <1>1 DEF Op
  <2>2. [op |-> "delIndex", sid |-> t, uid |-> session[t]] \in Op
    BY <1>1, <1>2 DEF Op
  <2> HIDE DEF t
  <2> QED
    BY <1>1, <2>1, <2>2 DEF DestroySession, Live
<1>4. req' = [req EXCEPT ![r] = n]
  BY AtRest DEF ReadsToDestroy, AccountInv, Typed, RequestsTyped
<1>5. Lessened(r, n, (req[r].todo \ {o}) \cup d)
  BY <1>1, <1>3, Lessens
<1> HIDE DEF n, t, d
<1>6. n \in Request /\ Carries(n) /\ Vouched(n, Known)
      /\ n.todo = (req[r].todo \ {o}) \cup d /\ n.step = "sweep" /\ n.must = req[r].must
  BY <1>1, <1>5 DEF Lessened
<1>7. Moved(r, n)
  BY <1>4, <1>6, Goes DEF AccountInv
<1>8. Typed'
  <2>1. RequestsTyped'
    BY <1>6, <1>7, RequestsStayTyped DEF AccountInv, Typed
  <2>2. StoreTyped' /\ FirebaseTyped' /\ OtherTyped'
    BY <1>1, OwnedRests DEF firebase, AccountInv, Typed, StoreTyped, FirebaseTyped, OtherTyped
  <2> QED
    BY <2>1, <2>2 DEF Typed
<1>9. KnownInv'
  BY <1>1, <1>6, <1>7, OwnedRests, StaysVouched DEF firebase, AccountInv
<1>10. Writing'
  <2>1. Writing
    BY DEF AccountInv, SessionsInv
  <2>2. /\ n.todo # {} => n.step \in {"issue", "sweep"}
        /\ n.step = "issue" => \E u \in Uids : n.todo \subseteq SessionPuts(r, u)
        /\ n.step = "sweep" => \A p \in n.todo : p.op \notin {"putSession", "putIndex"}
        /\ n.step \notin {"sweep", "done"} => n.must = {}
        /\ n.must \subseteq issued
    BY <1>1, <1>3, <1>6, <2>1 DEF Writing
  <2> QED
    BY <1>7, <2>1, <2>2, WritingStep
<1>11. \A s : Landed(s) => Landed(s)'
  <2> SUFFICES ASSUME NEW s, Landed(s) PROVE Landed(s)'
    OBVIOUS
  <2>1. s # r
    BY <1>1 DEF Landed
  <2> QED
    BY <1>7, <2>1 DEF Landed, Moved
<1>12. PutOnce'
  <2>1. \A s \in Live' : Landed(s)'
    BY <1>1, <1>11 DEF Live, PutOnce, AccountInv, SessionsInv
  <2>2. ASSUME NEW x \in Requests, NEW p \in req'[x].todo, p.op = "delIndex" PROVE Landed(p.sid)'
    <3>1. p \in req[x].todo \/ p \in d
      BY <1>6, <1>7 DEF Moved
    <3> QED
      BY <1>3, <1>11, <2>2, <3>1 DEF PutOnce, AccountInv, SessionsInv
  <2>3. \A s \in issued' \cap Requests : req'[s].step = "done"
    BY <1>1, <1>7 DEF Moved, AccountInv, SessionsInv, PutOnce
  <2> QED
    BY <2>1, <2>2, <2>3 DEF PutOnce
<1>13. \A p : /\ p # o => (Todo(p)' <=> Todo(p) \/ p \in d)
              /\ Todo(p)' => Todo(p) \/ p \in d
              /\ p \in d => Todo(p)'
  BY <1>6, <1>7 DEF Todo, Moved
<1>14. \A s : BeingDeleted(s) => BeingDeleted(s)'
  <2> SUFFICES ASSUME NEW s, BeingDeleted(s) PROVE BeingDeleted(s)'
    OBVIOUS
  <2> DEFINE p == [op |-> "delSession", sid |-> s, uid |-> NoUid]
  <2>1. p.op = "delSession" /\ Todo(p)
    BY BeingDeletedIsTodo
  <2> HIDE DEF p
  <2>2. Todo(p)'
    BY <1>1, <1>13, <2>1
  <2> QED
    BY <2>2, BeingDeletedIsTodo DEF p
<1>15. BeingDeleted(t)'
  <2> DEFINE p == [op |-> "delSession", sid |-> t, uid |-> NoUid]
  <2>1. p \in d
    BY <1>3
  <2> HIDE DEF p
  <2>2. Todo(p)'
    BY <1>13, <2>1
  <2> QED
    BY <2>2, BeingDeletedIsTodo DEF p
<1>16. \A s, v : ToList(s, v) => ToList(s, v)'
  <2> SUFFICES ASSUME NEW s, NEW v, ToList(s, v) PROVE ToList(s, v)'
    OBVIOUS
  <2> DEFINE p == [op |-> "putIndex", sid |-> s, uid |-> v]
  <2>1. p.op = "putIndex"
    OBVIOUS
  <2>2. <<v, s>> \in index \/ Todo(p)
    BY DEF ToList
  <2> HIDE DEF p
  <2>3. <<v, s>> \in index' \/ Todo(p)'
    BY <1>1, <1>13, <2>1, <2>2
  <2> QED
    BY <2>3 DEF ToList, p
<1>17. ASSUME faults' = 0 PROVE Listed' /\ ToDestroy'
  <2>1. Listed /\ ToDestroy /\ Live' = Live
    BY <1>1, <1>17 DEF AccountInv, SessionsInv, Live
  <2>2. ASSUME NEW s \in Sids, NEW v \in Uids, Todo([op |-> "putSession", sid |-> s, uid |-> v])'
        PROVE  ToList(s, v)'
    <3> DEFINE p == [op |-> "putSession", sid |-> s, uid |-> v]
    <3>1. p.op = "putSession" /\ Todo(p)'
      BY <2>2
    <3> HIDE DEF p
    <3>2. Todo(p)
      BY <1>3, <1>13, <3>1
    <3> QED
      BY <1>16, <2>1, <3>2 DEF Listed, p
  <2>3. ASSUME NEW s \in Live PROVE (ToList(s, session[s]) \/ BeingDeleted(s))'
    <3>1. PICK v : v = session[s]
      OBVIOUS
    <3>2. ToList(s, v)' \/ BeingDeleted(s)'
      BY <1>14, <1>16, <2>1, <3>1 DEF Listed
    <3> QED
      BY <1>1, <3>1, <3>2 DEF ToList
  <2>4. ASSUME NEW s \in Live, NEW v \in Uids, Todo([op |-> "delIndex", sid |-> s, uid |-> v])'
        PROVE  BeingDeleted(s)'
    <3> DEFINE p == [op |-> "delIndex", sid |-> s, uid |-> v]
    <3>1. p.sid = s /\ Todo(p)'
      BY <2>4
    <3> HIDE DEF p
    <3>2. Todo(p) \/ s = t
      BY <1>3, <1>13, <3>1
    <3> QED
      BY <1>14, <1>15, <2>1, <3>2 DEF Listed, p
  <2>5. Listed'
    BY <2>1, <2>2, <2>3, <2>4 DEF Listed
  <2>6. ToDestroy'
    <3> SUFFICES ASSUME NEW x \in Requests, NEW s \in req[x].must
                 PROVE  session[s] = NoUid \/ BeingDeleted(s)' \/ ReadOf(s) \in req'[x].todo
      BY <1>1, <1>6, <1>7 DEF ToDestroy, Moved
    <3>1. ReadOf(s) \in req[x].todo => ReadOf(s) \in req'[x].todo \/ s = t
      BY <1>6, <1>7 DEF Moved, ReadOf, t
    <3> QED
      BY <1>14, <1>15, <2>1, <3>1 DEF ToDestroy
  <2> QED
    BY <2>5, <2>6
<1> QED
  BY <1>8, <1>9, <1>10, <1>12, <1>17 DEF AccountInv, SessionsInv

LEMMA LandsInv ==
  ASSUME AccountInv, NEW r \in Requests, Lands(r)
  PROVE  AccountInv'
  BY PutsSessionInv, PutsIndexInv, ReadsToDestroyInv, DeletesSessionInv, DeletesIndexInv,
     DeletesUserInv, DeletesBlobInv DEF Lands

----------------------------------------------------------------------------
LEMMA InitAccounts == Init => AccountInv
<1> SUFFICES ASSUME Init PROVE AccountInv
  OBVIOUS
<1>1. PICK u \in {NoUid, LegacyUid, GoogleUid} \cup FirebaseUids, start \in {0, Today} :
         /\ fb = IF u \in FirebaseUids THEN u ELSE NoUid
         /\ verified = (u \in FirebaseUids)
         /\ used = {u} \cap FirebaseUids
         /\ rec = IF u = NoUid THEN NoRecord
                  ELSE [uid |-> u, hash |-> u = LegacyUid, legacy |-> FALSE,
                        trial |-> start, sub |-> 0]
         /\ session = [s \in Sids |-> IF s = Old THEN u ELSE NoUid]
         /\ index = {<<u, Old>>} \cap (Uids \X Sids)
         /\ issued = IF u = NoUid THEN {} ELSE {Old}
         /\ proven = {u} \cap FirebaseUids
  BY DEF Init
<1>2. mail = {} /\ blobs = {} /\ handle = [r \in Requests |-> NoUid]
      /\ req = [r \in Requests |-> Blank] /\ faults = 0 /\ adopted = {}
  BY DEF Init
<1>3. Old \in Sids /\ start \in Int
  BY AccountsAssumption DEF Sids
<1>4. Typed
  <2>1. u # NoUid => rec \in Record
    BY <1>1, <1>3 DEF Record, Uids
  <2>2. FirebaseTyped
    BY <1>1, <1>2 DEF FirebaseTyped
  <2>3. StoreTyped
    BY <1>1, <1>2, <1>3, <2>1 DEF StoreTyped, Uids
  <2>4. OtherTyped
    BY <1>1, <1>2, <1>3, AccountsAssumption DEF OtherTyped, OwnedTyped
  <2>5. RequestsTyped
    BY <1>2, BlankFields DEF RequestsTyped, Carries, SignIns
  <2> QED
    BY <2>2, <2>3, <2>4, <2>5 DEF Typed
<1>5. Writing
  BY <1>2, BlankFields DEF Writing
<1>6. \A o : ~Todo(o)
  BY <1>2, BlankFields DEF Todo
<1>7. Live \subseteq {Old} /\ (Old \in Live => u \in Uids /\ session[Old] = u)
  BY <1>1, <1>3 DEF Live, Uids
<1>8. Old \notin Requests
  BY AccountsAssumption
<1>9. PutOnce
  BY <1>1, <1>2, <1>7, <1>8, BlankFields DEF PutOnce, Landed
<1>10. Listed
  <2>1. Old \in Live => ToList(Old, session[Old])
    BY <1>1, <1>3, <1>7 DEF ToList
  <2> QED
    BY <1>6, <1>7, <2>1 DEF Listed
<1>11. ToDestroy
  BY <1>2, BlankFields DEF ToDestroy
<1>12. KnownInv
  <2>1. Backed(Known)
    BY <1>1, <1>3, RecordAssumption, AccountsAssumption DEF Backed, Known, Record
  <2>2. Vouched(Blank, Known)
    BY BlankFields, RecordAssumption DEF Vouched
  <2> QED
    BY <1>2, <2>1, <2>2 DEF KnownInv
<1> QED
  BY <1>4, <1>5, <1>9, <1>10, <1>11, <1>12 DEF AccountInv, SessionsInv

LEMMA StepAccounts == AccountInv /\ [Next]_vars => AccountInv'
<1> SUFFICES ASSUME AccountInv, [Next]_vars PROVE AccountInv'
  OBVIOUS
<1>1. ASSUME NEW r \in Requests, Step(r) PROVE AccountInv'
  BY <1>1, SignupFindsInv, SignupAtFirebaseInv, SignupCreatesInv, SignupMailsInv,
     LoginAtFirebaseInv, MigrateFindsInv, MigrateSignsUpInv, LoginLooksUpInv,
     PostVerifyLooksUpInv, VerifyAppliesInv, ResetConfirmsInv, ResetSignsInInv,
     FindUserByEmailInv, CreatesUserInv, FlagsUserInv, AlignsUserInv, LoginRefusedInv,
     TouchLastLoginInv, SessionIssuedInv, ReadsSessionInv, ReauthenticatesInv,
     DeletesAtFirebaseInv, ListsSessionsInv, ReadsTargetInv, SweepEndsInv, ChecksAccessInv,
     PutsSettingsInv, AdminFindsInv, AdminWritesInv, LandsInv
  DEF Step
<1>2. ASSUME NEW r \in Requests, DeleteFails(r) \/ Dies(r) PROVE AccountInv'
  BY <1>2, DeleteFailsInv, DiesInv
<1>3. ASSUME NEW r \in Requests, NEW kind \in Kinds, Arrives(r, kind) PROVE AccountInv'
  BY <1>3, ArrivesInv
<1>4. ASSUME NEW link \in {"verify", "reset"}, SendsLink(link) PROVE AccountInv'
  BY <1>4, SendsLinkInv
<1>5. CASE VerifiesAtFirebase
  BY <1>5, VerifiesInv
<1>6. CASE UNCHANGED vars
  BY <1>6, StutterInv
<1> QED
  BY <1>1, <1>2, <1>3, <1>4, <1>5, <1>6 DEF Next

(* What is in Cloudflare KV and what every request holds is well formed.   *)
THEOREM AccountTypes == Spec => []TypeOK
<1>1. AccountInv => TypeOK
  BY DEF AccountInv, Typed, FirebaseTyped, StoreTyped, OtherTyped, OwnedTyped, RequestsTyped, TypeOK
<1> QED
  BY <1>1, InitAccounts, StepAccounts, PTL DEF Spec

(* Every session that is valid is in the index by which its user's devices *)
(* are listed, once nothing is under way and nothing has failed.           *)
THEOREM ValidSessionsAreListed == Spec => []SessionsAreListed
<1>1. AccountInv => SessionsAreListed
  <2> SUFFICES ASSUME AccountInv, faults = 0, \A r \in Requests : ~Active(r), NEW s \in Live
               PROVE  <<session[s], s>> \in index
    BY DEF SessionsAreListed
  <2>1. \A r \in Requests : req[r].todo = {}
    BY AtRest DEF Active
  <2>2. \A o : ~Todo(o)
    BY <2>1 DEF Todo
  <2>3. ~BeingDeleted(s)
    BY <2>1 DEF BeingDeleted
  <2>4. ToList(s, session[s])
    BY <2>3 DEF AccountInv, SessionsInv, Listed
  <2> QED
    BY <2>2, <2>4 DEF ToList
<1> QED
  BY <1>1, InitAccounts, StepAccounts, PTL DEF Spec

(* A change of password or a deletion that has answered has ended every    *)
(* session it had to, or another request is about to.                      *)
THEOREM EndedWhenAnswered == Spec => []OthersSignedOut
<1>1. AccountInv => OthersSignedOut
  <2> SUFFICES ASSUME AccountInv, faults = 0, NEW r \in Requests, req[r].step = "done",
                      NEW s \in req[r].must
               PROVE  session[s] = NoUid \/ BeingDeleted(s)
    BY DEF OthersSignedOut
  <2>1. req[r].todo = {}
    BY AtRest
  <2> QED
    BY <2>1 DEF AccountInv, SessionsInv, ToDestroy
<1> QED
  BY <1>1, InitAccounts, StepAccounts, PTL DEF Spec

(* A sign-in that is let in rests on a Firebase account that was shown to  *)
(* be of the owner of the address, or that a login put in a record of      *)
(* another uid: no sign-up, deletion or stale write lets in another.       *)
THEOREM NoSessionUnproven == Spec => []SessionsAreProven
<1>1. AccountInv => SessionsAreProven
  BY DEF AccountInv, KnownInv, Vouched, Known, Entering, SessionsAreProven
<1> QED
  BY <1>1, InitAccounts, StepAccounts, PTL DEF Spec

----------------------------------------------------------------------------
(***************************************************************************)
(* Access.  A request that is to write back the record it read has a copy  *)
(* of it, as long as nobody else wrote it.                                 *)
(***************************************************************************)
WritesBack(q) ==
    \/ q.kind \in SignIns /\ q.step \in {"flag", "align", "touch"}
    \/ q.kind = "adminAccess" /\ q.step = "access"
FreshCopies ==
    \A r \in Requests : WritesBack(req[r]) /\ ~req[r].stale => req[r].user = rec
AccessInv == AccountInv /\ FreshCopies

AccessIsKept ==
    HasAccess /\ ~HasAccess' =>
      \/ rec' = NoRecord
      \/ rec' = CancelSubscription(rec)
      \/ \E r \in Requests : req[r].stale /\ req'[r] # req[r]

\* A step that leaves the record alone, and after which its request is not
\* about to write one back, or has just read it.
LEMMA RecordRests ==
  ASSUME AccessInv, NEW r \in Requests, rec' = rec,
         \A q \in Requests \ {r} : req'[q] = req[q],
         WritesBack(req'[r]) => req'[r].user = rec
  PROVE  FreshCopies' /\ AccessIsKept
<1>1. HasAccess' <=> HasAccess
  BY DEF HasAccess, AccessState
<1>2. FreshCopies'
  BY DEF AccessInv, FreshCopies
<1> QED
  BY <1>1, <1>2 DEF AccessIsKept

\* A step that writes the record: the others' copies are old ones then.
LEMMA RecordIsPut ==
  ASSUME AccessInv, NEW r \in Requests, NEW user, NEW n, PutUser(r, user, n),
         WritesBack(n) => n.user = user
  PROVE  FreshCopies' /\ rec' = user /\ req'[r] = n
<1>1. req' = [q \in Requests |-> IF q = r THEN n ELSE IF req[q].user = NotRead THEN req[q]
                                 ELSE [req[q] EXCEPT !.stale = TRUE]]
  BY DEF PutUser
<1>2. req'[r] = n /\ rec' = user
  BY <1>1 DEF PutUser
<1>3. ASSUME NEW q \in Requests \ {r}, WritesBack(req'[q]), ~req'[q].stale
      PROVE  FALSE
  <2> DEFINE x == req[q]
  <2>1. x \in Request /\ Carries(x)
    BY AtRest DEF AccessInv
  <2>2. req'[q] = IF x.user = NotRead THEN x ELSE [x EXCEPT !.stale = TRUE]
    BY <1>1, <1>3
  <2> HIDE DEF x
  <2>3. x.user = NotRead
    <3> SUFFICES ASSUME x.user # NotRead PROVE FALSE
      OBVIOUS
    <3>1. req'[q] = [x EXCEPT !.stale = TRUE]
      BY <2>2
    <3>2. req'[q].stale = TRUE
      BY <2>1, <3>1 DEF Request
    <3> QED
      BY <1>3, <3>2
  <2>4. WritesBack(x)
    BY <1>3, <2>2, <2>3
  <2> QED
    BY <2>1, <2>3, <2>4, RecordAssumption DEF WritesBack, Carries
<1> QED
  BY <1>2, <1>3 DEF FreshCopies

\* One that puts what gives access today, or what it read, or a record
\* whose subscription is cancelled.
LEMMA PutKeepsAccess ==
  ASSUME AccessInv, NEW r \in Requests, NEW user \in Record, rec' = user, req'[r] # req[r],
         \/ AccessState(user) # "expired"
         \/ ~req[r].stale => \/ user = CancelSubscription(rec)
                             \/ rec \in Record => AccessState(user) = AccessState(rec)
  PROVE  AccessIsKept
<1>1. CASE AccessState(user) # "expired"
  <2>1. HasAccess'
    BY <1>1, RecordAssumption DEF HasAccess, AccessState
  <2> QED
    BY <2>1 DEF AccessIsKept
<1>2. CASE req[r].stale
  BY <1>2 DEF AccessIsKept
<1>3. CASE user = CancelSubscription(rec)
  BY <1>3 DEF AccessIsKept
<1>4. CASE rec \in Record => AccessState(user) = AccessState(rec)
  <2>1. HasAccess => rec \in Record
    BY DEF HasAccess, AccessInv, AccountInv, Typed, StoreTyped
  <2>2. HasAccess => HasAccess'
    BY <1>4, <2>1, RecordAssumption DEF HasAccess, AccessState
  <2> QED
    BY <2>2 DEF AccessIsKept
<1> QED
  BY <1>1, <1>2, <1>3, <1>4

LEMMA FreshHasAccess ==
  ASSUME NEW u \in Uids
  PROVE  AccessState(CreateUserFromFirebase(u)) # "expired"
  BY AccountsAssumption DEF CreateUserFromFirebase, AccessState

----------------------------------------------------------------------------
LEMMA AnswerRests ==
  ASSUME AccessInv, NEW r \in Requests, Answer(r)
  PROVE  (\A q \in Requests \ {r} : req'[q] = req[q]) /\ ~WritesBack(req'[r])
<1>1. req' = [req EXCEPT ![r] = Answered(r)]
  BY DEF Answer
<1>2. Answered(r).kind = "none"
  BY AnsweredFields DEF AccessInv
<1>3. req'[r] = Answered(r) /\ \A q \in Requests \ {r} : req'[q] = req[q]
  BY <1>1 DEF AccessInv, AccountInv, Typed, RequestsTyped
<1> QED
  BY <1>2, <1>3 DEF WritesBack, SignIns

LEMMA GoesElsewhere ==
  ASSUME AccessInv, NEW r \in Requests, NEW st, Goto(r, st),
         st \notin {"flag", "align", "touch", "access"}
  PROVE  (\A q \in Requests \ {r} : req'[q] = req[q]) /\ ~WritesBack(req'[r])
<1> DEFINE x == req[r]
<1>1. req' = [req EXCEPT ![r] = [x EXCEPT !.step = st]]
  BY DEF Goto
<1>2. x \in Request
  BY AtRest DEF AccessInv
<1>3. req'[r] = [x EXCEPT !.step = st] /\ \A q \in Requests \ {r} : req'[q] = req[q]
  BY <1>1 DEF AccessInv, AccountInv, Typed, RequestsTyped
<1> HIDE DEF x
<1>4. req'[r].step = st
  BY <1>2, <1>3 DEF Request
<1> QED
  BY <1>3, <1>4 DEF WritesBack

\* Signing up, in and on: whatever changes but the record.
LEMMA RequestsAre ==
  ASSUME AccessInv, NEW r \in Requests
  PROVE  req \in [Requests -> Request] /\ req[r] \in Request /\ Carries(req[r])
  BY AtRest DEF AccessInv, AccountInv, Typed, RequestsTyped

LEMMA SignUpRests ==
  ASSUME AccessInv, NEW r \in Requests,
         SignupFinds(r) \/ SignupAtFirebase(r) \/ SignupMails(r)
  PROVE  FreshCopies' /\ AccessIsKept
<1>1. CASE SignupFinds(r)
  <2>1. rec' = rec /\ (Answer(r) \/ Goto(r, "signupFirebase"))
    BY <1>1 DEF SignupFinds, store
  <2> QED
    BY <2>1, AnswerRests, GoesElsewhere, RecordRests
<1>2. CASE SignupAtFirebase(r)
  <2>1. rec' = rec
    BY <1>2 DEF SignupAtFirebase, store
  <2>2. CASE Answer(r)
    BY <2>1, <2>2, AnswerRests, RecordRests
  <2>3. ASSUME NEW u, req' = [req EXCEPT ![r].step = "create", ![r].fuid = u]
        PROVE  FreshCopies' /\ AccessIsKept
    <3>1. req'[r].step = "create" /\ \A q \in Requests \ {r} : req'[q] = req[q]
      BY <2>3, RequestsAre DEF Request
    <3> QED
      BY <2>1, <3>1, RecordRests DEF WritesBack
  <2> QED
    BY <1>2, <2>2, <2>3 DEF SignupAtFirebase
<1>3. CASE SignupMails(r)
  <2>1. rec' = rec /\ Answer(r)
    BY <1>3 DEF SignupMails
  <2> QED
    BY <2>1, AnswerRests, RecordRests
<1> QED
  BY <1>1, <1>2, <1>3

LEMMA LooksUpRests ==
  ASSUME AccessInv, NEW r \in Requests,
         \/ LoginAtFirebase(r) \/ MigrateFinds(r) \/ MigrateSignsUp(r) \/ LoginLooksUp(r)
         \/ PostVerifyLooksUp(r) \/ VerifyApplies(r) \/ ResetConfirms(r) \/ ResetSignsIn(r)
  PROVE  FreshCopies' /\ AccessIsKept
<1>1. rec' = rec
  BY DEF LoginAtFirebase, MigrateFinds, MigrateSignsUp, LoginLooksUp, PostVerifyLooksUp,
         VerifyApplies, ResetConfirms, ResetSignsIn, store
<1>2. CASE Answer(r)
  BY <1>1, <1>2, AnswerRests, RecordRests
<1>3. ASSUME NEW st \in {"migrate", "migrateSignup", "signin"}, Goto(r, st)
      PROVE  FreshCopies' /\ AccessIsKept
  BY <1>1, <1>3, GoesElsewhere, RecordRests
<1>4. ASSUME NEW st \in {"lookup", "find"}, req'[r].step = st,
             \A q \in Requests \ {r} : req'[q] = req[q]
      PROVE  FreshCopies' /\ AccessIsKept
  BY <1>1, <1>4, RecordRests DEF WritesBack
<1>5. CASE LoginAtFirebase(r)
  <2>1. CASE req' = [req EXCEPT ![r].step = "lookup", ![r].fuid = fb]
    <3>1. req'[r].step = "lookup" /\ \A q \in Requests \ {r} : req'[q] = req[q]
      BY <2>1, RequestsAre DEF Request
    <3> QED
      BY <1>4, <3>1
  <2> QED
    BY <1>2, <1>3, <1>5, <2>1 DEF LoginAtFirebase
<1>6. CASE MigrateFinds(r)
  BY <1>2, <1>3, <1>6 DEF MigrateFinds
<1>7. CASE MigrateSignsUp(r)
  <2>1. ASSUME NEW u,
               req' = [req EXCEPT ![r].step = "lookup", ![r].fuid = u, ![r].migrated = TRUE]
        PROVE  FreshCopies' /\ AccessIsKept
    <3>1. req'[r].step = "lookup" /\ \A q \in Requests \ {r} : req'[q] = req[q]
      BY <2>1, RequestsAre DEF Request
    <3> QED
      BY <1>4, <3>1
  <2> QED
    BY <1>2, <1>7, <2>1 DEF MigrateSignsUp
<1>8. CASE LoginLooksUp(r)
  <2>1. PICK v : req' = [req EXCEPT ![r].step = "find", ![r].verified = v]
    BY <1>8 DEF LoginLooksUp
  <2>2. req'[r].step = "find" /\ \A q \in Requests \ {r} : req'[q] = req[q]
    BY <2>1, RequestsAre DEF Request
  <2> QED
    BY <1>4, <2>2
<1>9. CASE PostVerifyLooksUp(r)
  <2>1. ASSUME NEW t, req' = [req EXCEPT ![r].step = "find", ![r].fuid = fb, ![r].on = t]
        PROVE  FreshCopies' /\ AccessIsKept
    <3>1. req'[r].step = "find" /\ \A q \in Requests \ {r} : req'[q] = req[q]
      BY <2>1, RequestsAre DEF Request
    <3> QED
      BY <1>4, <3>1
  <2> QED
    BY <1>2, <1>9, <2>1 DEF PostVerifyLooksUp
<1>10. ASSUME req' = [req EXCEPT ![r].step = "find", ![r].fuid = fb]
       PROVE  FreshCopies' /\ AccessIsKept
  <2>1. req'[r].step = "find" /\ \A q \in Requests \ {r} : req'[q] = req[q]
    BY <1>10, RequestsAre DEF Request
  <2> QED
    BY <1>4, <2>1
<1>11. CASE VerifyApplies(r)
  BY <1>2, <1>10, <1>11 DEF VerifyApplies
<1>12. CASE ResetConfirms(r)
  BY <1>2, <1>3, <1>12 DEF ResetConfirms
<1>13. CASE ResetSignsIn(r)
  BY <1>2, <1>10, <1>13 DEF ResetSignsIn
<1> QED
  BY <1>5, <1>6, <1>7, <1>8, <1>9, <1>11, <1>12, <1>13

\* The record is read.
LEMMA ReadsRest ==
  ASSUME AccessInv, NEW r \in Requests, FindUserByEmail(r) \/ AdminFinds(r)
  PROVE  FreshCopies' /\ AccessIsKept
<1>1. rec' = rec
  BY DEF FindUserByEmail, AdminFinds, store
<1>2. CASE FindUserByEmail(r)
  <2>1. PICK st : req' = [req EXCEPT ![r].user = rec, ![r].stale = FALSE, ![r].step = st]
    BY <1>2 DEF FindUserByEmail
  <2>2. req'[r].user = rec /\ \A q \in Requests \ {r} : req'[q] = req[q]
    BY <2>1, RequestsAre DEF Request
  <2> QED
    BY <1>1, <2>2, RecordRests
<1>3. CASE AdminFinds(r)
  <2>1. CASE Answer(r)
    BY <1>1, <2>1, AnswerRests, RecordRests
  <2>2. ASSUME NEW d, req' = [req EXCEPT ![r].step = "sweep", ![r].todo = d]
        PROVE  FreshCopies' /\ AccessIsKept
    <3>1. req'[r].step = "sweep" /\ \A q \in Requests \ {r} : req'[q] = req[q]
      BY <2>2, RequestsAre DEF Request
    <3> QED
      BY <1>1, <3>1, RecordRests DEF WritesBack
  <2>3. CASE req' = [req EXCEPT ![r].step = "access", ![r].user = rec, ![r].stale = FALSE]
    <3>1. req'[r].user = rec /\ \A q \in Requests \ {r} : req'[q] = req[q]
      BY <2>3, RequestsAre DEF Request
    <3> QED
      BY <1>1, <3>1, RecordRests
  <2> QED
    BY <1>3, <2>1, <2>2, <2>3 DEF AdminFinds
<1> QED
  BY <1>2, <1>3

LEMMA SessionRests ==
  ASSUME AccessInv, NEW r \in Requests,
         \/ LoginRefused(r) \/ SessionIssued(r) \/ ReadsSession(r) \/ Reauthenticates(r)
         \/ DeletesAtFirebase(r) \/ ListsSessions(r) \/ ReadsTarget(r) \/ SweepEnds(r)
         \/ ChecksAccess(r) \/ PutsSettings(r)
  PROVE  FreshCopies' /\ AccessIsKept
<1>1. rec' = rec
  BY DEF LoginRefused, SessionIssued, ReadsSession, Reauthenticates, DeletesAtFirebase,
         ListsSessions, ReadsTarget, SweepEnds, ChecksAccess, PutsSettings, store
<1>2. CASE Answer(r)
  BY <1>1, <1>2, AnswerRests, RecordRests
<1>3. ASSUME NEW st \in {"list", "write"}, Goto(r, st)
      PROVE  FreshCopies' /\ AccessIsKept
  BY <1>1, <1>3, GoesElsewhere, RecordRests
<1>4. ASSUME req'[r].kind \in WithSession, \A q \in Requests \ {r} : req'[q] = req[q]
      PROVE  FreshCopies' /\ AccessIsKept
  BY <1>1, <1>4, RecordRests DEF WritesBack, WithSession, SignIns
<1>5. CASE ReadsSession(r)
  <2>1. req[r].kind \in WithSession
    BY <1>5 DEF ReadsSession
  <2>2. ASSUME NEW st, NEW d, req' = [req EXCEPT ![r].step = st, ![r].todo = d]
        PROVE  FreshCopies' /\ AccessIsKept
    <3>1. req'[r].kind = req[r].kind /\ \A q \in Requests \ {r} : req'[q] = req[q]
      BY <2>2, RequestsAre DEF Request
    <3> QED
      BY <1>4, <2>1, <3>1
  <2>3. ASSUME NEW st, NEW u, req' = [req EXCEPT ![r].step = st, ![r].uid = u]
        PROVE  FreshCopies' /\ AccessIsKept
    <3>1. req'[r].kind = req[r].kind /\ \A q \in Requests \ {r} : req'[q] = req[q]
      BY <2>3, RequestsAre DEF Request
    <3> QED
      BY <1>4, <2>1, <3>1
  <2> QED
    BY <1>2, <1>5, <2>2, <2>3 DEF ReadsSession
<1>6. CASE Reauthenticates(r)
  <2>1. ASSUME NEW st \in {"fbDelete", "list"}, NEW u,
               req' = [req EXCEPT ![r].fuid = u, ![r].step = st]
        PROVE  FreshCopies' /\ AccessIsKept
    <3>1. req'[r].step = st /\ \A q \in Requests \ {r} : req'[q] = req[q]
      BY <2>1, RequestsAre DEF Request
    <3> QED
      BY <1>1, <3>1, RecordRests DEF WritesBack
  <2> QED
    BY <1>2, <1>6, <2>1 DEF Reauthenticates
<1>7. CASE DeletesAtFirebase(r)
  BY <1>2, <1>3, <1>7 DEF DeletesAtFirebase
<1>8. CASE ListsSessions(r)
  <2>1. PICK m, d : req' = [req EXCEPT ![r] = [Blank EXCEPT !.kind = req[r].kind,
                              !.step = "sweep", !.must = m, !.todo = d]]
    BY <1>8 DEF ListsSessions
  <2>2. req'[r].step = "sweep" /\ \A q \in Requests \ {r} : req'[q] = req[q]
    BY <2>1, RequestsAre, BlankFields DEF Request
  <2> QED
    BY <1>1, <2>2, RecordRests DEF WritesBack
<1>9. CASE ReadsTarget(r)
  <2>1. ASSUME NEW d, req' = [req EXCEPT ![r] = [Blank EXCEPT !.kind = "revoke",
                                                     !.step = "sweep", !.todo = d]]
        PROVE  FreshCopies' /\ AccessIsKept
    <3>1. req'[r].step = "sweep" /\ \A q \in Requests \ {r} : req'[q] = req[q]
      BY <2>1, RequestsAre, BlankFields DEF Request
    <3> QED
      BY <1>1, <3>1, RecordRests DEF WritesBack
  <2> QED
    BY <1>2, <1>9, <2>1 DEF ReadsTarget
<1>10. CASE ChecksAccess(r)
  BY <1>2, <1>3, <1>10 DEF ChecksAccess
<1>11. CASE LoginRefused(r) \/ SessionIssued(r) \/ SweepEnds(r) \/ PutsSettings(r)
  BY <1>2, <1>11 DEF LoginRefused, SessionIssued, SweepEnds, PutsSettings
<1> QED
  BY <1>5, <1>6, <1>7, <1>8, <1>9, <1>10, <1>11

----------------------------------------------------------------------------
(* The record is written.                                                  *)
LEMMA StepIsTaken ==
  ASSUME NEW x \in Request, NEW st, x.step # st
  PROVE  /\ [x EXCEPT !.step = st].step = st
         /\ \A u : /\ [x EXCEPT !.user = u, !.step = st].step = st
                  /\ [x EXCEPT !.user = u, !.step = st].user = u
  BY DEF Request

LEMMA CreationsKeepAccess ==
  ASSUME AccessInv, NEW r \in Requests, SignupCreates(r) \/ CreatesUser(r)
  PROVE  FreshCopies' /\ AccessIsKept
<1> DEFINE x == req[r]
           user == CreateUserFromFirebase(x.fuid)
<1>1. /\ x \in Request /\ Carries(x) /\ x.step = "create"
      /\ x.kind = "signup" \/ x.kind \in SignIns
  BY RequestsAre DEF SignupCreates, CreatesUser, At
<1>2. x.fuid \in Uids
  BY <1>1 DEF Carries, Uids, SignIns
<1>3. user \in Record /\ AccessState(user) # "expired"
  BY <1>2, FreshRecord, FreshHasAccess
<1> HIDE DEF user
<1>4. CASE SignupCreates(r)
  <2> DEFINE n == [x EXCEPT !.step = "mail"]
  <2>1. PutUser(r, user, n)
    BY <1>4 DEF SignupCreates, user
  <2>2. n.step = "mail"
    BY <1>1, StepIsTaken
  <2> HIDE DEF n
  <2>3. FreshCopies' /\ rec' = user /\ req'[r] = n
    BY <2>1, <2>2, RecordIsPut DEF WritesBack
  <2> QED
    BY <1>1, <1>3, <2>2, <2>3, PutKeepsAccess
<1>5. CASE CreatesUser(r)
  <2> DEFINE st == IF x.migrated THEN "flag" ELSE "touch"
             n == [x EXCEPT !.user = user, !.step = st]
  <2>1. PutUser(r, user, n)
    BY <1>5 DEF CreatesUser, user
  <2>2. n.user = user /\ n.step # "create"
    BY <1>1, StepIsTaken
  <2> HIDE DEF n
  <2>3. FreshCopies' /\ rec' = user /\ req'[r] = n
    BY <2>1, <2>2, RecordIsPut
  <2> QED
    BY <1>1, <1>3, <2>2, <2>3, PutKeepsAccess
<1> QED
  BY <1>4, <1>5

\* The flag and the uid have nothing to do with access.
LEMMA RewritesKeepAccess ==
  ASSUME AccessInv, NEW r \in Requests, FlagsUser(r) \/ AlignsUser(r)
  PROVE  FreshCopies' /\ AccessIsKept
<1> DEFINE x == req[r]
<1>1. x \in Request /\ Carries(x) /\ x.step # "touch" /\ WritesBack(x) /\ x.kind \in SignIns
      /\ x.step \in {"flag", "align"}
  BY RequestsAre DEF FlagsUser, AlignsUser, At, WritesBack, SignIns
<1>2. x.user \in Record
  BY <1>1 DEF Carries
<1>3. ~x.stale => x.user = rec
  BY <1>1 DEF AccessInv, FreshCopies
<1>4. PICK user : /\ PutUser(r, user, [x EXCEPT !.user = user, !.step = "touch"])
                  /\ user \in Record /\ AccessState(user) = AccessState(x.user)
  <2>1. CASE FlagsUser(r)
    <3> DEFINE user == [x.user EXCEPT !.legacy = TRUE]
    <3>1. PutUser(r, user, [x EXCEPT !.user = user, !.step = "touch"])
      BY <2>1 DEF FlagsUser
    <3>2. user \in Record /\ user.sub = x.user.sub /\ user.trial = x.user.trial
      BY <1>2 DEF Record
    <3> QED
      BY <3>1, <3>2 DEF AccessState
  <2>2. CASE AlignsUser(r)
    <3> DEFINE user == Aligned(r)
               y == x.user
               u == x.fuid
               l == y.legacy \/ x.kind # "postVerify"
    <3>1. PutUser(r, user, [x EXCEPT !.user = user, !.step = "touch"])
      BY <2>2 DEF AlignsUser
    <3>2. user = [y EXCEPT !.uid = u, !.hash = FALSE, !.legacy = l]
      BY DEF Aligned
    <3>3. u \in Uids /\ l \in BOOLEAN /\ y \in Record
      <4>1. x.fuid \in Uids
        BY <1>1 DEF Carries, Uids
      <4>2. x.user.legacy \in BOOLEAN
        BY <1>2 DEF Record
      <4> QED
        BY <1>2, <4>1, <4>2
    <3> HIDE DEF user, y, u, l
    <3>4. user \in Record /\ user.sub = y.sub /\ user.trial = y.trial
      BY <3>2, <3>3 DEF Record
    <3> QED
      BY <3>1, <3>4 DEF AccessState, y
  <2> QED
    BY <2>1, <2>2
<1> DEFINE n == [x EXCEPT !.user = user, !.step = "touch"]
<1>5. n.user = user /\ n.step = "touch"
  BY <1>1, StepIsTaken
<1>6. PutUser(r, user, n)
  BY <1>4
<1> HIDE DEF n
<1>7. FreshCopies' /\ rec' = user /\ req'[r] = n
  BY <1>5, <1>6, RecordIsPut
<1> QED
  BY <1>1, <1>3, <1>4, <1>5, <1>7, PutKeepsAccess

LEMMA TouchKeepsAccess ==
  ASSUME AccessInv, NEW r \in Requests, TouchLastLogin(r)
  PROVE  FreshCopies' /\ AccessIsKept
<1> DEFINE x == req[r]
           n == [Blank EXCEPT !.kind = x.kind, !.step = "issue", !.on = x.on, !.fuid = x.fuid,
                              !.todo = SessionPuts(r, x.user.uid)]
<1>1. x.user \in Record /\ x.step = "touch" /\ x.kind \in SignIns
  BY TouchFields DEF AccessInv
<1>2. ~x.stale => x.user = rec
  BY <1>1 DEF AccessInv, FreshCopies, WritesBack
<1>3. PutUser(r, x.user, n) \/ (req' = [req EXCEPT ![r] = n] /\ rec' = rec)
  BY DEF TouchLastLogin
<1>4. n.step = "issue"
  BY BlankFields DEF Request
<1> HIDE DEF n
<1>5. CASE PutUser(r, x.user, n)
  <2>1. FreshCopies' /\ rec' = x.user /\ req'[r] = n
    BY <1>4, <1>5, RecordIsPut DEF WritesBack
  <2> QED
    BY <1>1, <1>2, <1>4, <2>1, PutKeepsAccess
<1>6. CASE req' = [req EXCEPT ![r] = n] /\ rec' = rec
  <2>1. req'[r] = n /\ \A q \in Requests \ {r} : req'[q] = req[q]
    BY <1>6, RequestsAre
  <2> QED
    BY <1>4, <1>6, <2>1, RecordRests DEF WritesBack
<1> QED
  BY <1>3, <1>5, <1>6

\* What the admin grants lasts beyond today; only a cancellation takes.
LEMMA AdminKeepsAccess ==
  ASSUME AccessInv, NEW r \in Requests, AdminWrites(r)
  PROVE  FreshCopies' /\ AccessIsKept
<1> DEFINE x == req[r].user
<1>1. Carries(req[r]) /\ req[r].kind = "adminAccess" /\ req[r].step = "access"
  BY RequestsAre DEF AdminWrites, At
<1>2. x \in Record /\ (~req[r].stale => x = rec)
  BY <1>1 DEF Carries, AccessInv, FreshCopies, WritesBack
<1>3. PICK user \in {ExtendTrial(x), ResetTrial(x), GrantSubscription(x), CancelSubscription(x)} :
             PutUser(r, user, Answered(r))
  BY DEF AdminWrites
<1>4. Answered(r).kind = "none" /\ Answered(r).step = "done"
  BY AnsweredFields DEF AccessInv
<1>5. FreshCopies' /\ rec' = user /\ req'[r] = Answered(r)
  BY <1>3, <1>4, RecordIsPut DEF WritesBack, SignIns
<1> HIDE DEF x
<1>6. /\ user \in Record
      /\ AccessState(user) # "expired" \/ user = CancelSubscription(x)
  <2>1. CASE user = ExtendTrial(x)
    <3>1. user \in Record /\ user.trial = Today + GrantDays - TrialDays
      BY <1>2, <2>1, AccountsAssumption DEF ExtendTrial, Record
    <3> QED
      BY <3>1, AccountsAssumption DEF AccessState
  <2>2. CASE user = ResetTrial(x)
    <3>1. user \in Record /\ user.trial = Today
      BY <1>2, <2>2, AccountsAssumption DEF ResetTrial, Record
    <3> QED
      BY <3>1, AccountsAssumption DEF AccessState
  <2>3. CASE user = GrantSubscription(x)
    <3> DEFINE v == (IF x.sub > Today THEN x.sub ELSE Today) + GrantDays
    <3>1. user = [x EXCEPT !.sub = v]
      BY <2>3 DEF GrantSubscription
    <3>2. v \in Nat /\ Today < v
      BY <1>2, AccountsAssumption DEF Record
    <3> HIDE DEF v
    <3>3. user \in Record /\ user.sub = v
      BY <1>2, <3>1, <3>2 DEF Record
    <3> QED
      BY <3>2, <3>3 DEF AccessState
  <2>4. CASE user = CancelSubscription(x)
    BY <1>2, <2>4 DEF CancelSubscription, Record
  <2> QED
    BY <1>3, <2>1, <2>2, <2>3, <2>4 DEF x
<1> QED
  BY <1>1, <1>2, <1>4, <1>5, <1>6, PutKeepsAccess

----------------------------------------------------------------------------
LEMMA WritesUnderWayRest ==
  ASSUME AccessInv, NEW r \in Requests, Lands(r) \/ DeleteFails(r)
  PROVE  FreshCopies' /\ AccessIsKept
<1>1. PICK o \in req[r].todo :
        \/ PutsSession(r, o) \/ PutsIndex(r, o) \/ ReadsToDestroy(r, o)
        \/ DeletesSession(r, o) \/ DeletesIndex(r, o) \/ DeletesUser(r, o) \/ DeletesBlob(r, o)
        \/ Done(r, o) /\ UNCHANGED store
  BY DEF Lands, DeleteFails
<1>2. req[r].step \in {"issue", "sweep"}
  BY UnderWay DEF AccessInv
<1>3. ASSUME NEW d, req' = [req EXCEPT ![r].todo = d], rec' = rec
      PROVE  FreshCopies' /\ AccessIsKept
  <2>1. req'[r].step = req[r].step /\ \A q \in Requests \ {r} : req'[q] = req[q]
    BY <1>3, RequestsAre DEF Request
  <2> QED
    BY <1>2, <1>3, <2>1, RecordRests DEF WritesBack
<1>4. CASE DeletesUser(r, o)
  <2> DEFINE n == [req[r] EXCEPT !.todo = req[r].todo \ {o}]
  <2>1. PutUser(r, NoRecord, n)
    BY <1>4 DEF DeletesUser
  <2>2. n.step = req[r].step
    BY RequestsAre DEF Request
  <2> HIDE DEF n
  <2> QED
    BY <1>2, <2>1, <2>2, RecordIsPut DEF WritesBack, AccessIsKept
<1>5. CASE ReadsToDestroy(r, o)
  BY <1>3, <1>5 DEF ReadsToDestroy
<1>6. CASE ~DeletesUser(r, o) /\ ~ReadsToDestroy(r, o)
  <2>1. Done(r, o) /\ rec' = rec
    BY <1>1, <1>6 DEF PutsSession, PutsIndex, DeletesSession, DeletesIndex, DeletesBlob, store
  <2> QED
    BY <1>3, <2>1 DEF Done
<1> QED
  BY <1>4, <1>5, <1>6

LEMMA RequestsComeAndGo ==
  ASSUME AccessInv, NEW r \in Requests, Dies(r) \/ \E kind \in Kinds : Arrives(r, kind)
  PROVE  FreshCopies' /\ AccessIsKept
<1>1. rec' = rec
  BY DEF Dies, Arrives, store
<1>2. CASE Dies(r)
  <2>1. req' = [req EXCEPT ![r] = [Blank EXCEPT !.step = "done"]]
    BY <1>2 DEF Dies
  <2>2. req'[r].step = "done" /\ \A q \in Requests \ {r} : req'[q] = req[q]
    BY <2>1, RequestsAre, BlankFields DEF Request
  <2> QED
    BY <1>1, <2>2, RecordRests DEF WritesBack
<1>3. ASSUME NEW kind \in Kinds, Arrives(r, kind) PROVE FreshCopies' /\ AccessIsKept
  <2> DEFINE u == IF kind = "google" THEN GoogleUid ELSE NoUid
  <2>1. PICK s \in (IF kind \in WithSession THEN issued ELSE {NoSid}),
             o \in (IF kind = "revoke" THEN issued ELSE {NoSid}) :
          req' = [req EXCEPT ![r] = [Blank EXCEPT !.kind = kind, !.step = FirstStep(kind),
                                                  !.sid = s, !.on = o, !.fuid = u]]
    BY <1>3 DEF Arrives
  <2>2. req'[r].step = FirstStep(kind) /\ \A q \in Requests \ {r} : req'[q] = req[q]
    BY <2>1, RequestsAre, BlankFields DEF Request
  <2>3. FirstStep(kind) \notin {"flag", "align", "touch", "access"}
    BY DEF FirstStep, Kinds, SignIns, WithSession
  <2> QED
    BY <1>1, <2>2, <2>3, RecordRests DEF WritesBack
<1> QED
  BY <1>2, <1>3

LEMMA StepAccess == AccessInv /\ [Next]_vars => AccessInv' /\ AccessIsKept
<1> SUFFICES ASSUME AccessInv, [Next]_vars PROVE AccessInv' /\ AccessIsKept
  OBVIOUS
<1>1. AccountInv'
  BY StepAccounts DEF AccessInv
<1>2. ASSUME NEW r \in Requests, Step(r) PROVE FreshCopies' /\ AccessIsKept
  BY <1>2, SignUpRests, LooksUpRests, ReadsRest, SessionRests, CreationsKeepAccess,
     RewritesKeepAccess, TouchKeepsAccess, AdminKeepsAccess, WritesUnderWayRest DEF Step
<1>3. ASSUME NEW r \in Requests, DeleteFails(r) \/ Dies(r) PROVE FreshCopies' /\ AccessIsKept
  BY <1>3, WritesUnderWayRest, RequestsComeAndGo
<1>4. ASSUME NEW r \in Requests, NEW kind \in Kinds, Arrives(r, kind)
      PROVE  FreshCopies' /\ AccessIsKept
  BY <1>4, RequestsComeAndGo
<1>5. ASSUME UNCHANGED <<rec, req>> PROVE FreshCopies' /\ AccessIsKept
  BY <1>5 DEF AccessInv, FreshCopies, AccessIsKept, HasAccess, AccessState
<1>6. CASE (\E link \in {"verify", "reset"} : SendsLink(link)) \/ VerifiesAtFirebase
  BY <1>1, <1>5, <1>6 DEF SendsLink, VerifiesAtFirebase, store, AccessInv
<1>7. CASE UNCHANGED vars
  BY <1>1, <1>5, <1>7 DEF vars, AccessInv
<1> QED
  BY <1>1, <1>2, <1>3, <1>4, <1>6, <1>7 DEF Next, AccessInv

(* Access the user has today ends by a cancellation, a deletion, or the    *)
(* write of a request that read the record before another one wrote it.    *)
THEOREM AccessIsTakenByDesign == Spec => AccessEndsByDesign
<1>1. Init => AccessInv
  <2>1. Init => FreshCopies
    BY BlankFields DEF Init, FreshCopies, WritesBack, SignIns
  <2> QED
    BY <2>1, InitAccounts DEF AccessInv
<1>2. AccessInv /\ [Next]_vars =>
        [HasAccess /\ ~HasAccess' =>
           \/ rec' = NoRecord
           \/ rec' = CancelSubscription(rec)
           \/ \E r \in Requests : req[r].stale /\ req'[r] # req[r]]_vars
  BY StepAccess DEF AccessIsKept
<1>3. AccessInv /\ [Next]_vars => AccessInv'
  BY StepAccess
<1> QED
  BY <1>1, <1>2, <1>3, PTL DEF Spec, AccessEndsByDesign
==============================================================================
