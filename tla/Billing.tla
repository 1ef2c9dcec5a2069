-------------------------------- MODULE Billing ---------------------------------
(***************************************************************************)
(* Billing: one address pays through Stripe.  A checkout looks for a       *)
(* customer of that address, or creates one, and opens a session for it;   *)
(* what is paid there is a subscription, of whose fate Stripe tells the    *)
(* webhook in events.  Events are delivered in any order and until they    *)
(* are acknowledged, sometimes more often; each instance of the worker     *)
(* remembers which it has seen.                                            *)
(*                                                                         *)
(* apps/web/src/app/api/billing/*/route.ts, lib/stripe.ts,                 *)
(* app/tv/account/plans/page.tsx                                           *)
(***************************************************************************)
EXTENDS Naturals, FiniteSets

CONSTANTS
    Checkouts,    \* each opens one session and creates one customer at most
    Earlier,      \* a customer from before, whose subscription has ended
    NoCustomer,
    Workers,      \* instances the webhook runs on
    Events,       \* bound: ids of events
    Deliveries,   \* bound: deliveries whose handler is running
    MaxFailures   \* bound: calls to Stripe that fail, instances that restart

ASSUME BillingAssumption ==
    /\ Earlier \notin Checkouts /\ NoCustomer \notin Checkouts \cup {Earlier}
    /\ Workers # {} /\ Events # {}
    /\ MaxFailures \in Nat

VARIABLES
    customer,       \* Stripe: customers of the address, named for the checkout that made them
    subscription,   \* Stripe: what was subscribed to in the session of each checkout
    checkout,       \* POST /api/billing/checkout and the session it opened
    event,          \* Stripe: events, and whether they were acknowledged
    delivery,       \* POST /api/billing/webhook
    seen,           \* SEEN of each instance
    failures,
    handled,        \* history: events some handler has applied
    raced           \* history: events of which a duplicate came while one was handled

stripe == <<customer, subscription>>
billingVars == <<stripe, checkout, event, delivery, seen, failures, handled, raced>>

Customers == Checkouts \cup {Earlier}
Plans == {"single", "multi"}
LiveStatus == {"active", "trialing", "past_due"}
Statuses == LiveStatus \cup {"none", "canceled"}
States == Statuses \cup {"inactive"}
DevicesMax(plan) == IF plan = "multi" THEN 4 ELSE 1

NoEvent == [type |-> "none", of |-> NoCustomer, status |-> "none", plan |-> "single", acked |-> FALSE]
Idle == [step |-> "idle", event |-> NoEvent, id |-> CHOOSE e \in Events : TRUE,
         worker |-> CHOOSE w \in Workers : TRUE, plan |-> "single"]

Customer == [exists : BOOLEAN, found : BOOLEAN, state : States,
             plan : Plans, sub : Checkouts \cup {NoCustomer}]
Subscription == [of : Customers \cup {NoCustomer}, status : Statuses, plan : Plans, price : Plans]
Checkout == [step : {"idle", "search", "create", "open", "session", "over"},
             plan : Plans, for : Customers \cup {NoCustomer}]
Event == [type : {"completed", "updated", "deleted"}, of : Checkouts,
          status : Statuses, plan : Plans, acked : BOOLEAN] \cup {NoEvent}
Delivery == [step : {"retrieve", "update"}, event : Event \ {NoEvent}, id : Events,
             worker : Workers, plan : Plans] \cup {Idle}

BillingTypeOK ==
    /\ customer \in [Customers -> Customer]
    /\ subscription \in [Checkouts -> Subscription]
    /\ checkout \in [Checkouts -> Checkout]
    /\ event \in [Events -> Event]
    /\ delivery \in [Deliveries -> Delivery]
    /\ seen \in [Workers -> SUBSET Events]
    /\ failures \in 0 .. MaxFailures
    /\ handled \subseteq Events /\ raced \subseteq Events

BillingInit ==
    /\ \E returns \in BOOLEAN :
          customer = [c \in Customers |->
             [exists |-> returns /\ c = Earlier, found |-> returns /\ c = Earlier,
              state |-> IF returns /\ c = Earlier THEN "canceled" ELSE "none",
              plan |-> "single", sub |-> NoCustomer]]
    /\ subscription = [c \in Checkouts |-> [of |-> NoCustomer, status |-> "none",
                                            plan |-> "single", price |-> "single"]]
    /\ checkout = [c \in Checkouts |-> [step |-> "idle", plan |-> "single", for |-> NoCustomer]]
    /\ event = [e \in Events |-> NoEvent]
    /\ delivery = [d \in Deliveries |-> Idle]
    /\ seen = [w \in Workers |-> {}]
    /\ failures = 0
    /\ handled = {} /\ raced = {}

Fails == failures < MaxFailures /\ failures' = failures + 1
Webhook == <<event, delivery, seen, handled, raced>>

----------------------------------------------------------------------------
(* POST /api/billing/checkout: findOrCreateCustomer, then the session.     *)

Found == {c \in Customers : customer[c].found}

Start(c) ==
    /\ checkout[c].step = "idle"
    /\ \E plan \in Plans : checkout' = [checkout EXCEPT ![c].step = "search", ![c].plan = plan]
    /\ UNCHANGED <<stripe, Webhook, failures>>

Search(c) ==
    /\ checkout[c].step = "search"
    /\ IF Found = {} THEN checkout' = [checkout EXCEPT ![c].step = "create"]
       ELSE \E k \in Found : checkout' = [checkout EXCEPT ![c].step = "open", ![c].for = k]
    /\ UNCHANGED <<stripe, Webhook, failures>>

CreateCustomer(c) ==
    /\ checkout[c].step = "create"
    /\ customer' = [customer EXCEPT ![c].exists = TRUE]
    /\ checkout' = [checkout EXCEPT ![c].step = "open", ![c].for = c]
    /\ UNCHANGED <<subscription, Webhook, failures>>

OpenSession(c) ==
    /\ checkout[c].step = "open"
    /\ checkout' = [checkout EXCEPT ![c].step = "session"]
    /\ UNCHANGED <<stripe, Webhook, failures>>

CheckoutFails(c) ==
    /\ checkout[c].step \in {"search", "create", "open"} /\ Fails
    /\ checkout' = [checkout EXCEPT ![c].step = "over"]
    /\ UNCHANGED <<stripe, Webhook>>

----------------------------------------------------------------------------
(* Stripe.                                                                 *)

Unused == {e \in Events : event[e] = NoEvent}
Emit(type, c) ==
    /\ Unused # {}
    /\ event' = [event EXCEPT ![CHOOSE e \in Events : e \in Unused] =
          [type |-> type, of |-> c, acked |-> FALSE,
           status |-> subscription'[c].status, plan |-> subscription'[c].plan]]
Elsewhere == UNCHANGED <<customer, delivery, seen, failures, handled, raced>>

(* A new customer can be searched for after some time.                     *)
Indexes(c) ==
    /\ customer[c].exists /\ ~customer[c].found
    /\ customer' = [customer EXCEPT ![c].found = TRUE]
    /\ UNCHANGED <<subscription, checkout, Webhook, failures>>

Completes(c) ==
    /\ checkout[c].step = "session"
    /\ checkout' = [checkout EXCEPT ![c].step = "over"]
    /\ subscription' = [subscription EXCEPT ![c] =
          [of |-> checkout[c].for, status |-> "trialing", plan |-> checkout[c].plan,
           price |-> checkout[c].plan]]
    /\ Emit("completed", c)
    /\ Elsewhere

(* The trial ends, a payment fails, the customer takes another price in    *)
(* the portal (the metadata of the subscription stays), or cancels.        *)
Changes(c) ==
    /\ subscription[c].status \in LiveStatus
    /\ \/ /\ subscription' = [subscription EXCEPT ![c].status =
                                IF @ = "active" THEN "past_due" ELSE "active"]
          /\ Emit("updated", c)
       \/ /\ \E plan \in Plans \ {subscription[c].price} :
                subscription' = [subscription EXCEPT ![c].price = plan]
          /\ Emit("updated", c)
       \/ /\ subscription' = [subscription EXCEPT ![c].status = "canceled"]
          /\ Emit("deleted", c)
    /\ UNCHANGED checkout
    /\ Elsewhere

----------------------------------------------------------------------------
(* POST /api/billing/webhook.                                              *)

InHand(w, e) ==
    \E d \in Deliveries : delivery[d].step # "idle" /\ delivery[d].worker = w /\ delivery[d].id = e

(* The answer: what it says may be lost, and Stripe sends the event again. *)
Acknowledge(e) == event' \in {event, [event EXCEPT ![e].acked = TRUE]}

SeenEvent(w, e) == e \in seen[w]

(* Another worker, or this one, is given an event for the first time or    *)
(* again.                                                                  *)
Duplicate(w, e) ==
    /\ event[e] # NoEvent /\ SeenEvent(w, e)
    /\ Acknowledge(e)
    /\ raced' = IF InHand(w, e) THEN raced \cup {e} ELSE raced
    /\ UNCHANGED <<stripe, checkout, delivery, seen, failures, handled>>

Deliver(d, w, e) ==
    /\ delivery[d].step = "idle"
    /\ event[e] # NoEvent /\ ~SeenEvent(w, e)
    /\ seen' = [seen EXCEPT ![w] = @ \cup {e}]
    /\ delivery' = [delivery EXCEPT ![d] =
          [step |-> IF event[e].type = "completed" THEN "retrieve" ELSE "update",
           event |-> [event[e] EXCEPT !.acked = FALSE], id |-> e, worker |-> w,
           plan |-> event[e].plan]]
    /\ UNCHANGED <<stripe, checkout, event, failures, handled, raced>>

(* checkout.session.completed: the subscription as it is by now.           *)
Retrieve(d) ==
    /\ delivery[d].step = "retrieve"
    /\ delivery' = [delivery EXCEPT ![d].step = "update",
                                    ![d].plan = subscription[delivery[d].event.of].plan]
    /\ UNCHANGED <<stripe, checkout, event, seen, failures, handled, raced>>

NovaState(ev) ==
    IF ev.type = "completed" THEN "active"
    ELSE IF ev.type = "deleted" THEN "canceled"
    ELSE IF ev.status \in LiveStatus THEN ev.status ELSE "inactive"

Flagged(d) ==
    LET ev == delivery[d].event
        k == subscription[ev.of].of
    IN  [customer EXCEPT ![k].state = NovaState(ev), ![k].sub = ev.of,
                         ![k].plan = IF ev.type = "deleted" THEN @ ELSE delivery[d].plan]

Update(d) ==
    /\ delivery[d].step = "update"
    /\ customer' = Flagged(d)
    /\ handled' = handled \cup {delivery[d].id}
    /\ delivery' = [delivery EXCEPT ![d] = Idle]
    /\ Acknowledge(delivery[d].id)
    /\ UNCHANGED <<subscription, checkout, seen, failures, raced>>

(* A call throws, before Stripe acted or after: 500, and the claim of the  *)
(* event is given up.                                                      *)
KeepsEvent(d) == UNCHANGED seen
ForgetEvent(d) == seen' = [seen EXCEPT ![delivery[d].worker] = @ \ {delivery[d].id}]
HandleFails(d) ==
    /\ delivery[d].step \in {"retrieve", "update"} /\ Fails
    /\ customer' \in {customer} \cup
          (IF delivery[d].step = "update" THEN {Flagged(d)} ELSE {})
    /\ delivery' = [delivery EXCEPT ![d] = Idle]
    /\ ForgetEvent(d)
    /\ UNCHANGED <<subscription, checkout, event, handled, raced>>

(* An instance goes, with what it was handling; an entry lapses, which     *)
(* takes longer than a handler does.                                       *)
ColdStart(w) ==
    /\ seen[w] # {} /\ Fails
    /\ seen' = [seen EXCEPT ![w] = {}]
    /\ delivery' = [d \in Deliveries |-> IF delivery[d].worker = w THEN Idle ELSE delivery[d]]
    /\ UNCHANGED <<stripe, checkout, event, handled, raced>>

Lapse(w, e) ==
    /\ e \in seen[w] /\ ~InHand(w, e)
    /\ seen' = [seen EXCEPT ![w] = @ \ {e}]
    /\ UNCHANGED <<stripe, checkout, event, delivery, failures, handled, raced>>

BillingNext ==
    \/ \E c \in Checkouts :
          Start(c) \/ Search(c) \/ CreateCustomer(c) \/ OpenSession(c) \/ CheckoutFails(c)
          \/ Indexes(c) \/ Completes(c) \/ Changes(c)
    \/ \E w \in Workers, e \in Events :
          Duplicate(w, e) \/ Lapse(w, e) \/ \E d \in Deliveries : Deliver(d, w, e)
    \/ \E d \in Deliveries : Retrieve(d) \/ Update(d) \/ HandleFails(d)
    \/ \E w \in Workers : ColdStart(w)

BillingSpec == BillingInit /\ [][BillingNext]_billingVars

----------------------------------------------------------------------------
(* GET /api/billing/status, by the customer k that the search found.       *)
Status(k) ==
    LET active == {c \in Checkouts : subscription[c].of = k /\ subscription[c].status \in LiveStatus}
    IN  IF k = NoCustomer THEN [state |-> "none"]
        ELSE IF active = {} THEN [state |-> "inactive"]
        ELSE LET c == CHOOSE x \in active : TRUE
             IN  [state |-> subscription[c].status, plan |-> subscription[c].plan,
                  devicesMax |-> DevicesMax(subscription[c].plan)]

(* What Stripe takes for delivered was applied to the customer, although   *)
(* handlers fail, instances restart, answers are lost and events come      *)
(* again: except an event of which a duplicate came while it was handled,  *)
(* which is acknowledged although that handler may yet fail.               *)
AcknowledgedIsHandled == \A e \in Events : event[e].acked => e \in handled \/ e \in raced

(* webhook/route.ts:71 "leaving it in place would make Stripe's retry ..   *)
(* 200 as a duplicate - silently dropping the state change the retry       *)
(* exists to deliver": it is dropped while the entry is in place.          *)
NothingIsDropped ==
    \A e \in Events : event[e].acked => e \in handled \/ \E w \in Workers : InHand(w, e)

(* webhook/route.ts:88 "a duplicate causes no harm even when the cache     *)
(* misses": one that is applied after a later event undoes it.             *)
DuplicateDoesNoHarm ==
    [][\A d \in Deliveries : Update(d) /\ delivery[d].id \in handled => UNCHANGED customer]_billingVars

(* stripe.ts:76 "Look up an existing customer by email, or create one":    *)
(* two checkouts find none, because they search at once or because one is  *)
(* not indexed yet, and the status is then that of either.                 *)
OneCustomer == Cardinality({c \in Customers : customer[c].exists}) <= 1

(* portal/route.ts:4 "switch between Single and Multi": the plan that is   *)
(* shown, and the devices it allows, are those of the checkout.            *)
PlanIsThePrice ==
    \A c \in Checkouts : subscription[c].status \in LiveStatus => subscription[c].plan = subscription[c].price
=============================================================================
