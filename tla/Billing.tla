------------------------------- MODULE Billing ------------------------------
(***************************************************************************)
(* billing.service for one organization: checkouts, which create the       *)
(* customer at Stripe and store it, and the webhook.  Stripe is external:  *)
(* it numbers its events as they happen and delivers each until it is      *)
(* accepted, in any order.  Plan, seats and periods are data that come     *)
(* with the same statements as the status.                                 *)
(***************************************************************************)
EXTENDS Requests

CONSTANT MaxEvents   \* bound: events that happen at Stripe

None == 0

VARIABLES
    row,        \* the subscriptions row: [customer, sub, status]
    customers,  \* Stripe: its customers for the organization, by the request that created them
    checkouts,  \* Stripe: customers with a checkout session that is open
    subs,       \* Stripe: its subscriptions, [customer, status] each
    events,     \* Stripe: what happened: [type, sub, customer, status]
    due,        \* Stripe: events, by number, that are not accepted yet
    disorder    \* history: an event was handled before or beside an earlier one

vars == <<requests, row, customers, checkouts, subs, events, due, disorder>>
stripe == <<customers, checkouts, subs, events, due>>

\* The row that register creates.
Init ==
    /\ RequestsInit
    /\ row = [customer |-> None, sub |-> None, status |-> "trialing"]
    /\ customers = {} /\ checkouts = {} /\ subs = <<>> /\ events = <<>> /\ due = {}
    /\ disorder = FALSE

-----------------------------------------------------------------------------
\* createCheckoutSession.

Checkout ==
    /\ Arrive([id |-> begun + 1, op |-> "checkout", event |-> None, customer |-> None,
               found |-> row, todo |-> <<"find", "customer", "store", "session">>])
    /\ UNCHANGED <<row, stripe, disorder>>

FindRow(r) ==
    /\ r.op = "checkout" /\ IsAt(r, "find")
    /\ GoOnAs(r, [r EXCEPT !.customer = row.customer])
    /\ UNCHANGED <<row, stripe, disorder>>

CreateCustomer(r) ==
    /\ IsAt(r, "customer")
    /\ IF r.customer = None
         THEN customers' = customers \cup {r.id} /\ GoOnAs(r, [r EXCEPT !.customer = r.id])
         ELSE GoOnAs(r, [r EXCEPT !.todo = <<"customer", "session">>]) /\ UNCHANGED customers
    /\ UNCHANGED <<row, checkouts, subs, events, due, disorder>>

StoreCustomer(r) ==
    /\ IsAt(r, "store") /\ GoOn(r)
    /\ row' = [row EXCEPT !.customer = r.customer]
    /\ UNCHANGED <<stripe, disorder>>

CreateSession(r) ==
    /\ IsAt(r, "session") /\ GoOn(r)
    /\ checkouts' = checkouts \cup {r.customer}
    /\ UNCHANGED <<row, customers, subs, events, due, disorder>>

-----------------------------------------------------------------------------
\* Stripe.

Happens(es) ==
    /\ Len(events) + Len(es) <= MaxEvents
    /\ events' = events \o es
    /\ due' = due \cup (Len(events) + 1 .. Len(events) + Len(es))

Event(type, s, c, st) == [type |-> type, sub |-> s, customer |-> c, status |-> st]

Completed(c) ==
    /\ c \in checkouts /\ checkouts' = checkouts \ {c}
    /\ subs' = Append(subs, [customer |-> c, status |-> "active"])
    /\ Happens(<<Event("completed", Len(subs) + 1, c, "active")>>)
    /\ UNCHANGED <<requests, row, customers, disorder>>

Becomes(s, st) ==
    /\ subs[s].status \notin {st, "canceled"}
    /\ subs' = [subs EXCEPT ![s].status = st]
    /\ LET c == subs[s].customer
       IN  Happens(CASE st = "canceled" -> <<Event("deleted", s, c, st)>>
                     [] st = "past_due" -> <<Event("payment_failed", s, c, st),
                                             Event("updated", s, c, st)>>
                     [] OTHER -> <<Event("updated", s, c, st)>>)
    /\ UNCHANGED <<requests, row, customers, checkouts, disorder>>

-----------------------------------------------------------------------------
\* handleWebhook.

Awaits(type) == IF type = "completed" THEN <<"complete">> ELSE <<"find", "update">>

Deliver(n) ==
    /\ Arrive([id |-> begun + 1, op |-> "event", event |-> n, customer |-> None,
               found |-> row, todo |-> Awaits(events[n].type)])
    /\ disorder' = (disorder \/ (\E e \in due : e < n) \/ (\E r \in flight : r.op = "event"))
    /\ UNCHANGED <<row, stripe>>

Accepted(r) == due' = due \ {r.event}

CheckoutCompleted(r) ==
    /\ IsAt(r, "complete") /\ GoOn(r) /\ Accepted(r)
    /\ LET e == events[r.event]
       IN  row' = [customer |-> e.customer, sub |-> e.sub, status |-> "active"]
    /\ UNCHANGED <<customers, checkouts, subs, events, disorder>>

\* Invoices are looked up by customer, subscriptions by their own id.
Matches(e) == IF e.type = "payment_failed" THEN row.customer = e.customer ELSE row.sub = e.sub

FindSubscription(r) ==
    /\ r.op = "event" /\ IsAt(r, "find")
    /\ IF Matches(events[r.event]) THEN GoOnAs(r, [r EXCEPT !.found = row]) /\ UNCHANGED due
       ELSE Stop(r) /\ Accepted(r)
    /\ UNCHANGED <<row, customers, checkouts, subs, events, disorder>>

MutStatusFor(e, found) ==    \* a deletion is handled like an update
    IF e.type = "payment_failed" THEN "past_due"
    ELSE IF e.status \in {"active", "past_due"} THEN e.status ELSE found.status

\* The status to store; what is neither active nor past due changes nothing.
StatusFor(e, found) ==
    IF e.type = "deleted" THEN "canceled"
    ELSE IF e.type = "payment_failed" THEN "past_due"
    ELSE IF e.status \in {"active", "past_due"} THEN e.status ELSE found.status

UpdateStatus(r) ==
    /\ IsAt(r, "update") /\ GoOn(r) /\ Accepted(r)
    /\ row' = [row EXCEPT !.status = StatusFor(events[r.event], r.found)]
    /\ UNCHANGED <<customers, checkouts, subs, events, disorder>>

Next ==
    \/ Checkout
    \/ \E c \in checkouts : Completed(c)
    \/ \E s \in 1 .. Len(subs), st \in {"active", "past_due", "unpaid", "canceled"} :
         Becomes(s, st)
    \/ \E n \in due : Deliver(n)
    \/ \E r \in flight :
         \/ FindRow(r) \/ CreateCustomer(r) \/ StoreCustomer(r) \/ CreateSession(r)
         \/ CheckoutCompleted(r) \/ FindSubscription(r) \/ UpdateStatus(r)
         \/ Throw(r) /\ UNCHANGED <<row, stripe, disorder>>

Spec == Init /\ [][Next]_vars

-----------------------------------------------------------------------------
\* The organization has two customers at Stripe only if the two checkouts
\* that created them were handled at the same time, or the earlier of them
\* failed half-way: nobody else's overlap or failure excuses a second one.
OneCustomer ==
    \A a, b \in customers : a < b => Overlapped(a, b) \/ a \in failed

\* Once every event is accepted and they were handled in Stripe's order, the
\* row has the status of the subscription it refers to: an unpaid one keeps
\* the status it had.  With two subscriptions of the organization, a failed
\* payment of the other one shows as well.
StatusFollowsStripe ==
    due = {} /\ flight = {} /\ ~disorder /\ row.sub # None =>
        \/ row.status = subs[row.sub].status
        \/ subs[row.sub].status = "unpaid" /\ row.status \in {"active", "past_due"}
        \/ Len(subs) > 1 /\ row.status = "past_due"
=============================================================================
