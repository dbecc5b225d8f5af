----------------------------- MODULE StripeWebhook -----------------------------
(***************************************************************************)
(* The Stripe webhook (apps/backend/src/modules/orders/payments.controller *)
(* .ts) on top of the orders it updates.  Stripe delivers an event at      *)
(* least once, in any order, and again when it gets no 2xx answer; several *)
(* deliveries and the API's own requests run at the same time.  Each       *)
(* delivery keeps a WebhookEvent record and, when the order's status       *)
(* differs from the one the event asks for, runs updateStatus as a request *)
(* of OrderEscrow.  That check is made before the transaction, on a status *)
(* that may be stale when the transaction begins.  A body without a        *)
(* signature is taken as an event like any other: the orders page posts    *)
(* its own when the buyer confirms or cancels a payment.                   *)
(***************************************************************************)
EXTENDS OrderEscrow

CONSTANTS
    Events,         \* the events of one behaviour
    Types,          \* their types
    Deliveries,     \* the requests that are deliveries of an event
    NoEvent         \* the event of a delivery not made yet

EventType == {"payment_intent.succeeded", "charge.succeeded", "payment_intent.canceled",
              "payment_intent.payment_failed", "charge.refunded", "payment_intent.processing"}

ASSUME WebhookAssumption ==
    Deliveries \subseteq Requests /\ NoEvent \notin Events /\ Types \subseteq EventType

\* mutant: a payment in progress counts as paid
StatusForEager(type) == IF type = "payment_intent.canceled" THEN "CANCELLED" ELSE "PAID"

\* The status handleStripeWebhook asks updateStatusFromProvider for
StatusFor(type) ==
    CASE type \in {"payment_intent.succeeded", "charge.succeeded"}       -> "PAID"
      [] type = "payment_intent.canceled"                                -> "CANCELLED"
      [] type \in {"payment_intent.payment_failed", "charge.refunded"}   -> "REFUNDED"
      [] OTHER                                                           -> Absent

VARIABLES
    stripe,     \* what Stripe knows of each order's payment
    evType,     \* the type of each event
    evOrder,    \* the orderId in its metadata
    posted,     \* the events that are not Stripe's but unsigned bodies somebody posted
    dpc,        \* where each delivery is
    dEvent,     \* the event it carries
    record      \* its WebhookEvent.status

hookState == <<dpc, dEvent, record>>
stripeState == <<stripe, evType, evOrder, posted>>
wvars == <<vars, stripeState, hookState>>

Handling == {"received", "recorded", "reading", "provider", "calling", "waiting", "marking", "failing"}

WTypeOK ==
    /\ TypeOK
    /\ stripe \in [Orders -> {"open", "paid", "refunded", "canceled"}]
    /\ evType \in [Events -> EventType \cup {Absent}]
    /\ evOrder \in [Events -> Orders \cup {NoOrder}]
    /\ posted \subseteq Events
    /\ dpc \in [Deliveries -> {"idle", "acked", "refused"} \cup Handling]
    /\ dEvent \in [Deliveries -> Events \cup {NoEvent}]
    /\ record \in [Deliveries -> {Absent, "PENDING", "SUCCESS", "FAILED"}]

WInit ==
    /\ Init
    /\ stripe = [o \in Orders |-> "open"]
    /\ evType = [e \in Events |-> Absent]
    /\ evOrder = [e \in Events |-> NoOrder]
    /\ posted = {}
    /\ dpc = [d \in Deliveries |-> "idle"]
    /\ dEvent = [d \in Deliveries |-> NoEvent]
    /\ record = [d \in Deliveries |-> Absent]

OrderOf(d) == evOrder[dEvent[d]]
Asked(d)   == StatusFor(evType[dEvent[d]])

--------------------------------------------------------------------------------
(* Stripe.  The customer can pay only with the client secret, which is in  *)
(* the answer to a committed create; an intent whose create was rolled     *)
(* back can still be cancelled from Stripe's side.                         *)

\* What must be true of the payment for Stripe to emit an event of this type
MayEmit(o, type) ==
    CASE type \in {"payment_intent.succeeded", "charge.succeeded"} ->
            status[o] # Absent /\ stripe[o] \in {"open", "paid"}
      [] type = "payment_intent.payment_failed" -> status[o] # Absent /\ stripe[o] = "open"
      [] type = "charge.refunded"               -> stripe[o] = "paid"
      [] type = "payment_intent.canceled"       -> o \notin creating /\ stripe[o] = "open"
      [] type = "payment_intent.processing"     -> stripe[o] = "open"

StripeAfter(o, type) ==
    CASE type \in {"payment_intent.succeeded", "charge.succeeded"} -> "paid"
      [] type = "charge.refunded"         -> "refunded"
      [] type = "payment_intent.canceled" -> "canceled"
      [] OTHER                            -> stripe[o]

Emit(e, o, type) ==
    /\ evType[e] = Absent
    /\ o \in intents
    /\ MayEmit(o, type)
    /\ evType' = [evType EXCEPT ![e] = type]
    /\ evOrder' = [evOrder EXCEPT ![e] = o]
    /\ stripe' = [stripe EXCEPT ![o] = StripeAfter(o, type)]
    /\ UNCHANGED <<vars, posted, hookState>>

\* confirmPayment and cancelPayment of the orders page post an event about an order
\* they created, and whoever has an order's id can post any; nothing signs it, so
\* validateStripeEvent returns the body as it is
Post(e, o, type) ==
    /\ evType[e] = Absent
    /\ status[o] # Absent
    /\ evType' = [evType EXCEPT ![e] = type]
    /\ evOrder' = [evOrder EXCEPT ![e] = o]
    /\ posted' = posted \cup {e}
    /\ UNCHANGED <<vars, stripe, hookState>>

\* An event about some other object of the account carries no orderId
EmitForeign(e) ==
    /\ evType[e] = Absent
    /\ evType' = [evType EXCEPT ![e] = "payment_intent.processing"]
    /\ UNCHANGED <<vars, stripe, evOrder, posted, hookState>>

\* A first delivery, a retry or a duplicate
Deliver(d, e) ==
    /\ dpc[d] = "idle"
    /\ evType[e] # Absent
    /\ dpc' = [dpc EXCEPT ![d] = "received"]
    /\ dEvent' = [dEvent EXCEPT ![d] = e]
    /\ UNCHANGED <<vars, stripeState, record>>

--------------------------------------------------------------------------------
(* handleStripeWebhook                                                     *)

HookGoto(d, l) == dpc' = [dpc EXCEPT ![d] = l]
Mark(d, s) == record' = [record EXCEPT ![d] = s]

\* recordWebhookEvent
Record(d) ==
    /\ dpc[d] = "received"
    /\ HookGoto(d, "recorded")
    /\ Mark(d, "PENDING")
    /\ UNCHANGED <<vars, stripeState, dEvent>>

\* validateStripeEvent accepts, for Stripe's signature or for want of one, the audit
\* log is written, and the event's type chooses the branch
Dispatch(d) ==
    /\ dpc[d] = "recorded"
    /\ HookGoto(d, CASE OrderOf(d) = NoOrder -> "marking"
                     [] Asked(d) = Absent    -> "provider"
                     [] OTHER                -> "reading")
    /\ UNCHANGED <<vars, stripeState, dEvent, record>>

\* updateStatusFromProvider up to the comparison of the statuses
ReadStatus(d) ==
    /\ dpc[d] = "reading"
    /\ HookGoto(d, CASE status[OrderOf(d)] = Absent   -> "marking"
                     [] status[OrderOf(d)] = Asked(d) -> "provider"
                     [] OTHER                         -> "calling")
    /\ UNCHANGED <<vars, stripeState, dEvent, record>>

\* mutant: the payment row's status changes without the order's
UpdatesPaymentStatus(d) ==
    /\ dpc[d] = "provider"
    /\ HookGoto(d, "marking")
    /\ payment' = [payment EXCEPT ![OrderOf(d)] = "CAPTURED"]
    /\ UNCHANGED <<intents, creating, status, paymentStatus, timeline, escrowRows, txnState,
                   stripeState, dEvent, record>>

\* updateProviderStatus: one UPDATE of the order's payment row, if there is one
UpdateProviderStatus(d) ==
    /\ dpc[d] = "provider"
    /\ Free(d, "payment", OrderOf(d))
    /\ HookGoto(d, "marking")
    /\ UNCHANGED <<vars, stripeState, dEvent, record>>

\* updateStatus opens its transaction
Call(d) ==
    /\ dpc[d] = "calling"
    /\ \E c \in Connections : Begin(d, OrderOf(d), Asked(d), c)
    /\ HookGoto(d, "waiting")
    /\ UNCHANGED <<stripeState, dEvent, record>>

\* mutants: an error of updateStatus is swallowed; the handler waits for success
\* only
ReturnSwallows(d) ==
    /\ dpc[d] = "waiting"
    /\ pc[d] \in {"done", "failed"}
    /\ HookGoto(d, "marking")
    /\ UNCHANGED <<vars, stripeState, dEvent, record>>

ReturnOnSuccess(d) ==
    /\ dpc[d] = "waiting"
    /\ pc[d] = "done"
    /\ HookGoto(d, "marking")
    /\ UNCHANGED <<vars, stripeState, dEvent, record>>

\* updateStatus returned or threw
Return(d) ==
    /\ dpc[d] = "waiting"
    /\ pc[d] \in {"done", "failed"}
    /\ HookGoto(d, IF pc[d] = "done" THEN "marking" ELSE "failing")
    /\ UNCHANGED <<vars, stripeState, dEvent, record>>

\* markWebhookProcessed, then 200
MarkProcessed(d) ==
    /\ dpc[d] = "marking"
    /\ HookGoto(d, "acked")
    /\ Mark(d, "SUCCESS")
    /\ UNCHANGED <<vars, stripeState, dEvent>>

\* The catch: markWebhookFailed, then the error
MarkFailed(d) ==
    /\ dpc[d] = "failing"
    /\ HookGoto(d, "refused")
    /\ Mark(d, "FAILED")
    /\ UNCHANGED <<vars, stripeState, dEvent>>

\* A statement inside the try fails, or no connection comes free in time
Throw(d) ==
    /\ dpc[d] \in {"recorded", "reading", "provider", "calling", "marking"}
    /\ HookGoto(d, "failing")
    /\ UNCHANGED <<vars, stripeState, dEvent, record>>

\* No 2xx and no further step: the rate limit before the record, a bad signature
\* after it (outside the try), a failure of markWebhookFailed, or the end of the
\* process at any point, which also ends the transaction
Refuse(d) ==
    /\ dpc[d] \in Handling
    /\ HookGoto(d, "refused")
    /\ IF pc[d] \in InTxn THEN Rollback(d) ELSE UNCHANGED vars
    /\ UNCHANGED <<stripeState, dEvent, record>>

--------------------------------------------------------------------------------
HookStep(d) ==
    \/ Record(d)
    \/ Dispatch(d)
    \/ ReadStatus(d)
    \/ UpdateProviderStatus(d)
    \/ Call(d)
    \/ Return(d)
    \/ MarkProcessed(d)
    \/ MarkFailed(d)

\* A request of the API: PATCH :id/status, POST :id/release, POST :id/refund
ApiBegin(r) ==
    /\ \E o \in Orders, s \in OrderStatus :
          \/ \E c \in Connections : Begin(r, o, s, c)
          \/ BeginMissing(r, o, s)
    /\ UNCHANGED <<stripeState, hookState>>

OrderStep(A) == A /\ UNCHANGED <<stripeState, hookState>>

WNext ==
    \/ \E o \in Orders : OrderStep(Create(o))
    \/ \E r \in Requests : OrderStep(TxnStep(r)) \/ OrderStep(Rollback(r))
    \/ \E r \in Requests \ Deliveries : ApiBegin(r)
    \/ \E e \in Events :
          \/ \E o \in Orders, type \in Types : Emit(e, o, type) \/ Post(e, o, type)
          \/ EmitForeign(e)
          \/ \E d \in Deliveries : Deliver(d, e)
    \/ \E d \in Deliveries : HookStep(d) \/ Throw(d) \/ Refuse(d)

WebhookSpec == WInit /\ [][WNext]_wvars

Acked(e) == \E d \in Deliveries : dEvent[d] = e /\ dpc[d] = "acked"

\* Stripe tries an event of its own again once no attempt at it is under way; nobody
\* posts again what was refused
Redeliver(e) ==
    /\ e \notin posted
    /\ ~Acked(e)
    /\ \A d \in Deliveries : dEvent[d] = e => dpc[d] = "refused"
    /\ \E d \in Deliveries : Deliver(d, e)

\* Statements run, handlers go on, Stripe retries; failures are never fair
FairWebhookSpec ==
    /\ WebhookSpec
    /\ \A r \in Requests : WF_wvars(OrderStep(TxnStep(r)))
    /\ \A d \in Deliveries : WF_wvars(HookStep(d))
    /\ \A e \in Events : WF_wvars(Redeliver(e))

--------------------------------------------------------------------------------
(* The invariant the properties rest on                                    *)

\* The order has had the status the event asks for, or never came to be
Applied(d) ==
    OrderOf(d) # NoOrder /\ Asked(d) # Absent =>
        status[OrderOf(d)] = Absent \/ Has(timeline[OrderOf(d)], Asked(d))

\* An event that asks for a status belongs to a create that is over, a payment to an
\* order, and one that Stripe reports has been collected
EventInv ==
    \A e \in Events :
        /\ StatusFor(evType[e]) # Absent => evOrder[e] \in intents \ creating
        /\ StatusFor(evType[e]) = "PAID" =>
              /\ status[evOrder[e]] # Absent
              /\ e \in posted \/ stripe[evOrder[e]] \in {"paid", "refunded"}

\* What the handler of d knows of the order at each of its steps
HandlerAt(d) ==
    /\ dpc[d] # "idle" => dEvent[d] \in Events /\ evType[dEvent[d]] # Absent
    /\ dpc[d] = "idle" => record[d] = Absent
    /\ dpc[d] = "acked" => record[d] = "SUCCESS"
    /\ dpc[d] \in {"reading", "calling", "waiting"} => OrderOf(d) # NoOrder /\ Asked(d) # Absent
    /\ dpc[d] \in {"provider", "marking"} \/ record[d] = "SUCCESS" => Applied(d)
    /\ pc[d] \in InTxn => dpc[d] = "waiting"
    /\ dpc[d] = "waiting" =>
          /\ pc[d] # "idle" /\ order[d] = OrderOf(d) /\ target[d] = Asked(d)
          /\ pc[d] = "done" => Has(timeline[order[d]], target[d])

\* The timeline holds the status, only an order's payment is paid, and every
\* handler decides on what is still so when it acts, or on what cannot be undone
HookInv ==
    /\ \A o \in Orders :
          /\ status[o] # Absent => Has(timeline[o], status[o])
          /\ stripe[o] \in {"paid", "refunded"} => status[o] # Absent
    /\ EventInv
    /\ \A d \in Deliveries : HandlerAt(d)

--------------------------------------------------------------------------------
(* Properties                                                              *)

\* A webhook record that says SUCCESS was acted on: the order, if there is one,
\* has had the status the event asks for, whatever raced with the delivery.
AckedIsApplied ==
    \A d \in Deliveries :
        record[d] = "SUCCESS" /\ OrderOf(d) # NoOrder /\ Asked(d) # Absent =>
            status[OrderOf(d)] = Absent \/ Has(timeline[OrderOf(d)], Asked(d))

\* A payment acknowledged to Stripe has a holding: no acknowledged money is
\* unaccounted for.
AckedPaymentIsHeld ==
    \A d \in Deliveries :
        dpc[d] = "acked" /\ Asked(d) = "PAID" => escrow[OrderOf(d)] # Absent

\* Somebody other than Stripe has said that o is paid: a request of the API, or a
\* body posted to the webhook without a signature
SaidPaid(o) ==
    \/ \E r \in Requests \ Deliveries : order[r] = o /\ target[r] = "PAID"
    \/ \E e \in posted : evOrder[e] = o /\ StatusFor(evType[e]) = "PAID"

\* Escrow holds money for an order only when Stripe has collected it, or somebody
\* said of this very order that it is paid: a holding never comes from an event of
\* another kind or about another order, nor from a create, a refund or a dispute
\* that overlaps.
HeldMoneyHasASource ==
    \A o \in Orders : escrow[o] # Absent => stripe[o] \in {"paid", "refunded"} \/ SaidPaid(o)

\* An event of Stripe's is acknowledged in the end, unless every attempt Stripe makes has
\* been used up: no delivery hangs, in particular none waits for a lock or a
\* connection for ever, and none is forgotten after a failure.
EventuallyAcked ==
    \A e \in Events :
        evType[e] # Absent /\ e \notin posted ~>
            Acked(e) \/ \A d \in Deliveries : dpc[d] \in {"acked", "refused"}

\* Why none hangs, without fairness and ENABLED.  r's next statement can be made now
CanGoOn(r) ==
    \/ pc[r] = "payment" /\ Free(r, "payment", order[r])
    \/ /\ pc[r] = "escrow"
       /\ \/ target[r] = "PAID" /\ (seen[r] # Absent \/ Free(r, "escrow", order[r]))
          \/ target[r] \in Settling
    \/ pc[r] = "settle" /\ Free(r, "escrow", order[r])
    \/ pc[r] = "update" /\ Free(r, "order", order[r])
    \/ pc[r] = "commit"

\* and so can the next step of d's handler
HookCanGoOn(d) ==
    \/ dpc[d] \in {"received", "recorded", "reading", "marking", "failing"}
    \/ dpc[d] = "provider" /\ Free(d, "payment", OrderOf(d))
    \/ /\ dpc[d] = "calling"
       /\ pc[d] = "idle" /\ status[OrderOf(d)] # Absent
       /\ \E c \in Connections : ConnectionFree(c)
    \/ dpc[d] = "waiting" /\ pc[d] \in {"done", "failed"}

\* A handler waits for its transaction, for a row or for a connection; the row and the
\* connection are another transaction's.  As long as one of either kind is open, one can
\* go on: the pool and the row locks together are no circle.
NothingHangs ==
    Connections # {} /\ ((\E r \in Requests : pc[r] \in InTxn) \/ (\E d \in Deliveries : dpc[d] \in Handling)) =>
        (\E r \in Requests : CanGoOn(r)) \/ (\E d \in Deliveries : HookCanGoOn(d))

\* The steps of a handler in their order
HookPlace(p) == CASE p = "idle" -> 0 [] p = "received" -> 1 [] p = "recorded" -> 2 [] p = "reading" -> 3
                  [] p = "calling" -> 4 [] p = "waiting" -> 5 [] p = "provider" -> 6 [] p = "marking" -> 7
                  [] p = "failing" -> 8 [] OTHER -> 9

\* A delivery makes each of its steps once, so it has an end.
DeliveriesGoForward ==
    [][\A d \in Deliveries : dpc'[d] # dpc[d] => HookPlace(dpc[d]) < HookPlace(dpc'[d])]_wvars

\* Everything the webhook does to an order is a step of OrderEscrow.
WebhookImplementsOrders == Spec
================================================================================
