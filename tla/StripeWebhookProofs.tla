-------------------------- MODULE StripeWebhookProofs --------------------------
(***************************************************************************)
(* The safety of the webhook for every set of events, deliveries, requests *)
(* of the API, orders and connections.                                     *)
(***************************************************************************)
EXTENDS StripeWebhook, OrderEscrowProofs

WInv == WTypeOK /\ IInv /\ HookInv

--------------------------------------------------------------------------------
(* What a step of OrderEscrow does to the orders a delivery has to do with *)

\* A statement of a transaction changes its own request only.
LEMMA RequestEffect ==
    ASSUME TypeOK, NEW r \in Requests, TxnStep(r) \/ Rollback(r)
    PROVE  /\ pc[r] \in InTxn
           /\ pc'[r] \in InTxn \cup {"done", "failed"}
           /\ pc'[r] = "done" => Commit(r)
           /\ \A k \in Requests : k # r => pc'[k] = pc[k]
           /\ UNCHANGED <<intents, creating, order, target>>
<1>1. CASE Rollback(r)
  BY <1>1 DEF Rollback, Goto, TypeOK, InTxn
<1>2. CASE TxnStep(r)
  BY <1>2 DEF TxnStep, MarkPayment, SkipHolding, InsertHolding, InsertConflict, ReadEscrow, SettleEscrow,
     UpdateOrder, Commit, Rollback, Goto, TypeOK, InTxn
<1>3. QED
  BY <1>1, <1>2

\* A commit adds the status to the order's timeline; nothing else is lost from it.
LEMMA CommitEffect ==
    ASSUME TypeOK, IInv, NEW r \in Requests, Commit(r)
    PROVE  /\ order[r] \in Orders
           /\ status[order[r]] # Absent
           /\ status' = [status EXCEPT ![order[r]] = target[r]]
           /\ target[r] # Absent
           /\ \A o \in Orders : o # order[r] => timeline'[o] = timeline[o]
           /\ \A o \in Orders : \A x : Has(timeline[o], x) => Has(timeline'[o], x)
           /\ Has(timeline'[order[r]], target[r])
<1>1. order[r] \in Orders /\ status[order[r]] # Absent
  BY DEF Commit, TypeOK, IInv, LocksInv, InTxn
<1>2. timeline' = [timeline EXCEPT ![order[r]] = Append(@, target[r])]
  BY DEF Commit
<1>3. \A x : Has(Append(timeline[order[r]], target[r]), x) <=> Has(timeline[order[r]], x) \/ target[r] = x
  BY <1>1, AppendHas DEF TypeOK
<1>4. status' = [status EXCEPT ![order[r]] = target[r]] /\ target[r] # Absent
  BY DEF Commit, TypeOK, OrderStatus, Absent
<1>5. \A o \in Orders : o # order[r] => timeline'[o] = timeline[o]
  BY <1>2 DEF TypeOK
<1>6. timeline'[order[r]] = Append(timeline[order[r]], target[r])
  BY <1>1, <1>2 DEF TypeOK
<1>7. \A o \in Orders : \A x : Has(timeline[o], x) => Has(timeline'[o], x)
  BY <1>3, <1>5, <1>6
<1>8. Has(timeline'[order[r]], target[r])
  BY <1>3, <1>6
<1>9. QED
  BY <1>1, <1>4, <1>5, <1>7, <1>8

\* An order whose create is over keeps its fate, its timeline only grows, and its
\* status comes from there.
LEMMA OrderEffect ==
    ASSUME TypeOK, IInv, [Next]_vars, NEW o \in Orders
    PROVE  /\ o \in intents \ creating => o \in intents' \ creating'
           /\ o \in intents \ creating /\ status[o] = Absent => status'[o] = Absent
           /\ status[o] # Absent => status'[o] # Absent
           /\ \A x : Has(timeline[o], x) => Has(timeline'[o], x)
           /\ status'[o] # Absent => status'[o] = status[o] \/ Has(timeline'[o], status'[o])
<1> DEFINE Goal == /\ o \in intents \ creating => o \in intents' \ creating'
                   /\ o \in intents \ creating /\ status[o] = Absent => status'[o] = Absent
                   /\ status[o] # Absent => status'[o] # Absent
                   /\ \A x : Has(timeline[o], x) => Has(timeline'[o], x)
                   /\ status'[o] # Absent => status'[o] = status[o] \/ Has(timeline'[o], status'[o])
<1>1. ASSUME UNCHANGED <<intents, creating, orderRows>> PROVE Goal
  BY <1>1 DEF orderRows
<1>2. ASSUME NEW p \in Orders, Create(p) PROVE Goal
  <2>1. CASE MintIntent(p)
    BY <2>1 DEF MintIntent, orderRows
  <2>2. CASE CommitCreate(p)
    <3>1. status[p] = Absent /\ timeline[p] = <<>>
      BY <2>2 DEF CommitCreate, IInv, RowsInv
    <3>2. Has(<<"PENDING">>, "PENDING") /\ \A x : ~Has(<<>>, x)
      BY DEF Has
    <3>3. QED
      BY <2>2, <3>1, <3>2 DEF CommitCreate, TypeOK, Absent
  <2>3. CASE RollbackCreate(p)
    BY <2>3 DEF RollbackCreate, orderRows
  <2>4. QED
    BY <1>2, <2>1, <2>2, <2>3 DEF Create
<1>3. ASSUME NEW r \in Requests, TxnStep(r) \/ Rollback(r) PROVE Goal
  <2>1. CASE Commit(r)
    BY <2>1, CommitEffect DEF Commit, TypeOK
  <2>2. CASE ~Commit(r)
    BY <1>1, <1>3, <2>2 DEF TxnStep, MarkPayment, SkipHolding, InsertHolding, InsertConflict, ReadEscrow,
       SettleEscrow, UpdateOrder, Rollback
  <2>3. QED
    BY <2>1, <2>2
<1>4. ASSUME NEW r \in Requests, NEW p \in Orders, NEW s \in OrderStatus,
             (\E c \in Connections : Begin(r, p, s, c)) \/ BeginMissing(r, p, s)
      PROVE  Goal
  BY <1>1, <1>4 DEF Begin, BeginMissing
<1>5. CASE UNCHANGED vars
  BY <1>1, <1>5 DEF vars
<1>6. QED
  BY <1>2, <1>3, <1>4, <1>5 DEF Next

--------------------------------------------------------------------------------
(* The webhook is a client of OrderEscrow                                  *)

\* The status an event asks for is one of three.
LEMMA StatusForValues ==
    ASSUME NEW type
    PROVE  /\ StatusFor(type) \in {"PAID", "CANCELLED", "REFUNDED", Absent}
           /\ StatusFor(type) = "PAID" <=> type \in {"payment_intent.succeeded", "charge.succeeded"}
           /\ StatusFor(type) = "CANCELLED" <=> type = "payment_intent.canceled"
           /\ StatusFor(type) = "REFUNDED" <=> type \in {"payment_intent.payment_failed", "charge.refunded"}
<1>1. CASE type \in {"payment_intent.succeeded", "charge.succeeded"}
  BY <1>1 DEF StatusFor
<1>2. CASE type = "payment_intent.canceled"
  BY <1>2 DEF StatusFor
<1>3. CASE type \in {"payment_intent.payment_failed", "charge.refunded"}
  BY <1>3 DEF StatusFor
<1>4. CASE type \notin {"payment_intent.succeeded", "charge.succeeded", "payment_intent.canceled",
                        "payment_intent.payment_failed", "charge.refunded"}
  BY <1>4 DEF StatusFor, Absent
<1>5. QED
  BY <1>1, <1>2, <1>3, <1>4

\* A handler that looks at an order, or changes it, has one.
LEMMA HandlerHasOrder ==
    ASSUME WTypeOK, NEW d \in Deliveries, HandlerAt(d), dpc[d] \in {"reading", "calling", "waiting"}
    PROVE  OrderOf(d) \in Orders /\ Asked(d) \in OrderStatus
<1>1. dEvent[d] \in Events /\ OrderOf(d) # NoOrder /\ Asked(d) # Absent
  BY DEF HandlerAt
<1>2. Asked(d) \in OrderStatus
  BY <1>1, StatusForValues DEF Asked, OrderStatus
<1>3. QED
  BY <1>1, <1>2 DEF WTypeOK, OrderOf

\* Every step of the webhook, of Stripe and of the API is a step of OrderEscrow
\* or changes nothing there.
LEMMA OrdersStep == WInv /\ [WNext]_wvars => [Next]_vars
<1> SUFFICES ASSUME WInv, [WNext]_wvars PROVE [Next]_vars
  OBVIOUS
<1>1. ASSUME NEW o \in Orders, OrderStep(Create(o)) PROVE Next
  BY <1>1 DEF OrderStep, Next
<1>2. ASSUME NEW r \in Requests, OrderStep(TxnStep(r)) \/ OrderStep(Rollback(r)) PROVE Next
  BY <1>2 DEF OrderStep, Next
<1>3. ASSUME NEW r \in Requests, ApiBegin(r) PROVE Next
  BY <1>3 DEF ApiBegin, Next
<1>4. ASSUME NEW e \in Events, NEW o \in Orders, NEW type \in Types, Emit(e, o, type) \/ Post(e, o, type)
      PROVE  UNCHANGED vars
  BY <1>4 DEF Emit, Post
<1>5. ASSUME NEW e \in Events, EmitForeign(e) \/ \E d \in Deliveries : Deliver(d, e) PROVE UNCHANGED vars
  BY <1>5 DEF EmitForeign, Deliver
<1>6. ASSUME NEW d \in Deliveries, HookStep(d) \/ Throw(d) \/ Refuse(d) PROVE [Next]_vars
  <2> d \in Requests
    BY WebhookAssumption
  <2>1. CASE Call(d)
    <3>1. OrderOf(d) \in Orders /\ Asked(d) \in OrderStatus
      BY <2>1, HandlerHasOrder DEF Call, WInv, HookInv
    <3>2. QED
      BY <2>1, <3>1 DEF Call, Next
  <2>2. CASE Refuse(d)
    BY <2>2 DEF Refuse, Next
  <2>3. CASE Throw(d)
    BY <2>3 DEF Throw
  <2>4. CASE HookStep(d) /\ ~Call(d)
    BY <2>4 DEF HookStep, Record, Dispatch, ReadStatus, UpdateProviderStatus, Return, MarkProcessed, MarkFailed
  <2>5. QED
    BY <1>6, <2>1, <2>2, <2>3, <2>4
<1>7. CASE UNCHANGED wvars
  BY <1>7 DEF wvars
<1>8. QED
  BY <1>1, <1>2, <1>3, <1>4, <1>5, <1>6, <1>7 DEF WNext

--------------------------------------------------------------------------------
(* Types                                                                   *)

\* Every step of the webhook keeps its types.
LEMMA WebhookTypeStep == WInv /\ [WNext]_wvars => WTypeOK'
<1> SUFFICES ASSUME WInv, [WNext]_wvars PROVE WTypeOK'
  OBVIOUS
<1> DEFINE HookTypes == /\ stripe \in [Orders -> {"open", "paid", "refunded", "canceled"}]
                        /\ evType \in [Events -> EventType \cup {Absent}]
                        /\ evOrder \in [Events -> Orders \cup {NoOrder}]
                        /\ posted \subseteq Events
                        /\ dpc \in [Deliveries -> {"idle", "acked", "refused"} \cup Handling]
                        /\ dEvent \in [Deliveries -> Events \cup {NoEvent}]
                        /\ record \in [Deliveries -> {Absent, "PENDING", "SUCCESS", "FAILED"}]
<1>0. TypeOK'
  BY OrdersStep, TypeStep DEF WInv, WTypeOK
<1> HookTypes
  BY DEF WInv, WTypeOK
<1>1. ASSUME UNCHANGED <<stripeState, hookState>> PROVE HookTypes'
  BY <1>1 DEF stripeState, hookState
<1>2. ASSUME NEW e \in Events, NEW o \in Orders, NEW type \in Types, Emit(e, o, type) \/ Post(e, o, type)
      PROVE  HookTypes'
  <2>1. StripeAfter(o, type) \in {"open", "paid", "refunded", "canceled"} /\ type \in EventType
    BY WebhookAssumption DEF StripeAfter, EventType
  <2>2. CASE Emit(e, o, type)
    BY <2>1, <2>2 DEF Emit, hookState
  <2>3. CASE Post(e, o, type)
    BY <2>1, <2>3 DEF Post, hookState
  <2>4. QED
    BY <1>2, <2>2, <2>3
<1>3. ASSUME NEW e \in Events, EmitForeign(e) PROVE HookTypes'
  BY <1>3 DEF EmitForeign, hookState, EventType
<1>4. ASSUME NEW e \in Events, NEW d \in Deliveries, Deliver(d, e) PROVE HookTypes'
  BY <1>4 DEF Deliver, stripeState, Handling
<1>5. ASSUME NEW d \in Deliveries, HookStep(d) \/ Throw(d) \/ Refuse(d) PROVE HookTypes'
  <2>1. /\ UNCHANGED <<stripeState, dEvent>>
        /\ \E s \in {Absent, "PENDING", "SUCCESS", "FAILED"} : record' = record \/ record' = [record EXCEPT ![d] = s]
    BY <1>5 DEF HookStep, Record, Dispatch, ReadStatus, UpdateProviderStatus, Call, Return, MarkProcessed,
       MarkFailed, Throw, Refuse, Mark
  <2>2. \E l \in {"idle", "acked", "refused"} \cup Handling : dpc' = [dpc EXCEPT ![d] = l]
    BY <1>5 DEF HookStep, Record, Dispatch, ReadStatus, UpdateProviderStatus, Call, Return, MarkProcessed,
       MarkFailed, Throw, Refuse, HookGoto, Handling
  <2>3. QED
    BY <2>1, <2>2 DEF stripeState
<1>6. HookTypes'
  <2> HIDE DEF HookTypes
  <2> QED
    BY <1>1, <1>2, <1>3, <1>4, <1>5 DEF WNext, OrderStep, ApiBegin, wvars
<1>7. QED
  BY <1>0, <1>6 DEF WTypeOK

--------------------------------------------------------------------------------
(* Orders and events                                                       *)

\* The part of HookInv that is about orders
OrdersInv ==
    \A o \in Orders :
        /\ status[o] # Absent => Has(timeline[o], status[o])
        /\ stripe[o] \in {"paid", "refunded"} => status[o] # Absent

\* Only a new event concerns the events and Stripe's own state.
LEMMA StripeKept ==
    ASSUME [WNext]_wvars,
           ~\E e \in Events : \/ EmitForeign(e)
                             \/ \E o \in Orders, type \in Types : Emit(e, o, type) \/ Post(e, o, type)
    PROVE  UNCHANGED stripeState
BY DEF WNext, OrderStep, ApiBegin, Deliver, HookStep, Record, Dispatch, ReadStatus, UpdateProviderStatus,
       Call, Return, MarkProcessed, MarkFailed, Throw, Refuse, wvars

\* An event is emitted for a payment that was open or paid.
LEMMA EmitEffect ==
    ASSUME WInv, NEW e \in Events, NEW o \in Orders, NEW type \in Types, Emit(e, o, type)
    PROVE  /\ StatusFor(type) # Absent => o \in intents \ creating
           /\ StatusFor(type) = "PAID" => status[o] # Absent /\ stripe'[o] = "paid"
           /\ stripe'[o] \in {"paid", "refunded"} => status[o] # Absent
           /\ stripe[o] \in {"paid", "refunded"} => stripe'[o] \in {"paid", "refunded"}
           /\ \A p \in Orders : p # o => stripe'[p] = stripe[p]
<1>1. stripe[o] \in {"paid", "refunded"} => status[o] # Absent
  BY DEF WInv, HookInv
<1>2. status[o] # Absent => o \in intents \ creating
  BY DEF WInv, IInv, RowsInv
<1>3. o \in intents /\ MayEmit(o, type) /\ stripe' = [stripe EXCEPT ![o] = StripeAfter(o, type)]
  BY DEF Emit
<1>4. stripe'[o] = StripeAfter(o, type) /\ \A p \in Orders : p # o => stripe'[p] = stripe[p]
  BY <1>3 DEF WInv, WTypeOK
<1>5. CASE type \in {"payment_intent.succeeded", "charge.succeeded"}
  <2>1. StripeAfter(o, type) = "paid" /\ status[o] # Absent
    BY <1>3, <1>5 DEF MayEmit, StripeAfter
  <2>2. QED
    BY <1>2, <1>4, <2>1
<1>6. CASE type = "charge.refunded"
  <2>1. StripeAfter(o, type) = "refunded" /\ stripe[o] = "paid"
    BY <1>3, <1>6 DEF MayEmit, StripeAfter
  <2>2. QED
    BY <1>1, <1>2, <1>4, <1>6, <2>1, StatusForValues
<1>7. CASE type = "payment_intent.canceled"
  <2>1. StripeAfter(o, type) = "canceled" /\ stripe[o] = "open" /\ o \notin creating
    BY <1>3, <1>7 DEF MayEmit, StripeAfter
  <2>2. QED
    BY <1>3, <1>4, <1>7, <2>1, StatusForValues
<1>8. CASE type = "payment_intent.payment_failed"
  <2>1. StripeAfter(o, type) = stripe[o] /\ stripe[o] = "open" /\ status[o] # Absent
    BY <1>3, <1>8 DEF MayEmit, StripeAfter
  <2>2. QED
    BY <1>2, <1>4, <1>8, <2>1, StatusForValues
<1>9. CASE type = "payment_intent.processing"
  <2>1. StripeAfter(o, type) = stripe[o] /\ stripe[o] = "open"
    BY <1>3, <1>9 DEF MayEmit, StripeAfter
  <2>2. QED
    BY <1>4, <1>9, <2>1, StatusForValues
<1>10. QED
  BY <1>5, <1>6, <1>7, <1>8, <1>9, WebhookAssumption DEF EventType

\* An order's status comes from its timeline, and only an order's payment is paid.
LEMMA OrdersInvStep == WInv /\ [WNext]_wvars => OrdersInv'
<1> SUFFICES ASSUME WInv, [WNext]_wvars, NEW o \in Orders
             PROVE  /\ status'[o] # Absent => Has(timeline'[o], status'[o])
                    /\ stripe'[o] \in {"paid", "refunded"} => status'[o] # Absent
  BY DEF OrdersInv
<1>1. /\ status[o] # Absent => Has(timeline[o], status[o])
      /\ stripe[o] \in {"paid", "refunded"} => status[o] # Absent
  BY DEF WInv, HookInv
<1>2. /\ status[o] # Absent => status'[o] # Absent
      /\ \A x : Has(timeline[o], x) => Has(timeline'[o], x)
      /\ status'[o] # Absent => status'[o] = status[o] \/ Has(timeline'[o], status'[o])
  BY OrdersStep, OrderEffect DEF WInv, WTypeOK
<1>3. stripe'[o] \in {"paid", "refunded"} => status[o] # Absent
  <2>1. ASSUME NEW e \in Events, NEW p \in Orders, NEW type \in Types, Emit(e, p, type)
        PROVE  stripe'[o] \in {"paid", "refunded"} => status[o] # Absent
    BY <1>1, <2>1, EmitEffect
  <2>2. ASSUME NEW e \in Events, EmitForeign(e) \/ \E p \in Orders, type \in Types : Post(e, p, type)
        PROVE  stripe' = stripe
    BY <2>2 DEF EmitForeign, Post
  <2>3. QED
    BY <1>1, <2>1, <2>2, StripeKept DEF stripeState
<1>4. QED
  BY <1>1, <1>2, <1>3

\* An event once emitted stays what it is.
LEMMA EventKept ==
    ASSUME WTypeOK, [WNext]_wvars, NEW e \in Events, evType[e] # Absent
    PROVE  evType'[e] = evType[e] /\ evOrder'[e] = evOrder[e] /\ (e \in posted' <=> e \in posted)
BY StripeKept DEF stripeState, Emit, Post, EmitForeign, WTypeOK

\* An event that asks for a status stays one of a create that is over, and a payment
\* one of an order.
LEMMA EventInvStep == WInv /\ [WNext]_wvars => EventInv'
<1> SUFFICES ASSUME WInv, [WNext]_wvars PROVE EventInv'
  OBVIOUS
<1> DEFINE Good(e) == /\ StatusFor(evType[e]) # Absent => evOrder[e] \in intents \ creating
                      /\ StatusFor(evType[e]) = "PAID" =>
                            /\ status[evOrder[e]] # Absent
                            /\ e \in posted \/ stripe[evOrder[e]] \in {"paid", "refunded"}
<1>1. \A e \in Events : Good(e)
  BY DEF WInv, HookInv, EventInv
<1>2. \A o \in Orders : /\ o \in intents \ creating => o \in intents' \ creating'
                        /\ status[o] # Absent => status'[o] # Absent
  BY OrdersStep, OrderEffect DEF WInv, WTypeOK
<1>3. intents \subseteq Orders
  BY DEF WInv, WTypeOK, TypeOK
<1>4. \A e \in Events : StatusFor(evType[e]) # Absent => evOrder[e] \in Orders
  BY <1>1, <1>3
<1>5. StatusFor("payment_intent.processing") = Absent /\ Absent # "PAID"
  BY StatusForValues DEF Absent
<1>6. ASSUME NEW e \in Events, NEW o \in Orders, NEW type \in Types, Emit(e, o, type), NEW f \in Events
      PROVE  Good(f)'
  <2>1. CASE f = e
    <3>1. evType'[f] = type /\ evOrder'[f] = o
      BY <1>6, <2>1 DEF Emit, WInv, WTypeOK
    <3>2. QED
      BY <1>2, <1>6, <3>1, EmitEffect
  <2>2. CASE f # e
    <3>1. evType'[f] = evType[f] /\ evOrder'[f] = evOrder[f] /\ posted' = posted
      BY <1>6, <2>2 DEF Emit, WInv, WTypeOK
    <3>2. QED
      BY <1>1, <1>2, <1>4, <1>5, <1>6, <3>1, EmitEffect
  <2>3. QED
    BY <2>1, <2>2
<1>7. ASSUME NEW e \in Events, EmitForeign(e), NEW f \in Events PROVE Good(f)'
  <2>1. CASE f = e
    BY <1>5, <1>7, <2>1 DEF EmitForeign, WInv, WTypeOK
  <2>2. CASE f # e
    <3>1. evType'[f] = evType[f] /\ evOrder' = evOrder /\ stripe' = stripe /\ posted' = posted
      BY <1>7, <2>2 DEF EmitForeign, WInv, WTypeOK
    <3>2. QED
      BY <1>1, <1>2, <1>4, <1>5, <3>1
  <2>3. QED
    BY <2>1, <2>2
<1>8. ASSUME UNCHANGED stripeState, NEW f \in Events PROVE Good(f)'
  BY <1>1, <1>2, <1>4, <1>5, <1>8 DEF stripeState
<1>9. ASSUME NEW e \in Events, NEW o \in Orders, NEW type \in Types, Post(e, o, type), NEW f \in Events
      PROVE  Good(f)'
  <2>1. CASE f = e
    <3>1. evType'[f] = type /\ evOrder'[f] = o /\ f \in posted' /\ status[o] # Absent
      BY <1>9, <2>1 DEF Post, WInv, WTypeOK
    <3>2. o \in intents \ creating
      BY <3>1 DEF WInv, IInv, RowsInv
    <3>3. QED
      BY <1>2, <3>1, <3>2
  <2>2. CASE f # e
    <3>1. evType'[f] = evType[f] /\ evOrder'[f] = evOrder[f] /\ stripe' = stripe /\ (f \in posted' <=> f \in posted)
      BY <1>9, <2>2 DEF Post, WInv, WTypeOK
    <3>2. QED
      BY <1>1, <1>2, <1>4, <1>5, <3>1
  <2>3. QED
    BY <2>1, <2>2
<1>10. \A f \in Events : Good(f)'
  <2> HIDE DEF Good
  <2> QED
    BY <1>6, <1>7, <1>8, <1>9, StripeKept
<1>11. QED
  BY <1>10 DEF EventInv

--------------------------------------------------------------------------------
(* Handlers                                                                *)

\* What has been applied stays applied: timelines only grow, and an order that
\* never came to be never will.
LEMMA AppliedKept ==
    ASSUME WInv, [WNext]_wvars, NEW d \in Deliveries, dEvent[d] \in Events, evType[dEvent[d]] # Absent,
           dEvent'[d] = dEvent[d], Applied(d)
    PROVE  Applied(d)'
<1>1. OrderOf(d)' = OrderOf(d) /\ Asked(d)' = Asked(d)
  BY EventKept DEF OrderOf, Asked, WInv
<1>2. SUFFICES ASSUME OrderOf(d) # NoOrder, Asked(d) # Absent
               PROVE  status'[OrderOf(d)] = Absent \/ Has(timeline'[OrderOf(d)], Asked(d))
  BY <1>1 DEF Applied
<1>3. OrderOf(d) \in Orders /\ OrderOf(d) \in intents \ creating
  BY <1>2 DEF WInv, WTypeOK, HookInv, EventInv, OrderOf, Asked
<1>4. /\ OrderOf(d) \in intents \ creating /\ status[OrderOf(d)] = Absent => status'[OrderOf(d)] = Absent
      /\ \A x : Has(timeline[OrderOf(d)], x) => Has(timeline'[OrderOf(d)], x)
  BY <1>3, OrdersStep, OrderEffect DEF WInv, WTypeOK
<1>5. QED
  BY <1>2, <1>3, <1>4 DEF Applied

\* A delivery that takes no step of its own is affected by the others only
\* through its transaction.
LEMMA HandlerKept ==
    ASSUME WInv, [WNext]_wvars, NEW d \in Deliveries,
           dpc'[d] = dpc[d], dEvent'[d] = dEvent[d], record'[d] = record[d],
           order'[d] = order[d], target'[d] = target[d],
           pc'[d] # pc[d] => /\ pc[d] \in InTxn
                             /\ pc'[d] \in InTxn \cup {"done", "failed"}
                             /\ pc'[d] = "done" => Has(timeline'[order[d]], target[d])
    PROVE  HandlerAt(d)'
<1>1. HandlerAt(d)
  BY DEF WInv, HookInv
<1>2. dpc[d] # "idle" => dEvent[d] \in Events /\ evType'[dEvent[d]] # Absent
  BY <1>1, EventKept DEF HandlerAt, WInv
<1>3. dpc[d] # "idle" => OrderOf(d)' = OrderOf(d) /\ Asked(d)' = Asked(d)
  BY <1>1, EventKept DEF HandlerAt, WInv, OrderOf, Asked
<1>4. dpc[d] \in {"provider", "marking"} \/ record[d] = "SUCCESS" => Applied(d)'
  <2>1. record[d] = "SUCCESS" => dpc[d] # "idle"
    BY <1>1 DEF HandlerAt, Absent
  <2>2. QED
    BY <1>1, <2>1, AppliedKept DEF HandlerAt
<1>5. pc'[d] \in InTxn => dpc[d] = "waiting"
  BY <1>1 DEF HandlerAt
<1>6. dpc[d] = "waiting" => pc'[d] # "idle"
  BY <1>1 DEF HandlerAt, InTxn
<1>7. dpc[d] = "waiting" /\ pc'[d] = "done" => Has(timeline'[order[d]], target[d])
  <2>1. CASE dpc[d] = "waiting" /\ pc[d] = "done"
    <3>1. Has(timeline[order[d]], target[d]) /\ order[d] \in Orders
      BY <1>1, <2>1, HandlerHasOrder DEF HandlerAt, WInv
    <3>2. QED
      BY <3>1, OrdersStep, OrderEffect DEF WInv, WTypeOK
  <2>2. QED
    BY <2>1
<1>8. QED
  BY <1>1, <1>2, <1>3, <1>4, <1>5, <1>6, <1>7 DEF HandlerAt

\* The handler's own steps
LEMMA HandlerOwnStep ==
    ASSUME WInv, [WNext]_wvars, NEW d \in Deliveries, HookStep(d) \/ Throw(d) \/ Refuse(d)
    PROVE  HandlerAt(d)'
<1> d \in Requests
  BY WebhookAssumption
<1>1. HandlerAt(d)
  BY DEF WInv, HookInv
<1>2. /\ UNCHANGED stripeState
      /\ dEvent' = dEvent
      /\ dpc[d] # "idle" /\ dpc'[d] # "idle"
      /\ dEvent[d] \in Events /\ evType[dEvent[d]] # Absent /\ evType' = evType
      /\ OrderOf(d)' = OrderOf(d) /\ Asked(d)' = Asked(d)
  <2>1. UNCHANGED stripeState /\ dEvent' = dEvent /\ dpc[d] # "idle" /\ dpc'[d] # "idle"
    BY DEF HookStep, Record, Dispatch, ReadStatus, UpdateProviderStatus, Call, Return, MarkProcessed,
       MarkFailed, Throw, Refuse, HookGoto, Handling, WInv, WTypeOK
  <2>2. QED
    BY <1>1, <2>1 DEF HandlerAt, OrderOf, Asked, stripeState
<1> DEFINE Txn == /\ pc'[d] \in InTxn => dpc'[d] = "waiting"
                  /\ dpc'[d] = "waiting" => /\ pc'[d] # "idle" /\ order'[d] = OrderOf(d) /\ target'[d] = Asked(d)
                                            /\ pc'[d] = "done" => Has(timeline'[order'[d]], target'[d])
           Rec == /\ dpc'[d] = "acked" => record'[d] = "SUCCESS"
                  /\ dpc'[d] \in {"reading", "calling", "waiting"} => OrderOf(d) # NoOrder /\ Asked(d) # Absent
                  /\ dpc'[d] \in {"provider", "marking"} \/ record'[d] = "SUCCESS" => Applied(d)'
<1>3. SUFFICES Txn /\ Rec
  BY <1>2 DEF HandlerAt
<1>4. Applied(d) => Applied(d)'
  BY <1>2, AppliedKept
<1>5. dpc \in [Deliveries -> {"idle", "acked", "refused"} \cup Handling] /\ record \in [Deliveries -> {Absent, "PENDING", "SUCCESS", "FAILED"}]
  BY DEF WInv, WTypeOK
<1> USE <1>5 DEF HookGoto, Mark, Handling
<1>6. CASE Record(d) \/ MarkFailed(d) \/ Throw(d) \/ MarkProcessed(d)
  <2>1. pc' = pc /\ dpc'[d] \in {"recorded", "refused", "failing", "acked"} /\ pc[d] \notin InTxn
    BY <1>1, <1>6 DEF Record, MarkFailed, Throw, MarkProcessed, HandlerAt, vars, txnState
  <2>2. /\ dpc'[d] = "acked" => record'[d] = "SUCCESS" /\ Applied(d)
        /\ dpc'[d] # "acked" => record'[d] \in {"PENDING", "FAILED", record[d]}
    BY <1>1, <1>6 DEF Record, MarkFailed, Throw, MarkProcessed, HandlerAt
  <2>3. QED
    BY <1>1, <1>4, <2>1, <2>2 DEF HandlerAt
<1>7. CASE Dispatch(d)
  <2>1. \/ dpc'[d] = "reading" /\ OrderOf(d) # NoOrder /\ Asked(d) # Absent
        \/ dpc'[d] \in {"marking", "provider"} /\ (OrderOf(d) = NoOrder \/ Asked(d) = Absent)
    <3>1. CASE OrderOf(d) = NoOrder
      BY <1>7, <3>1 DEF Dispatch
    <3>2. CASE OrderOf(d) # NoOrder /\ Asked(d) = Absent
      BY <1>7, <3>2 DEF Dispatch
    <3>3. CASE OrderOf(d) # NoOrder /\ Asked(d) # Absent
      BY <1>7, <3>3 DEF Dispatch
    <3>4. QED
      BY <3>1, <3>2, <3>3
  <2>2. Txn
    BY <1>1, <1>7, <2>1 DEF Dispatch, HandlerAt, vars, txnState
  <2>3. Rec
    BY <1>1, <1>2, <1>4, <1>7, <2>1 DEF Dispatch, HandlerAt, Applied
  <2>4. QED
    BY <2>2, <2>3
<1>8. CASE ReadStatus(d)
  <2>1. OrderOf(d) \in Orders
    BY <1>1, <1>8, HandlerHasOrder DEF ReadStatus, WInv
  <2>2. \/ dpc'[d] = "calling"
        \/ dpc'[d] \in {"marking", "provider"} /\ (status[OrderOf(d)] = Absent \/ status[OrderOf(d)] = Asked(d))
    BY <1>8 DEF ReadStatus
  <2>3. status[OrderOf(d)] = Asked(d) /\ Asked(d) # Absent => Has(timeline[OrderOf(d)], Asked(d))
    BY <2>1 DEF WInv, HookInv
  <2>4. Txn
    BY <1>1, <1>8, <2>2 DEF ReadStatus, HandlerAt, vars, txnState
  <2>5. Rec
    BY <1>1, <1>4, <1>8, <2>2, <2>3 DEF ReadStatus, HandlerAt, Applied
  <2>6. QED
    BY <2>4, <2>5
<1>9. CASE UpdateProviderStatus(d)
  BY <1>1, <1>4, <1>9 DEF UpdateProviderStatus, HandlerAt, vars, txnState
<1>10. CASE Call(d)
  <2>1. PICK c \in Connections : Begin(d, OrderOf(d), Asked(d), c)
    BY <1>10 DEF Call
  <2>2. pc'[d] \in InTxn /\ pc'[d] # "done" /\ order'[d] = OrderOf(d) /\ target'[d] = Asked(d) /\ pc'[d] # "idle"
    BY <2>1 DEF Begin, Goto, FirstStep, InTxn, WInv, WTypeOK, TypeOK
  <2>3. QED
    BY <1>1, <1>4, <1>10, <2>2 DEF Call, HandlerAt
<1>11. CASE Return(d)
  <2>1. pc[d] = "done" => Applied(d)
    BY <1>1, <1>11 DEF Return, HandlerAt, Applied
  <2>2. UNCHANGED vars /\ dpc[d] = "waiting" /\ pc[d] \notin InTxn /\ record' = record
    BY <1>11 DEF Return, InTxn
  <2>3. dpc'[d] = "failing" \/ (dpc'[d] = "marking" /\ pc[d] = "done")
    BY <1>11 DEF Return
  <2>4. QED
    BY <1>1, <1>4, <2>1, <2>2, <2>3 DEF HandlerAt, vars, txnState
<1>12. CASE Refuse(d)
  <2>1. pc'[d] \notin InTxn
    BY <1>12 DEF Refuse, Rollback, Goto, InTxn, WInv, WTypeOK, TypeOK, vars, txnState
  <2>2. QED
    BY <1>1, <1>4, <1>12, <2>1 DEF Refuse, HandlerAt
<1>13. QED
  BY <1>6, <1>7, <1>8, <1>9, <1>10, <1>11, <1>12 DEF HookStep

\* Every handler still knows what it should after any step.
LEMMA HandlerStep == WInv /\ [WNext]_wvars => \A d \in Deliveries : HandlerAt(d)'
<1> SUFFICES ASSUME WInv, [WNext]_wvars, NEW d \in Deliveries PROVE HandlerAt(d)'
  OBVIOUS
<1> TypeOK /\ d \in Requests
  BY WebhookAssumption DEF WInv, WTypeOK
<1> dpc \in [Deliveries -> {"idle", "acked", "refused"} \cup Handling]
  BY DEF WInv, WTypeOK
<1>1. HandlerAt(d)
  BY DEF WInv, HookInv
<1>2. ASSUME UNCHANGED <<txnState, hookState>> PROVE HandlerAt(d)'
  BY <1>2, HandlerKept DEF txnState, hookState
<1>3. ASSUME NEW o \in Orders, OrderStep(Create(o)) PROVE HandlerAt(d)'
  BY <1>2, <1>3 DEF OrderStep, Create, MintIntent, CommitCreate, RollbackCreate
<1>4. ASSUME NEW r \in Requests, OrderStep(TxnStep(r)) \/ OrderStep(Rollback(r)) PROVE HandlerAt(d)'
  <2>1. TxnStep(r) \/ Rollback(r)
    BY <1>4 DEF OrderStep
  <2>2. UNCHANGED hookState
    BY <1>4 DEF OrderStep
  <2>3. /\ UNCHANGED <<order, target>>
        /\ pc'[d] # pc[d] => r = d /\ pc[d] \in InTxn /\ pc'[d] \in InTxn \cup {"done", "failed"}
        /\ pc'[d] # pc[d] /\ pc'[d] = "done" => Commit(d)
    BY <2>1, RequestEffect
  <2>4. Commit(d) => Has(timeline'[order[d]], target[d])
    BY CommitEffect DEF WInv
  <2>5. QED
    BY <2>2, <2>3, <2>4, HandlerKept DEF hookState
<1>5. ASSUME NEW r \in Requests \ Deliveries, ApiBegin(r) PROVE HandlerAt(d)'
  <2>1. r # d /\ UNCHANGED hookState
    BY <1>5 DEF ApiBegin
  <2>2. pc'[d] = pc[d] /\ order'[d] = order[d] /\ target'[d] = target[d]
    BY <1>5, <2>1 DEF ApiBegin, Begin, BeginMissing, Goto, TypeOK
  <2>3. QED
    BY <2>1, <2>2, HandlerKept DEF hookState
<1>6. ASSUME NEW e \in Events,
             EmitForeign(e) \/ \E o \in Orders, type \in Types : Emit(e, o, type) \/ Post(e, o, type)
      PROVE  HandlerAt(d)'
  BY <1>2, <1>6 DEF Emit, Post, EmitForeign, vars
<1>7. ASSUME NEW e \in Events, NEW f \in Deliveries, Deliver(f, e) PROVE HandlerAt(d)'
  <2>1. UNCHANGED <<stripeState, pc, order, target, record>>
    BY <1>7 DEF Deliver, vars, txnState
  <2>2. CASE f = d
    <3>1. dpc[d] = "idle" /\ dpc'[d] = "received" /\ dEvent'[d] = e /\ evType[e] # Absent
      BY <1>7, <2>2 DEF Deliver, WInv, WTypeOK
    <3>2. pc[d] \notin InTxn /\ record[d] = Absent
      BY <1>1, <3>1 DEF HandlerAt
    <3>3. QED
      BY <2>1, <3>1, <3>2 DEF HandlerAt, stripeState, Absent
  <2>3. CASE f # d
    <3>1. dpc'[d] = dpc[d] /\ dEvent'[d] = dEvent[d]
      BY <1>7, <2>3 DEF Deliver
    <3>2. QED
      BY <2>1, <3>1, HandlerKept
  <2>4. QED
    BY <2>2, <2>3
<1>8. ASSUME NEW f \in Deliveries, HookStep(f) \/ Throw(f) \/ Refuse(f) PROVE HandlerAt(d)'
  <2>1. CASE f = d
    BY <1>8, <2>1, HandlerOwnStep
  <2>2. CASE f # d
    <3>1. dpc'[d] = dpc[d] /\ dEvent'[d] = dEvent[d] /\ record'[d] = record[d]
      <4>1. dEvent' = dEvent
        BY <1>8 DEF HookStep, Record, Dispatch, ReadStatus, UpdateProviderStatus, Call, Return,
           MarkProcessed, MarkFailed, Throw, Refuse
      <4>2. record' = record \/ \E s : record' = [record EXCEPT ![f] = s]
        BY <1>8 DEF HookStep, Record, Dispatch, ReadStatus, UpdateProviderStatus, Call, Return,
           MarkProcessed, MarkFailed, Throw, Refuse, Mark
      <4>3. \E l : dpc' = [dpc EXCEPT ![f] = l]
        BY <1>8 DEF HookStep, Record, Dispatch, ReadStatus, UpdateProviderStatus, Call, Return,
           MarkProcessed, MarkFailed, Throw, Refuse, HookGoto
      <4>4. QED
        BY <2>2, <4>1, <4>2, <4>3 DEF WInv, WTypeOK
    <3>2. pc'[d] = pc[d] /\ order'[d] = order[d] /\ target'[d] = target[d]
      <4>1. CASE Call(f)
        BY <2>2, <4>1 DEF Call, Begin, Goto, TypeOK
      <4>2. CASE Refuse(f)
        BY <2>2, <4>2 DEF Refuse, Rollback, Goto, vars, txnState, TypeOK
      <4>3. CASE UNCHANGED vars
        BY <4>3 DEF vars, txnState
      <4>4. QED
        BY <1>8, <4>1, <4>2, <4>3 DEF HookStep, Record, Dispatch, ReadStatus, UpdateProviderStatus, Return,
           MarkProcessed, MarkFailed, Throw
    <3>3. QED
      BY <3>1, <3>2, HandlerKept
  <2>3. QED
    BY <2>1, <2>2
<1>9. CASE UNCHANGED wvars
  BY <1>2, <1>9 DEF wvars, vars
<1>10. QED
  BY <1>3, <1>4, <1>5, <1>6, <1>7, <1>8, <1>9 DEF WNext

--------------------------------------------------------------------------------
(* The theorems                                                            *)

\* Before the first delivery no handler knows anything.
LEMMA InitWInv == WInit => WInv
<1> SUFFICES ASSUME WInit PROVE WInv
  OBVIOUS
<1>1. TypeOK /\ IInv
  BY InitIInv DEF WInit, Init, TypeOK, OrderStatus, PaymentStatus, EscrowStatus, LedgerEntry, Row, InTxn, Absent
<1>2. WTypeOK
  BY <1>1 DEF WInit, WTypeOK
<1>3. \A o \in Orders : status[o] = Absent /\ stripe[o] = "open"
  BY DEF WInit, Init
<1>4. EventInv
  BY StatusForValues DEF WInit, EventInv, Absent
<1>5. \A d \in Deliveries : HandlerAt(d)
  BY WebhookAssumption DEF WInit, Init, HandlerAt, InTxn, Absent
<1>6. QED
  BY <1>1, <1>2, <1>3, <1>4, <1>5 DEF WInv, HookInv

\* Every step keeps what is known of orders, events and handlers.
LEMMA WInvStep == WInv /\ [WNext]_wvars => WInv'
<1> SUFFICES ASSUME WInv, [WNext]_wvars PROVE WInv'
  OBVIOUS
<1>1. IInv'
  BY OrdersStep, StepKeepsIInv DEF WInv, WTypeOK
<1>2. HookInv'
  BY OrdersInvStep, EventInvStep, HandlerStep DEF HookInv, OrdersInv
<1>3. QED
  BY <1>1, <1>2, WebhookTypeStep DEF WInv

\* So it always holds.
LEMMA WebhookWInv == WebhookSpec => []WInv
<1>1. QED
  BY InitWInv, WInvStep, PTL DEF WebhookSpec

\* What handlers know of orders and events holds whatever they race with.
THEOREM WebhookInvariant == WebhookSpec => []HookInv
<1>1. WInv => HookInv
  BY DEF WInv
<1>2. QED
  BY <1>1, WebhookWInv, PTL

\* Types of the webhook's state.
THEOREM WebhookTypeCorrect == WebhookSpec => []WTypeOK
<1>1. WInv => WTypeOK
  BY DEF WInv
<1>2. QED
  BY <1>1, WebhookWInv, PTL

\* The webhook is a client of OrderEscrow: every theorem of Spec is one of
\* WebhookSpec.
THEOREM OrdersRefinement == WebhookSpec => WebhookImplementsOrders
<1>1. WInit => Init
  BY DEF WInit
<1>2. QED
  BY <1>1, OrdersStep, WebhookWInv, PTL DEF WebhookSpec, WebhookImplementsOrders, Spec

\* A record that says SUCCESS was acted on, for any deliveries, retries,
\* duplicates, failures and requests of the API.
THEOREM AckSafety == WebhookSpec => []AckedIsApplied
<1>1. WInv => AckedIsApplied
  BY DEF WInv, HookInv, HandlerAt, Applied, AckedIsApplied
<1>2. QED
  BY <1>1, WebhookWInv, PTL

\* A payment acknowledged to Stripe has its holding.
THEOREM PaymentSafety == WebhookSpec => []AckedPaymentIsHeld
<1>1. ASSUME WInv, NEW d \in Deliveries, dpc[d] = "acked", Asked(d) = "PAID" PROVE escrow[OrderOf(d)] # Absent
  <2>1. dEvent[d] \in Events /\ Applied(d)
    BY <1>1 DEF WInv, HookInv, HandlerAt
  <2>2. OrderOf(d) \in intents /\ status[OrderOf(d)] # Absent
    BY <1>1, <2>1 DEF WInv, HookInv, EventInv, Asked, OrderOf, Absent
  <2>3. OrderOf(d) \in Orders
    BY <1>1, <2>2 DEF WInv, WTypeOK, TypeOK
  <2>4. Has(timeline[OrderOf(d)], "PAID")
    BY <1>1, <2>1, <2>2, <2>3, NullAssumption DEF Applied, Absent
  <2>5. QED
    BY <1>1, <2>3, <2>4 DEF WInv, IInv, EscrowIffEverPaid
<1>2. WInv => AckedPaymentIsHeld
  BY <1>1 DEF AckedPaymentIsHeld
<1>3. QED
  BY <1>2, WebhookWInv, PTL

\* A request that has not begun asks for nothing yet.
IdleTarget == \A r \in Requests : pc[r] = "idle" => target[r] = "PENDING"

\* A request that has asked for PAID never asks for anything else, nor of another order.
LEMMA TargetKept ==
    ASSUME TypeOK, [Next]_vars, IdleTarget
    PROVE  /\ IdleTarget'
           /\ \A r \in Requests : target[r] = "PAID" => target'[r] = "PAID" /\ order'[r] = order[r]
<1> DEFINE Kept == /\ IdleTarget'
                   /\ \A q \in Requests : target[q] = "PAID" => target'[q] = "PAID" /\ order'[q] = order[q]
<1>1. ASSUME UNCHANGED <<order, target>>, \A q \in Requests : pc'[q] = "idle" => pc[q] = "idle"
      PROVE  Kept
  BY <1>1 DEF IdleTarget
<1>2. ASSUME NEW r \in Requests, TxnStep(r) \/ Rollback(r) PROVE Kept
  <2>1. UNCHANGED <<order, target>> /\ \A q \in Requests : pc'[q] = "idle" => pc[q] = "idle"
    BY <1>2, RequestEffect DEF InTxn
  <2>2. QED
    BY <2>1, <1>1
<1>3. ASSUME NEW o \in Orders, Create(o) PROVE Kept
  <2>1. UNCHANGED <<order, target, pc>>
    BY <1>3 DEF Create, MintIntent, CommitCreate, RollbackCreate, txnState
  <2>2. QED
    BY <2>1, <1>1
<1>4. ASSUME NEW r \in Requests, NEW o \in Orders, NEW s \in OrderStatus,
             BeginMissing(r, o, s) \/ \E c \in Connections : Begin(r, o, s, c)
      PROVE  Kept
  <2>1. /\ pc[r] = "idle" /\ pc'[r] # "idle" /\ \A q \in Requests : q # r => pc'[q] = pc[q]
        /\ \A q \in Requests : q # r => order'[q] = order[q] /\ target'[q] = target[q]
    BY <1>4 DEF TypeOK, Begin, BeginMissing, Goto, FirstStep
  <2>2. QED
    BY <2>1 DEF IdleTarget
<1>5. CASE UNCHANGED vars
  BY <1>1, <1>5 DEF vars, txnState
<1>6. /\ \A r \in Requests : TxnStep(r) \/ Rollback(r) => Kept
      /\ \A o \in Orders : Create(o) => Kept
      /\ \A r \in Requests, o \in Orders, s \in OrderStatus :
            BeginMissing(r, o, s) \/ (\E c \in Connections : Begin(r, o, s, c)) => Kept
      /\ UNCHANGED vars => Kept
  BY <1>2, <1>3, <1>4, <1>5
<1> HIDE DEF Kept
<1>7. Kept
  BY <1>6 DEF Next
<1>8. QED
  BY <1>7 DEF Kept

\* What somebody said of an order stays said.
LEMMA SaidKept ==
    ASSUME WInv, [WNext]_wvars, IdleTarget, NEW o \in Orders, SaidPaid(o)
    PROVE  SaidPaid(o)'
<1>1. CASE \E r \in Requests \ Deliveries : order[r] = o /\ target[r] = "PAID"
  BY <1>1, OrdersStep, TargetKept DEF SaidPaid, WInv, WTypeOK
<1>2. ASSUME NEW e \in posted, evOrder[e] = o, StatusFor(evType[e]) = "PAID" PROVE SaidPaid(o)'
  <2>1. e \in Events /\ evType[e] # Absent
    BY <1>2, StatusForValues DEF WInv, WTypeOK, Absent
  <2>2. QED
    BY <1>2, <2>1, EventKept DEF SaidPaid, WInv
<1>3. QED
  BY <1>1, <1>2 DEF SaidPaid

\* What Stripe has collected it never takes for uncollected again.
LEMMA CollectedKept ==
    ASSUME WInv, [WNext]_wvars, NEW o \in Orders, stripe[o] \in {"paid", "refunded"}
    PROVE  stripe'[o] \in {"paid", "refunded"}
<1>1. ASSUME NEW e \in Events, NEW p \in Orders, NEW type \in Types, Emit(e, p, type)
      PROVE  stripe'[o] \in {"paid", "refunded"}
  BY <1>1, EmitEffect
<1>2. ASSUME NEW e \in Events, EmitForeign(e) \/ \E p \in Orders, type \in Types : Post(e, p, type)
      PROVE  stripe' = stripe
  BY <1>2 DEF EmitForeign, Post
<1>3. QED
  BY <1>1, <1>2, StripeKept DEF stripeState

\* For any events, Stripe's and posted ones, any deliveries and any requests of the API:
\* money is held for an order only when Stripe collected it or somebody said of that very
\* order that it is paid.
THEOREM HeldSafety == WebhookSpec => []HeldMoneyHasASource
<1>1. WInit => HeldMoneyHasASource /\ IdleTarget
  BY DEF WInit, Init, HeldMoneyHasASource, IdleTarget
<1>2. ASSUME WInv, [WNext]_wvars, HeldMoneyHasASource, IdleTarget PROVE (HeldMoneyHasASource /\ IdleTarget)'
  <2>0. IdleTarget'
    BY <1>2, OrdersStep, TargetKept DEF WInv, WTypeOK
  <2> SUFFICES ASSUME NEW o \in Orders, escrow'[o] # Absent
               PROVE  (stripe[o] \in {"paid", "refunded"} \/ SaidPaid(o))'
    BY <2>0 DEF HeldMoneyHasASource
  <2>1. stripe[o] \in {"paid", "refunded"} \/ SaidPaid(o) => (stripe[o] \in {"paid", "refunded"} \/ SaidPaid(o))'
    BY <1>2, SaidKept, CollectedKept
  <2>2. CASE escrow[o] # Absent
    BY <1>2, <2>1, <2>2 DEF HeldMoneyHasASource
  <2>3. ASSUME NEW r \in Requests, Commit(r), escrow[o] = Absent
        PROVE  stripe[o] \in {"paid", "refunded"} \/ SaidPaid(o)
    <3>1. order[r] = o /\ escrowWrite[r] # Absent /\ pc[r] \in InTxn
      BY <1>2, <2>3 DEF Commit, WInv, WTypeOK, TypeOK, InTxn
    <3>2. target[r] = "PAID"
      BY <1>2, <2>3, <3>1 DEF WInv, WTypeOK, TypeOK, EscrowStatus, IInv, WriteInv
    <3>3. CASE r \in Deliveries
      <4>1. dpc[r] = "waiting" /\ order[r] = OrderOf(r) /\ target[r] = Asked(r) /\ dEvent[r] \in Events
        BY <1>2, <3>1, <3>3 DEF WInv, HookInv, HandlerAt
      <4>2. evOrder[dEvent[r]] = o /\ StatusFor(evType[dEvent[r]]) = "PAID"
        BY <3>1, <3>2, <4>1 DEF Asked, OrderOf
      <4>3. dEvent[r] \in posted \/ stripe[evOrder[dEvent[r]]] \in {"paid", "refunded"}
        BY <1>2, <4>1, <4>2 DEF WInv, HookInv, EventInv
      <4>4. QED
        BY <4>2, <4>3 DEF SaidPaid
    <3>4. QED
      BY <3>1, <3>2, <3>3 DEF SaidPaid
  <2>4. CASE escrow[o] = Absent
    <3>1. escrow' # escrow
      BY <2>4
    <3>2. PICK r \in Requests : Commit(r)
      BY <1>2, <3>1, OrdersStep DEF Next, Create, MintIntent, CommitCreate, RollbackCreate, TxnStep, MarkPayment,
         SkipHolding, InsertHolding, InsertConflict, ReadEscrow, SettleEscrow, UpdateOrder, Rollback, Begin,
         BeginMissing, escrowRows, vars
    <3>3. QED
      BY <2>1, <2>3, <2>4, <3>2
  <2>5. QED
    BY <2>2, <2>4
<1>3. QED
  BY <1>1, <1>2, WebhookWInv, PTL DEF WebhookSpec
--------------------------------------------------------------------------------
(* The safety half of EventuallyAcked                                      *)

\* A connection in use is an open transaction's.
ConnectionsAreUsed == \A r \in Requests : conn[r] # NoConnection => pc[r] \in InTxn

\* Up to its call a handler has no transaction; the order it is about to ask for is there.
BeforeTheCall ==
    \A d \in Deliveries :
        /\ dpc[d] \in {"idle", "received", "recorded", "reading", "calling"} => pc[d] = "idle"
        /\ dpc[d] = "calling" => status[OrderOf(d)] # Absent

\* The end of a transaction gives its connection back.
LEMMA ConnectionsStep == TypeOK /\ ConnectionsAreUsed /\ [Next]_vars => ConnectionsAreUsed'
<1> SUFFICES ASSUME TypeOK, ConnectionsAreUsed, [Next]_vars PROVE ConnectionsAreUsed'
  OBVIOUS
<1> USE DEF TypeOK, ConnectionsAreUsed, InTxn, Goto
<1>1. ASSUME NEW o \in Orders, Create(o) PROVE ConnectionsAreUsed'
  BY <1>1 DEF Create, MintIntent, CommitCreate, RollbackCreate, txnState
<1>2. ASSUME NEW r \in Requests, NEW o \in Orders, NEW s \in OrderStatus, NEW c \in Connections, Begin(r, o, s, c)
      PROVE  ConnectionsAreUsed'
  BY <1>2 DEF Begin, FirstStep
<1>3. ASSUME NEW r \in Requests, NEW o \in Orders, NEW s \in OrderStatus, BeginMissing(r, o, s)
      PROVE  ConnectionsAreUsed'
  BY <1>3 DEF BeginMissing
<1>4. ASSUME NEW r \in Requests, TxnStep(r) \/ Rollback(r) PROVE ConnectionsAreUsed'
  <2>1. CASE MarkPayment(r) \/ SkipHolding(r) \/ InsertHolding(r) \/ ReadEscrow(r) \/ SettleEscrow(r) \/ UpdateOrder(r)
    BY <2>1 DEF MarkPayment, SkipHolding, InsertHolding, ReadEscrow, SettleEscrow, UpdateOrder
  <2>2. CASE Commit(r) \/ Rollback(r) \/ InsertConflict(r)
    BY <2>2 DEF Commit, Rollback, InsertConflict, EndTxn
  <2>3. QED
    BY <1>4, <2>1, <2>2 DEF TxnStep
<1>5. CASE UNCHANGED vars
  BY <1>5 DEF vars, txnState
<1>6. QED
  BY <1>1, <1>2, <1>3, <1>4, <1>5 DEF Next

\* The orders of OrderEscrow never vanish, and requests leave "idle" by a call only.
LEMMA BeforeTheCallStep == WInv /\ BeforeTheCall /\ [WNext]_wvars => BeforeTheCall'
<1> DEFINE Early == {"idle", "received", "recorded", "reading", "calling"}
           Good(d) == /\ dpc[d] \in Early => pc[d] = "idle"
                      /\ dpc[d] = "calling" => status[OrderOf(d)] # Absent
<1> SUFFICES ASSUME WInv, BeforeTheCall, [WNext]_wvars, NEW d \in Deliveries PROVE Good(d)'
  BY DEF BeforeTheCall
<1>1. Good(d) /\ HandlerAt(d) /\ TypeOK /\ d \in Requests
  BY WebhookAssumption DEF BeforeTheCall, WInv, WTypeOK, HookInv
<1>2. dpc \in [Deliveries -> {"idle", "acked", "refused"} \cup Handling]
  BY DEF WInv, WTypeOK
<1>3. ASSUME dpc'[d] = dpc[d], dEvent'[d] = dEvent[d], pc[d] = "idle" => pc'[d] = "idle" PROVE Good(d)'
  <2>1. CASE dpc[d] = "calling"
    <3>1. OrderOf(d) \in Orders /\ dEvent[d] \in Events /\ evType[dEvent[d]] # Absent
      BY <1>1, <2>1, HandlerHasOrder DEF HandlerAt, WInv
    <3>2. OrderOf(d)' = OrderOf(d)
      BY <1>3, <3>1, EventKept DEF OrderOf, WInv
    <3>3. status'[OrderOf(d)] # Absent
      BY <1>1, <2>1, <3>1, OrdersStep, OrderEffect DEF WInv, WTypeOK
    <3>4. QED
      BY <1>1, <1>3, <2>1, <3>2, <3>3
  <2>2. QED
    BY <1>1, <1>3, <2>1
<1>4. ASSUME UNCHANGED <<txnState, hookState>> PROVE Good(d)'
  BY <1>3, <1>4 DEF txnState, hookState
<1>5. ASSUME NEW o \in Orders, OrderStep(Create(o)) PROVE Good(d)'
  BY <1>4, <1>5 DEF OrderStep, Create, MintIntent, CommitCreate, RollbackCreate
<1>6. ASSUME NEW r \in Requests, OrderStep(TxnStep(r)) \/ OrderStep(Rollback(r)) PROVE Good(d)'
  <2>1. pc[d] = "idle" => pc'[d] = "idle"
    BY <1>1, <1>6, RequestEffect DEF OrderStep, InTxn
  <2>2. QED
    BY <1>3, <1>6, <2>1 DEF OrderStep, hookState
<1>7. ASSUME NEW r \in Requests \ Deliveries, ApiBegin(r) PROVE Good(d)'
  <2>1. pc'[d] = pc[d]
    BY <1>1, <1>7 DEF ApiBegin, Begin, BeginMissing, Goto, TypeOK
  <2>2. QED
    BY <1>3, <1>7, <2>1 DEF ApiBegin, hookState
<1>8. ASSUME NEW e \in Events,
             EmitForeign(e) \/ \E o \in Orders, type \in Types : Emit(e, o, type) \/ Post(e, o, type)
      PROVE  Good(d)'
  BY <1>4, <1>8 DEF Emit, Post, EmitForeign, vars
<1>9. ASSUME NEW e \in Events, NEW f \in Deliveries, Deliver(f, e) PROVE Good(d)'
  <2>1. CASE f = d
    BY <1>1, <1>2, <1>9, <2>1 DEF Deliver, vars, txnState
  <2>2. CASE f # d
    BY <1>3, <1>9, <2>2 DEF Deliver, vars, txnState
  <2>3. QED
    BY <2>1, <2>2
<1>10. ASSUME NEW f \in Deliveries, HookStep(f) \/ Throw(f) \/ Refuse(f), f # d PROVE Good(d)'
  <2>1. dEvent' = dEvent /\ \E l : dpc' = [dpc EXCEPT ![f] = l]
    BY <1>10 DEF HookStep, Record, Dispatch, ReadStatus, UpdateProviderStatus, Call, Return,
       MarkProcessed, MarkFailed, Throw, Refuse, HookGoto
  <2>2. pc'[d] = pc[d]
    <3>1. CASE Call(f)
      BY <1>1, <1>10, <3>1 DEF Call, Begin, Goto, TypeOK
    <3>2. CASE Refuse(f)
      BY <1>1, <1>10, <3>2 DEF Refuse, Rollback, Goto, vars, txnState, TypeOK
    <3>3. CASE UNCHANGED vars
      BY <3>3 DEF vars, txnState
    <3>4. QED
      BY <1>10, <3>1, <3>2, <3>3 DEF HookStep, Record, Dispatch, ReadStatus, UpdateProviderStatus, Return,
         MarkProcessed, MarkFailed, Throw
  <2>3. QED
    BY <1>2, <1>3, <1>10, <2>1, <2>2
<1>11. ASSUME HookStep(d) \/ Throw(d) \/ Refuse(d) PROVE Good(d)'
  <2> USE DEF HookGoto
  <2>1. CASE Record(d) \/ Dispatch(d)
    <3>1. dpc[d] \in Early /\ pc' = pc /\ dpc'[d] # "calling"
      BY <1>2, <2>1 DEF Record, Dispatch, vars, txnState
    <3>2. QED
      BY <1>1, <3>1
  <2>2. CASE ReadStatus(d)
    <3>1. UNCHANGED <<pc, status, evOrder, dEvent>> /\ dpc[d] = "reading"
      BY <2>2 DEF ReadStatus, vars, txnState, orderRows, stripeState
    <3>2. dpc'[d] = "calling" => status[OrderOf(d)] # Absent
      BY <1>2, <2>2 DEF ReadStatus
    <3>3. QED
      BY <1>1, <3>1, <3>2 DEF OrderOf
  <2>3. ASSUME dpc'[d] \in {"marking", "waiting", "failing", "acked", "refused"} PROVE Good(d)'
    BY <2>3
  <2>4. CASE UpdateProviderStatus(d) \/ Call(d) \/ Return(d) \/ MarkProcessed(d) \/ MarkFailed(d) \/ Throw(d) \/ Refuse(d)
    BY <1>2, <2>3, <2>4 DEF UpdateProviderStatus, Call, Return, MarkProcessed, MarkFailed, Throw, Refuse
  <2>5. QED
    BY <1>11, <2>1, <2>2, <2>4 DEF HookStep
<1>12. CASE UNCHANGED wvars
  BY <1>4, <1>12 DEF wvars, vars
<1> HIDE DEF Good
<1>13. QED
  BY <1>5, <1>6, <1>7, <1>8, <1>9, <1>10, <1>11, <1>12 DEF WNext

\* A transaction that waits for nobody can make its next statement.
LEMMA NotWaiting ==
    ASSUME IInv, NEW r \in Requests, pc[r] \in InTxn, \A q \in Requests : ~WaitsFor(r, q)
    PROVE  CanGoOn(r)
<1>1. ASSUME NEW row, row \in NextRow(r) PROVE Free(r, row, order[r])
  BY <1>1 DEF WaitsFor, Free
<1>2. /\ pc[r] = "payment" => "payment" \in NextRow(r)
      /\ pc[r] = "settle" => "escrow" \in NextRow(r)
      /\ pc[r] = "update" => "order" \in NextRow(r)
      /\ pc[r] = "escrow" /\ target[r] = "PAID" /\ seen[r] = Absent => "escrow" \in NextRow(r)
  BY DEF NextRow
<1>3. pc[r] = "escrow" => target[r] = "PAID" \/ target[r] \in Settling
  BY DEF IInv, LocksInv, TouchesPayment, Settling, InTxn
<1>4. QED
  BY <1>1, <1>2, <1>3 DEF CanGoOn, InTxn

\* The pool of connections and the row locks cannot bring the webhook to a standstill: what
\* a handler waits for is another transaction's, and one of these can always go on.
THEOREM NoDeliveryHangs == WebhookSpec => []NothingHangs
<1>1. WInit => ConnectionsAreUsed /\ BeforeTheCall
  BY WebhookAssumption DEF WInit, Init, ConnectionsAreUsed, BeforeTheCall
<1>2. WInv /\ ConnectionsAreUsed /\ BeforeTheCall /\ [WNext]_wvars => (ConnectionsAreUsed /\ BeforeTheCall)'
  BY OrdersStep, ConnectionsStep, BeforeTheCallStep DEF WInv, WTypeOK
<1>3. ASSUME WInv, ConnectionsAreUsed, BeforeTheCall, WaitsGoForward, LocksAreBehind PROVE NothingHangs
  <2>1. ASSUME NEW r \in Requests, pc[r] \in InTxn PROVE \E q \in Requests : CanGoOn(q)
    BY <1>3, <2>1, NotWaiting DEF WaitsGoForward, WInv
  <2>2. ASSUME NEW d \in Deliveries, dpc[d] \in Handling, Connections # {}
        PROVE  HookCanGoOn(d) \/ \E r \in Requests : pc[r] \in InTxn
    <3>1. CASE dpc[d] = "provider"
      BY <1>3, <3>1 DEF HookCanGoOn, Free, LocksAreBehind
    <3>2. CASE dpc[d] = "calling"
      <4>1. pc[d] = "idle" /\ status[OrderOf(d)] # Absent
        BY <1>3, <3>2 DEF BeforeTheCall
      <4>2. PICK c \in Connections : TRUE
        BY <2>2
      <4>3. ConnectionFree(c) \/ \E r \in Requests : pc[r] \in InTxn
        BY <1>3, NullAssumption DEF ConnectionFree, ConnectionsAreUsed
      <4>4. QED
        BY <3>2, <4>1, <4>3 DEF HookCanGoOn
    <3>3. CASE dpc[d] = "waiting"
      <4>1. pc[d] # "idle" /\ d \in Requests
        BY <1>3, <3>3, WebhookAssumption DEF WInv, HookInv, HandlerAt
      <4>2. pc[d] \in InTxn \/ pc[d] \in {"done", "failed"}
        BY <1>3, <4>1 DEF WInv, WTypeOK, TypeOK
      <4>3. QED
        BY <3>3, <4>1, <4>2 DEF HookCanGoOn
    <3>4. QED
      BY <2>2, <3>1, <3>2, <3>3 DEF Handling, HookCanGoOn
  <2>3. QED
    BY <2>1, <2>2 DEF NothingHangs
<1>4. WebhookSpec => [](WaitsGoForward /\ LocksAreBehind)
  BY OrdersRefinement, NobodyWaitsInACircle, PTL DEF WebhookImplementsOrders
<1>5. QED
  BY <1>1, <1>2, <1>3, <1>4, WebhookWInv, PTL DEF WebhookSpec

\* A delivery makes each step of its handler once, whatever fails and races with it.
THEOREM DeliveriesEnd == WebhookSpec => DeliveriesGoForward
<1> DEFINE Forward(d) == dpc'[d] # dpc[d] => HookPlace(dpc[d]) < HookPlace(dpc'[d])
<1>1. ASSUME WInv, WNext, NEW d \in Deliveries PROVE Forward(d)
  <2>1. dpc \in [Deliveries -> {"idle", "acked", "refused"} \cup Handling]
    BY <1>1 DEF WInv, WTypeOK
  <2>2. ASSUME dpc' = dpc PROVE Forward(d)
    BY <2>2
  <2>3. ASSUME NEW e \in Events, NEW f \in Deliveries, Deliver(f, e) PROVE Forward(d)
    BY <2>1, <2>3 DEF Deliver, HookPlace
  <2>4. ASSUME NEW f \in Deliveries, HookStep(f) \/ Throw(f) \/ Refuse(f) PROVE Forward(d)
    <3> USE DEF HookGoto
    <3>1. CASE Dispatch(f) \/ ReadStatus(f)
      <4>1. \/ dpc[f] = "recorded" /\ \E l \in {"marking", "provider", "reading"} : dpc' = [dpc EXCEPT ![f] = l]
            \/ dpc[f] = "reading" /\ \E l \in {"marking", "provider", "calling"} : dpc' = [dpc EXCEPT ![f] = l]
        BY <3>1 DEF Dispatch, ReadStatus
      <4>2. QED
        BY <2>1, <4>1 DEF HookPlace
    <3>2. CASE Record(f) \/ UpdateProviderStatus(f) \/ Call(f)
      BY <2>1, <3>2 DEF Record, UpdateProviderStatus, Call, HookPlace
    <3>3. CASE Return(f)
      BY <2>1, <3>3 DEF Return, HookPlace
    <3>4. CASE MarkProcessed(f) \/ MarkFailed(f)
      BY <2>1, <3>4 DEF MarkProcessed, MarkFailed, HookPlace
    <3>5. CASE Throw(f) \/ Refuse(f)
      BY <2>1, <3>5 DEF Throw, Refuse, Handling, HookPlace
    <3>6. QED
      BY <2>4, <3>1, <3>2, <3>3, <3>4, <3>5 DEF HookStep
  <2>5. ~(\E e \in Events, f \in Deliveries : Deliver(f, e))
          /\ ~(\E f \in Deliveries : HookStep(f) \/ Throw(f) \/ Refuse(f)) => dpc' = dpc
    BY <1>1 DEF WNext, OrderStep, ApiBegin, Emit, Post, EmitForeign, hookState
  <2> HIDE DEF Forward
  <2>6. QED
    BY <2>2, <2>3, <2>4, <2>5
<1>2. WInv /\ [WNext]_wvars => [\A d \in Deliveries : Forward(d)]_wvars
  <2> HIDE DEF Forward
  <2> QED
    BY <1>1
<1>3. QED
  BY <1>2, WebhookWInv, PTL DEF WebhookSpec, DeliveriesGoForward
================================================================================
