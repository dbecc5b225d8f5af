------------------------------ MODULE OrderEscrow ------------------------------
(***************************************************************************)
(* Orders and their escrow: OrdersService.create and updateStatus with the *)
(* PaymentsService calls made inside their database transactions           *)
(* (apps/backend/src/modules/orders).                                      *)
(*                                                                         *)
(* Every request runs one interactive transaction under PostgreSQL's       *)
(* default READ COMMITTED isolation: a SELECT takes no lock and sees the   *)
(* rows committed at that moment; an UPDATE or INSERT locks its row until  *)
(* the transaction ends; what a transaction wrote is seen by the others at *)
(* its commit.  A request may therefore decide on an escrow row (`seen`)   *)
(* that another request changes before it writes.                          *)
(***************************************************************************)
EXTENDS Naturals, Sequences

CONSTANTS
    Orders,         \* order ids
    Requests,       \* calls of updateStatus, each made once
    Connections,    \* the connections the transactions run on
    NoOrder,        \* the order of a request that has not begun
    NoConnection    \* the connection of a request outside its transaction

ASSUME NullAssumption == NoOrder \notin Orders /\ NoConnection \notin Connections

Absent == "ABSENT"  \* no such row

OrderStatus == {"PENDING", "CONFIRMED", "PAID", "FULFILLED", "DELIVERED",
                "COMPLETED", "CANCELLED", "REFUNDED", "DISPUTED"}
PaymentStatus == {"PENDING", "CAPTURED", "REFUNDED"}  \* those the code assigns
EscrowStatus  == {"HOLDING", "RELEASED", "REFUNDED"}
LedgerEntry   == {"RELEASE", "REFUND"}
Row == {"payment", "escrow", "order"}

VARIABLES
    intents,        \* orders Stripe has minted a PaymentIntent for
    creating,       \* orders whose create transaction is open
    status,         \* committed Order.status
    paymentStatus,  \* committed Order.paymentStatus
    payment,        \* committed PaymentTransaction.status
    timeline,       \* committed OrderTimelineEvent statuses, oldest first
    escrow,         \* committed EscrowHolding.status
    ledger,         \* committed EscrowTransaction types, oldest first
    pc,             \* where each request is
    order,          \* the order a request updates
    target,         \* the status it asks for
    seen,           \* the escrow status it has read
    escrowWrite,    \* the escrow status it has written and not committed
    locks,          \* the rows of its order it has locked
    conn            \* the connection its transaction holds

orderRows  == <<status, paymentStatus, payment, timeline>>
escrowRows == <<escrow, ledger>>
txnState   == <<pc, order, target, seen, escrowWrite, locks, conn>>
vars == <<intents, creating, orderRows, escrowRows, txnState>>

InTxn == {"payment", "escrow", "settle", "update", "commit"}

TypeOK ==
    /\ intents \subseteq Orders
    /\ creating \subseteq Orders
    /\ status \in [Orders -> OrderStatus \cup {Absent}]
    /\ paymentStatus \in [Orders -> PaymentStatus \cup {Absent}]
    /\ payment \in [Orders -> PaymentStatus \cup {Absent}]
    /\ timeline \in [Orders -> Seq(OrderStatus)]
    /\ escrow \in [Orders -> EscrowStatus \cup {Absent}]
    /\ ledger \in [Orders -> Seq(LedgerEntry)]
    /\ pc \in [Requests -> {"idle", "done", "failed"} \cup InTxn]
    /\ order \in [Requests -> Orders \cup {NoOrder}]
    /\ target \in [Requests -> OrderStatus]
    /\ seen \in [Requests -> EscrowStatus \cup {Absent}]
    /\ escrowWrite \in [Requests -> EscrowStatus \cup {Absent}]
    /\ locks \in [Requests -> SUBSET Row]
    /\ conn \in [Requests -> Connections \cup {NoConnection}]
    /\ \A r \in Requests : pc[r] \in InTxn => order[r] \in Orders

Init ==
    /\ intents = {}
    /\ creating = {}
    /\ status = [o \in Orders |-> Absent]
    /\ paymentStatus = [o \in Orders |-> Absent]
    /\ payment = [o \in Orders |-> Absent]
    /\ timeline = [o \in Orders |-> <<>>]
    /\ escrow = [o \in Orders |-> Absent]
    /\ ledger = [o \in Orders |-> <<>>]
    /\ pc = [r \in Requests |-> "idle"]
    /\ order = [r \in Requests |-> NoOrder]
    /\ target = [r \in Requests |-> "PENDING"]
    /\ seen = [r \in Requests |-> Absent]
    /\ escrowWrite = [r \in Requests |-> Absent]
    /\ locks = [r \in Requests |-> {}]
    /\ conn = [r \in Requests |-> NoConnection]

\* x is an entry of the log
Has(log, x) == \E i \in DOMAIN log : log[i] = x

--------------------------------------------------------------------------------
(* OrdersService.create: one transaction that inserts the order, calls     *)
(* Stripe, and inserts the payment row.  Its rows are invisible until it   *)
(* commits; the PaymentIntent is not, and no rollback takes it back.       *)

\* tx.order.create, then mintPaymentIntent
MintIntent(o) ==
    /\ o \notin intents
    /\ intents' = intents \cup {o}
    /\ creating' = creating \cup {o}
    /\ UNCHANGED <<orderRows, escrowRows, txnState>>

\* tx.paymentTransaction.create and the commit
CommitCreate(o) ==
    /\ o \in creating
    /\ creating' = creating \ {o}
    /\ status' = [status EXCEPT ![o] = "PENDING"]
    /\ paymentStatus' = [paymentStatus EXCEPT ![o] = "PENDING"]
    /\ payment' = [payment EXCEPT ![o] = "PENDING"]
    /\ timeline' = [timeline EXCEPT ![o] = <<"PENDING">>]
    /\ UNCHANGED <<intents, escrowRows, txnState>>

\* the transaction times out, or a statement of it fails
RollbackCreate(o) ==
    /\ o \in creating
    /\ creating' = creating \ {o}
    /\ UNCHANGED <<intents, orderRows, escrowRows, txnState>>

--------------------------------------------------------------------------------
(* OrdersService.updateStatus                                              *)

Refunding == {"CANCELLED", "REFUNDED"}
Settling  == Refunding \cup {"COMPLETED"}

\* what the switch on dto.status writes to the payment row and Order.paymentStatus
PaymentFor(s) == IF s = "PAID" THEN "CAPTURED" ELSE "REFUNDED"
TouchesPayment(s) == s \in Refunding \cup {"PAID"}

\* handleEscrowRelease and handleEscrowRefund
EscrowFor(s) == IF s = "COMPLETED" THEN "RELEASED" ELSE "REFUNDED"
EntryFor(e)  == IF e = "RELEASED" THEN "RELEASE" ELSE "REFUND"

\* mutant: the switch has no case for PAID
FirstStepWithoutPaid(s) ==
    IF s \in Refunding THEN "payment" ELSE IF s = "COMPLETED" THEN "escrow" ELSE "update"

\* The first statement of the switch after the snapshot
FirstStep(s) ==
    IF TouchesPayment(s) THEN "payment" ELSE IF s = "COMPLETED" THEN "escrow" ELSE "update"

\* No transaction other than r's holds this row of order o
Free(r, row, o) == \A q \in Requests \ {r} : ~(order[q] = o /\ row \in locks[q])

Acquire(r, row) == locks' = [locks EXCEPT ![r] = @ \cup {row}]

Goto(r, l) == pc' = [pc EXCEPT ![r] = l]

\* mutant: the locks outlive the transaction
EndTxnKeepsLocks(r) ==
    /\ conn' = [conn EXCEPT ![r] = NoConnection]
    /\ escrowWrite' = [escrowWrite EXCEPT ![r] = Absent]
    /\ seen' = [seen EXCEPT ![r] = Absent]
    /\ UNCHANGED locks

\* The end of r's transaction: its locks and its connection are given back
EndTxn(r) ==
    /\ locks' = [locks EXCEPT ![r] = {}]
    /\ conn' = [conn EXCEPT ![r] = NoConnection]
    /\ escrowWrite' = [escrowWrite EXCEPT ![r] = Absent]
    /\ seen' = [seen EXCEPT ![r] = Absent]

\* A statement fails, the interactive transaction times out, or the process
\* dies: nothing the transaction wrote remains
Rollback(r) ==
    /\ pc[r] \in InTxn
    /\ Goto(r, "failed")
    /\ EndTxn(r)
    /\ UNCHANGED <<intents, creating, orderRows, escrowRows, order, target>>

\* The pool's rule
ConnectionFree(c) == \A q \in Requests : conn[q] # c

\* $transaction takes a connection and findUnique reads the order with its
\* escrow; there is no check of the status the order is in.
Begin(r, o, s, c) ==
    /\ pc[r] = "idle"
    /\ ConnectionFree(c)
    /\ status[o] # Absent
    /\ Goto(r, FirstStep(s))
    /\ order' = [order EXCEPT ![r] = o]
    /\ target' = [target EXCEPT ![r] = s]
    /\ seen' = [seen EXCEPT ![r] = escrow[o]]
    /\ conn' = [conn EXCEPT ![r] = c]
    /\ UNCHANGED <<intents, creating, orderRows, escrowRows, escrowWrite, locks>>

\* NotFoundException
BeginMissing(r, o, s) ==
    /\ pc[r] = "idle"
    /\ status[o] = Absent
    /\ Goto(r, "failed")
    /\ order' = [order EXCEPT ![r] = o]
    /\ target' = [target EXCEPT ![r] = s]
    /\ UNCHANGED <<intents, creating, orderRows, escrowRows, seen, escrowWrite, locks, conn>>

\* markPaymentCaptured and markPaymentRefunded: updateMany locks the order's
\* payment row (create always inserts one, so ensurePaymentTransaction finds it)
MarkPayment(r) ==
    /\ pc[r] = "payment"
    /\ Free(r, "payment", order[r])
    /\ Acquire(r, "payment")
    /\ Goto(r, "escrow")
    /\ UNCHANGED <<intents, creating, orderRows, escrowRows, order, target, seen, escrowWrite, conn>>

\* ensureEscrowHolding: only the snapshot decides whether to insert
SkipHolding(r) ==
    /\ pc[r] = "escrow"
    /\ target[r] = "PAID"
    /\ seen[r] # Absent
    /\ Goto(r, "update")
    /\ UNCHANGED <<intents, creating, orderRows, escrowRows, order, target, seen, escrowWrite, locks, conn>>

InsertHolding(r) ==
    /\ pc[r] = "escrow"
    /\ target[r] = "PAID"
    /\ seen[r] = Absent
    /\ Free(r, "escrow", order[r])
    /\ escrow[order[r]] = Absent
    /\ escrowWrite' = [escrowWrite EXCEPT ![r] = "HOLDING"]
    /\ Acquire(r, "escrow")
    /\ Goto(r, "update")
    /\ UNCHANGED <<intents, creating, orderRows, escrowRows, order, target, seen, conn>>

\* EscrowHolding.orderId is unique: the insert fails if a row is there by now
InsertConflict(r) ==
    /\ pc[r] = "escrow"
    /\ target[r] = "PAID"
    /\ seen[r] = Absent
    /\ Free(r, "escrow", order[r])
    /\ escrow[order[r]] # Absent
    /\ Rollback(r)

\* mutant: the snapshot alone
EscrowReadOnce(r) == seen[r]

\* order.escrow ?? tx.escrowHolding.findUnique(...)
EscrowRead(r) == IF seen[r] = Absent THEN escrow[order[r]] ELSE seen[r]

\* mutants of the early return: without one of its two conditions, or for any
\* holding that has moved
SettlesMissing(r)  == EscrowRead(r) = EscrowFor(target[r])
SettlesAgain(r)    == EscrowRead(r) = Absent
SettlesHeldOnly(r) == EscrowRead(r) # "HOLDING"

\* The early return: no holding, or it is already where it should go
NothingToSettle(r) == EscrowRead(r) \in {Absent, EscrowFor(target[r])}

\* handleEscrowRelease and handleEscrowRefund up to their early return
ReadEscrow(r) ==
    /\ pc[r] = "escrow"
    /\ target[r] \in Settling
    /\ seen' = [seen EXCEPT ![r] = EscrowRead(r)]
    /\ Goto(r, IF NothingToSettle(r) THEN "update" ELSE "settle")
    /\ UNCHANGED <<intents, creating, orderRows, escrowRows, order, target, escrowWrite, locks, conn>>

\* and the rest of them: update the holding, insert the ledger entry
SettleEscrow(r) ==
    /\ pc[r] = "settle"
    /\ Free(r, "escrow", order[r])
    /\ escrowWrite' = [escrowWrite EXCEPT ![r] = EscrowFor(target[r])]
    /\ Acquire(r, "escrow")
    /\ Goto(r, "update")
    /\ UNCHANGED <<intents, creating, orderRows, escrowRows, order, target, seen, conn>>

\* tx.order.update with the timeline entry
UpdateOrder(r) ==
    /\ pc[r] = "update"
    /\ Free(r, "order", order[r])
    /\ Acquire(r, "order")
    /\ Goto(r, "commit")
    /\ UNCHANGED <<intents, creating, orderRows, escrowRows, order, target, seen, escrowWrite, conn>>

\* COMMIT publishes everything the transaction wrote
Commit(r) ==
    LET o == order[r]
        s == target[r]
        e == escrowWrite[r]
    IN  /\ pc[r] = "commit"
        /\ Goto(r, "done")
        /\ status' = [status EXCEPT ![o] = s]
        /\ timeline' = [timeline EXCEPT ![o] = Append(@, s)]
        /\ paymentStatus' = IF TouchesPayment(s) THEN [paymentStatus EXCEPT ![o] = PaymentFor(s)]
                                                 ELSE paymentStatus
        /\ payment' = IF TouchesPayment(s) THEN [payment EXCEPT ![o] = PaymentFor(s)] ELSE payment
        /\ escrow' = IF e # Absent THEN [escrow EXCEPT ![o] = e] ELSE escrow
        /\ ledger' = IF e \in {"RELEASED", "REFUNDED"}
                     THEN [ledger EXCEPT ![o] = Append(@, EntryFor(e))] ELSE ledger
        /\ EndTxn(r)
        /\ UNCHANGED <<intents, creating, order, target>>

--------------------------------------------------------------------------------
\* The statements of r's transaction after it has begun
TxnStep(r) ==
    \/ MarkPayment(r)
    \/ SkipHolding(r)
    \/ InsertHolding(r)
    \/ InsertConflict(r)
    \/ ReadEscrow(r)
    \/ SettleEscrow(r)
    \/ UpdateOrder(r)
    \/ Commit(r)

Create(o) == MintIntent(o) \/ CommitCreate(o) \/ RollbackCreate(o)

Next ==
    \/ \E o \in Orders : Create(o)
    \/ \E r \in Requests :
          \/ \E o \in Orders, s \in OrderStatus :
                \/ \E c \in Connections : Begin(r, o, s, c)
                \/ BeginMissing(r, o, s)
          \/ TxnStep(r)
          \/ Rollback(r)

Spec == Init /\ [][Next]_vars

\* The database runs a statement once the lock it waits for is free.  Nothing
\* is assumed of the clients (Begin, Create) nor of the timeouts (Rollback).
FairSpec == Spec /\ \A r \in Requests : WF_vars(TxnStep(r))
================================================================================
