--------------------------- MODULE OrderEscrowProps ---------------------------
(***************************************************************************)
(* What OrderEscrow promises: the safety of any number of overlapping      *)
(* requests with the invariant it rests on, the safety of one request at a *)
(* time, progress, and the statement of the timeline that does not hold.   *)
(***************************************************************************)
EXTENDS OrderEscrow

(* The inductive invariant: what a transaction that is under way may count *)
(* on, given the locks it holds                                            *)

\* An order's rows appear together, after its PaymentIntent
RowsInv ==
    \A o \in Orders :
        /\ o \in creating \/ o \notin intents => status[o] = Absent
        /\ o \in creating => o \in intents
        /\ status[o] = Absent => escrow[o] = Absent /\ ledger[o] = <<>> /\ timeline[o] = <<>>

\* A request locks and writes only inside its transaction; past markPayment it
\* keeps the payment row until it ends
LocksInv ==
    \A r \in Requests :
        /\ pc[r] \in InTxn => status[order[r]] # Absent
        /\ pc[r] \notin InTxn => locks[r] = {} /\ escrowWrite[r] = Absent
        /\ pc[r] \in InTxn \ {"payment"} /\ TouchesPayment(target[r]) => "payment" \in locks[r]
        /\ pc[r] = "settle" => target[r] \in Settling /\ seen[r] # Absent
        /\ pc[r] \in {"escrow", "settle"} => TouchesPayment(target[r]) \/ target[r] = "COMPLETED"
        /\ pc[r] = "payment" => TouchesPayment(target[r])
        /\ escrowWrite[r] # Absent => "escrow" \in locks[r] /\ pc[r] \in {"update", "commit"}

\* A row has one writer
RowLocksExclusive ==
    \A p, q \in Requests :
        p # q /\ order[p] = order[q] => locks[p] \cap locks[q] = {}

\* A snapshot is stale in one direction only
SeenInv ==
    \A r \in Requests :
        pc[r] \in InTxn =>
            /\ seen[r] # Absent => escrow[order[r]] # Absent
            /\ seen[r] \in {"RELEASED", "REFUNDED"} => escrow[order[r]] # "HOLDING"

\* A pending write fits the row it will replace, and a request about to update
\* the order has dealt with the escrow as its target demands
WriteInv ==
    \A r \in Requests :
        /\ escrowWrite[r] = "HOLDING" => target[r] = "PAID" /\ escrow[order[r]] = Absent
        /\ escrowWrite[r] \in {"RELEASED", "REFUNDED"} =>
              target[r] \in Settling /\ escrowWrite[r] = EscrowFor(target[r]) /\ escrow[order[r]] # Absent
        /\ pc[r] \in {"update", "commit"} /\ target[r] = "PAID" =>
              escrowWrite[r] = "HOLDING" \/ escrow[order[r]] # Absent
        /\ pc[r] \in {"update", "commit"} /\ target[r] \in Refunding =>
              escrowWrite[r] = "REFUNDED" \/ escrow[order[r]] # "HOLDING"

--------------------------------------------------------------------------------
(* Safety, for any number of concurrent requests                           *)

\* An order that is cancelled or refunded leaves no money in escrow: neither
\* a payment that commits between the snapshot of the refund and its lock on
\* the payment row, nor one that queues behind it, escapes handleEscrowRefund.
RefundLeavesNoHolding ==
    \A o \in Orders : status[o] \in Refunding => escrow[o] # "HOLDING"

\* The holding exists exactly when the order has once been paid, whatever the
\* order's status became later: no path creates it otherwise or loses it.
EscrowIffEverPaid ==
    \A o \in Orders : escrow[o] # Absent <=> Has(timeline[o], "PAID")

\* The last ledger entry accounts for the holding: nothing moved while it is
\* held, and once money moved the last movement is where the holding says.
LedgerAccountsForEscrow ==
    \A o \in Orders :
        IF escrow[o] \in {"RELEASED", "REFUNDED"}
        THEN /\ ledger[o] # <<>>
             /\ ledger[o][Len(ledger[o])] = IF escrow[o] = "RELEASED" THEN "RELEASE" ELSE "REFUND"
        ELSE ledger[o] = <<>>

\* All of the above, an invariant that every step preserves
IInv ==
    /\ RowsInv
    /\ LocksInv
    /\ RowLocksExclusive
    /\ SeenInv
    /\ WriteInv
    /\ RefundLeavesNoHolding
    /\ EscrowIffEverPaid
    /\ LedgerAccountsForEscrow

\* Money that left escrow is never held again, and a holding never vanishes,
\* however often the order is set to PAID afterwards.
EscrowStep(o) == escrow[o] # Absent /\ escrow'[o] # escrow[o] => escrow'[o] \in {"RELEASED", "REFUNDED"}
EscrowNeverReturns == [][\A o \in Orders : EscrowStep(o)]_vars

\* Every transaction that begins also ends, without the help of a timeout:
\* requests take their row locks in one order (payment, escrow, order), so
\* they never wait for one another in a circle.
EveryTransactionEnds ==
    \A r \in Requests : pc[r] \in InTxn ~> pc[r] \in {"done", "failed"}

\* Why they do not, without fairness and ENABLED.  The row r's next statement locks,
\* and the request whose transaction holds that row of the same order
NextRow(r) ==
    CASE pc[r] = "payment" -> {"payment"}
      [] pc[r] = "escrow" -> IF target[r] = "PAID" /\ seen[r] = Absent THEN {"escrow"} ELSE {}
      [] pc[r] = "settle" -> {"escrow"}
      [] pc[r] = "update" -> {"order"}
      [] OTHER -> {}
WaitsFor(r, q) == r # q /\ order[r] = order[q] /\ NextRow(r) \cap locks[q] # {}

\* The statements of a transaction in their order
Place(p) == CASE p = "payment" -> 1 [] p = "escrow" -> 2 [] p = "settle" -> 3
              [] p = "update" -> 4 [] p = "commit" -> 5 [] OTHER -> 6

\* Who holds a row has gone past the statement that locks it.
LocksAreBehind ==
    \A r \in Requests :
        /\ "payment" \in locks[r] => pc[r] \in InTxn \ {"payment"}
        /\ "escrow" \in locks[r] => pc[r] \in {"update", "commit"}
        /\ "order" \in locks[r] => pc[r] = "commit"

\* Who is waited for is further on, and some open transaction waits for nobody.
WaitsGoForward ==
    /\ \A r, q \in Requests : WaitsFor(r, q) => Place(pc[r]) < Place(pc[q])
    /\ (\E r \in Requests : pc[r] \in InTxn) =>
          \E r \in Requests : pc[r] \in InTxn /\ \A q \in Requests : ~WaitsFor(r, q)

\* A step of an open transaction brings it further, and none of its statements is made
\* while it waits: only giving up.
StepsGoForward ==
    \A r \in Requests :
        pc[r] \in InTxn /\ pc'[r] # pc[r] =>
            /\ Place(pc[r]) < Place(pc'[r])
            /\ pc'[r] # "failed" => \A q \in Requests : ~WaitsFor(r, q)

\* The escrow rows change as EscrowLedger says: held once (the unique key
\* against the stale snapshot of a second payment), then only moved, every
\* movement with its ledger entry.
AnyLedger == INSTANCE EscrowLedger WITH Idempotent <- FALSE
ImplementsLedger == AnyLedger!Spec

--------------------------------------------------------------------------------
(* Safety of one request at a time: a pool of a single connection          *)

Serial == \E c \in Connections : Connections = {c}

\* The settled order and its holding agree on who got the money: without
\* overlap a release or a refund never acts on a stale holding.
SettledOrderAgrees ==
    Serial =>
        \A o \in Orders :
            status[o] \in Settling /\ escrow[o] # Absent => escrow[o] = EscrowFor(status[o])

\* The early returns of handleEscrowRelease and handleEscrowRefund make a
\* repeated release or refund move no money a second time.
StrictLedger == INSTANCE EscrowLedger WITH Idempotent <- TRUE
ImplementsStrictLedger == StrictLedger!Spec

\* The invariant behind both: connections are exclusive, so the only open
\* transaction sees the holding as it is and settles it exactly when needed.
ConnInv ==
    /\ \A r \in Requests : pc[r] \in InTxn => conn[r] \in Connections
    /\ \A p, q \in Requests : p # q /\ pc[p] \in InTxn /\ pc[q] \in InTxn => conn[p] # conn[q]

SerialInv ==
    /\ ConnInv
    /\ SettledOrderAgrees
    /\ Serial => \A r \in Requests :
          LET now == escrow[order[r]]
          IN  /\ pc[r] \in InTxn => seen[r] = now
              /\ pc[r] = "settle" => now # EscrowFor(target[r])
              /\ escrowWrite[r] # Absent => now # escrowWrite[r]
              /\ pc[r] \in {"update", "commit"} /\ target[r] \in Settling =>
                    escrowWrite[r] = EscrowFor(target[r]) \/ now \in {Absent, EscrowFor(target[r])}

--------------------------------------------------------------------------------
(* What the timeline notes say, and concurrency breaks                     *)

\* "Escrow refunded to buyer": the holding of a cancelled or refunded order
\* is with the buyer.
RefundedIsReturned ==
    \A o \in Orders :
        status[o] \in Refunding /\ escrow[o] # Absent => escrow[o] = "REFUNDED"
================================================================================
