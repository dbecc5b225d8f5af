--------------------------- MODULE OrderEscrowProofs ---------------------------
(***************************************************************************)
(* The safety of OrderEscrow for every set of orders, requests and         *)
(* connections: type correctness, the inductive invariant IInv, what       *)
(* follows from it, and that OrderEscrow implements the escrow's promise   *)
(* (EscrowLedger): with any number of connections the ledger that may      *)
(* repeat a movement, with a single one the ledger that never does.        *)
(***************************************************************************)
EXTENDS OrderEscrowProps, TLAPS

\* A step keeps the types of the rows and of every request's state.
LEMMA TypeStep == TypeOK /\ [Next]_vars => TypeOK'
<1> USE DEF TypeOK, OrderStatus, PaymentStatus, EscrowStatus, LedgerEntry, Row, InTxn, Absent
<1> SUFFICES ASSUME TypeOK, [Next]_vars PROVE TypeOK'
  OBVIOUS
<1>1. ASSUME NEW o \in Orders, Create(o) PROVE TypeOK'
  <2>1. CASE MintIntent(o)
    BY <2>1 DEF MintIntent, orderRows, escrowRows, txnState
  <2>2. CASE CommitCreate(o)
    BY <2>2 DEF CommitCreate, orderRows, escrowRows, txnState
  <2>3. CASE RollbackCreate(o)
    BY <2>3 DEF RollbackCreate, orderRows, escrowRows, txnState
  <2>4. QED
    BY <1>1, <2>1, <2>2, <2>3 DEF Create
<1>2. ASSUME NEW r \in Requests, NEW o \in Orders, NEW s \in OrderStatus,
             NEW c \in Connections, Begin(r, o, s, c)
      PROVE  TypeOK'
  BY <1>2 DEF Begin, ConnectionFree, FirstStep, Goto, orderRows, escrowRows
<1>3. ASSUME NEW r \in Requests, NEW o \in Orders, NEW s \in OrderStatus, BeginMissing(r, o, s)
      PROVE  TypeOK'
  BY <1>3 DEF BeginMissing, Goto, orderRows, escrowRows
<1>4. ASSUME NEW r \in Requests, Rollback(r) PROVE TypeOK'
  BY <1>4 DEF Rollback, EndTxn, Goto, orderRows, escrowRows
<1>5. ASSUME NEW r \in Requests, TxnStep(r) PROVE TypeOK'
  <2>1. CASE MarkPayment(r)
    BY <2>1 DEF MarkPayment, Acquire, Goto, orderRows, escrowRows
  <2>2. CASE SkipHolding(r)
    BY <2>2 DEF SkipHolding, Goto, orderRows, escrowRows
  <2>3. CASE InsertHolding(r)
    BY <2>3 DEF InsertHolding, Acquire, Goto, orderRows, escrowRows
  <2>4. CASE InsertConflict(r)
    BY <2>4, <1>4 DEF InsertConflict
  <2>5. CASE ReadEscrow(r)
    BY <2>5 DEF ReadEscrow, NothingToSettle, EscrowRead, EscrowFor, Goto, orderRows, escrowRows
  <2>6. CASE SettleEscrow(r)
    BY <2>6 DEF SettleEscrow, EscrowFor, Acquire, Goto, orderRows, escrowRows
  <2>7. CASE UpdateOrder(r)
    BY <2>7 DEF UpdateOrder, Acquire, Goto, orderRows, escrowRows
  <2>8. CASE Commit(r)
    <3> DEFINE o == order[r]
               s == target[r]
               e == escrowWrite[r]
    <3>1. timeline' \in [Orders -> Seq(OrderStatus)]
      <4>1. \A p \in Orders : timeline'[p] = timeline[p] \/ timeline'[p] = Append(timeline[p], s)
        BY <2>8 DEF Commit
      <4>2. \A p \in Orders : Append(timeline[p], s) \in Seq(OrderStatus)
        OBVIOUS
      <4>3. QED
        BY <4>1, <4>2, <2>8 DEF Commit
    <3>2. ledger' \in [Orders -> Seq(LedgerEntry)]
      <4>1. \A p \in Orders : ledger'[p] = ledger[p] \/ ledger'[p] = Append(ledger[p], EntryFor(e))
        BY <2>8 DEF Commit
      <4>2. \A p \in Orders : Append(ledger[p], EntryFor(e)) \in Seq(LedgerEntry)
        BY DEF EntryFor
      <4>3. QED
        BY <4>1, <4>2, <2>8 DEF Commit
    <3>3. status' \in [Orders -> OrderStatus \cup {Absent}]
      BY <2>8 DEF Commit
    <3>4. /\ paymentStatus' \in [Orders -> PaymentStatus \cup {Absent}]
          /\ payment' \in [Orders -> PaymentStatus \cup {Absent}]
      BY <2>8 DEF Commit, PaymentFor
    <3>5. escrow' \in [Orders -> EscrowStatus \cup {Absent}]
      BY <2>8 DEF Commit
    <3>6. QED
      BY <2>8, <3>1, <3>2, <3>3, <3>4, <3>5 DEF Commit, EndTxn, Goto
  <2>9. QED
    BY <1>5, <2>1, <2>2, <2>3, <2>4, <2>5, <2>6, <2>7, <2>8 DEF TxnStep
<1>6. CASE UNCHANGED vars
  BY <1>6 DEF vars, orderRows, escrowRows, txnState
<1> HIDE DEF TypeOK
<1>7. QED
  BY <1>1, <1>2, <1>3, <1>4, <1>5, <1>6 DEF Next

\* Type correctness of all the rows and of every request's state, and that a
\* request in its transaction works on an existing order id.
THEOREM TypeCorrect == Spec => []TypeOK
<1>1. Init => TypeOK
  BY DEF Init, TypeOK, OrderStatus, PaymentStatus, EscrowStatus, LedgerEntry, Row, InTxn, Absent
<1>2. QED
  BY <1>1, TypeStep, PTL DEF Spec

--------------------------------------------------------------------------------
(* The steps of IInv                                                       *)

\* A step that touches no committed row keeps what IInv says of the rows.
LEMMA RowsKept ==
    ASSUME IInv, UNCHANGED <<intents, creating, orderRows, escrowRows>>
    PROVE  RowsInv' /\ RefundLeavesNoHolding' /\ EscrowIffEverPaid' /\ LedgerAccountsForEscrow'
BY DEF IInv, RowsInv, RefundLeavesNoHolding, EscrowIffEverPaid, LedgerAccountsForEscrow,
       orderRows, escrowRows, Has

\* Appending to a log adds one element to what it has.
LEMMA AppendHas ==
    ASSUME NEW S, NEW log \in Seq(S), NEW x \in S, NEW y
    PROVE  Has(Append(log, x), y) <=> Has(log, y) \/ x = y
<1>1. /\ DOMAIN log = 1..Len(log)
      /\ Len(log) \in Nat
      /\ DOMAIN Append(log, x) = 1..(Len(log) + 1)
      /\ \A i \in 1..Len(log) : Append(log, x)[i] = log[i]
      /\ Append(log, x)[Len(log) + 1] = x
  OBVIOUS
<1>2. ASSUME Has(Append(log, x), y) PROVE Has(log, y) \/ x = y
  <2>1. PICK i \in 1..(Len(log) + 1) : Append(log, x)[i] = y
    BY <1>1, <1>2 DEF Has
  <2>2. CASE i = Len(log) + 1
    BY <1>1, <2>1, <2>2
  <2>3. CASE i # Len(log) + 1
    <3>1. i \in 1..Len(log)
      BY <1>1, <2>3
    <3>2. QED
      BY <1>1, <2>1, <3>1 DEF Has
  <2>4. QED
    BY <2>2, <2>3
<1>3. ASSUME Has(log, y) \/ x = y PROVE Has(Append(log, x), y)
  <2>1. CASE Has(log, y)
    <3>1. PICK i \in 1..Len(log) : log[i] = y
      BY <1>1, <2>1 DEF Has
    <3>2. i \in 1..(Len(log) + 1) /\ Append(log, x)[i] = y
      BY <1>1, <3>1
    <3>3. QED
      BY <1>1, <3>2 DEF Has
  <2>2. CASE x = y
    <3>1. Len(log) + 1 \in 1..(Len(log) + 1)
      BY <1>1
    <3>2. QED
      BY <1>1, <2>2, <3>1 DEF Has
  <2>3. QED
    BY <1>3, <2>1, <2>2
<1>4. QED
  BY <1>2, <1>3

\* and that element is its last.
LEMMA AppendLast ==
    ASSUME NEW S, NEW log \in Seq(S), NEW x \in S
    PROVE  Append(log, x) # <<>> /\ Append(log, x)[Len(Append(log, x))] = x
<1>1. Len(Append(log, x)) = Len(log) + 1 /\ Len(log) \in Nat /\ Append(log, x)[Len(log) + 1] = x
  OBVIOUS
<1>2. Len(Append(log, x)) # 0
  BY <1>1
<1>3. Append(log, x) # <<>>
  <2>1. Len(<<>>) = 0
    OBVIOUS
  <2>2. QED
    BY <1>2, <2>1, Zenon
<1>4. QED
  BY <1>1, <1>3

\* Without orders and transactions there is nothing to be wrong.
LEMMA InitIInv == Init => IInv
BY DEF Init, IInv, RowsInv, LocksInv, RowLocksExclusive, SeenInv, WriteInv, InTxn, Absent,
       RefundLeavesNoHolding, EscrowIffEverPaid, LedgerAccountsForEscrow, Refunding, Has

\* Creating an order touches no order that a request works on.
LEMMA CreateKeepsIInv ==
    ASSUME TypeOK, IInv, NEW o \in Orders, Create(o)
    PROVE  IInv'
<1> USE DEF IInv, TypeOK, RowsInv, orderRows, escrowRows, txnState
<1>1. CASE MintIntent(o)
  BY <1>1 DEF MintIntent, LocksInv, RowLocksExclusive, SeenInv, WriteInv,
     RefundLeavesNoHolding, EscrowIffEverPaid, LedgerAccountsForEscrow, Has
<1>2. CASE CommitCreate(o)
  <2>1. status[o] = Absent /\ escrow[o] = Absent /\ o \in intents
    BY <1>2 DEF CommitCreate, Absent
  <2>2. LocksInv'
    BY <1>2 DEF CommitCreate, LocksInv, Absent
  <2>3. RowLocksExclusive' /\ SeenInv' /\ WriteInv'
    BY <1>2 DEF CommitCreate, RowLocksExclusive, SeenInv, WriteInv
  <2>4. RowsInv'
    BY <1>2, <2>1 DEF CommitCreate, Absent
  <2>5. RefundLeavesNoHolding' /\ LedgerAccountsForEscrow'
    BY <1>2 DEF CommitCreate, RefundLeavesNoHolding, LedgerAccountsForEscrow, Refunding
  <2>6. EscrowIffEverPaid'
    <3>1. ~Has(<<"PENDING">>, "PAID")
      BY DEF Has
    <3>2. QED
      BY <1>2, <2>1, <3>1 DEF CommitCreate, EscrowIffEverPaid, Absent
  <2>7. QED
    BY <2>2, <2>3, <2>4, <2>5, <2>6
<1>3. CASE RollbackCreate(o)
  BY <1>3 DEF RollbackCreate, LocksInv, RowLocksExclusive, SeenInv, WriteInv,
     RefundLeavesNoHolding, EscrowIffEverPaid, LedgerAccountsForEscrow, Has
<1>4. QED
  BY <1>1, <1>2, <1>3 DEF Create

\* A transaction begins with no locks and a fresh snapshot.
LEMMA BeginKeepsIInv ==
    ASSUME TypeOK, IInv, NEW r \in Requests, NEW o \in Orders, NEW s \in OrderStatus,
           \/ \E c \in Connections : Begin(r, o, s, c)
           \/ BeginMissing(r, o, s)
    PROVE  IInv'
<1>1. CASE \E c \in Connections : Begin(r, o, s, c)
  <2>1. PICK c \in Connections : Begin(r, o, s, c)
    BY <1>1
  <2>2. locks[r] = {} /\ escrowWrite[r] = Absent
    BY <2>1 DEF Begin, ConnectionFree, IInv, LocksInv, InTxn
  <2>3. RowsInv' /\ RefundLeavesNoHolding' /\ EscrowIffEverPaid' /\ LedgerAccountsForEscrow'
    BY <2>1, RowsKept DEF Begin
  <2>4. LocksInv'
    BY <2>1, <2>2 DEF Begin, ConnectionFree, IInv, LocksInv, TypeOK, Goto, FirstStep, TouchesPayment, InTxn,
       escrowRows, orderRows
  <2>5. RowLocksExclusive'
    BY <2>1, <2>2 DEF Begin, ConnectionFree, IInv, RowLocksExclusive, TypeOK
  <2>6. SeenInv'
    BY <2>1 DEF Begin, ConnectionFree, IInv, SeenInv, TypeOK, Goto, InTxn, escrowRows, Absent
  <2>7. WriteInv'
    BY <2>1, <2>2 DEF Begin, ConnectionFree, IInv, WriteInv, TypeOK, Goto, FirstStep, TouchesPayment,
       escrowRows, Absent
  <2>8. QED
    BY <2>3, <2>4, <2>5, <2>6, <2>7 DEF IInv
<1>2. CASE BeginMissing(r, o, s)
  <2>2. locks[r] = {} /\ escrowWrite[r] = Absent
    BY <1>2 DEF BeginMissing, IInv, LocksInv, InTxn
  <2>3. RowsInv' /\ RefundLeavesNoHolding' /\ EscrowIffEverPaid' /\ LedgerAccountsForEscrow'
    BY <1>2, RowsKept DEF BeginMissing
  <2>4. LocksInv'
    BY <1>2, <2>2 DEF BeginMissing, IInv, LocksInv, TypeOK, Goto, InTxn, escrowRows, orderRows, Absent
  <2>5. RowLocksExclusive'
    BY <1>2, <2>2 DEF BeginMissing, IInv, RowLocksExclusive, TypeOK
  <2>6. SeenInv' /\ WriteInv'
    BY <1>2, <2>2 DEF BeginMissing, IInv, SeenInv, WriteInv, TypeOK, Goto, InTxn, escrowRows, Absent
  <2>7. QED
    BY <2>3, <2>4, <2>5, <2>6 DEF IInv
<1>3. QED
  BY <1>1, <1>2

\* Ending a transaction without a write takes nothing from the others.
LEMMA RollbackKeepsIInv ==
    ASSUME TypeOK, IInv, NEW r \in Requests, Rollback(r)
    PROVE  IInv'
<1>1. RowsInv' /\ RefundLeavesNoHolding' /\ EscrowIffEverPaid' /\ LedgerAccountsForEscrow'
  BY RowsKept DEF Rollback
<1>2. LocksInv'
  BY DEF Rollback, EndTxn, Goto, IInv, LocksInv, TypeOK, InTxn, orderRows, Absent
<1>3. RowLocksExclusive'
  BY DEF Rollback, EndTxn, IInv, RowLocksExclusive, TypeOK
<1>4. SeenInv' /\ WriteInv'
  BY DEF Rollback, EndTxn, Goto, IInv, SeenInv, WriteInv, TypeOK, InTxn, escrowRows, Absent
<1>5. QED
  BY <1>1, <1>2, <1>3, <1>4 DEF IInv

\* What SeenInv and WriteInv say of the escrow row survives a step that changes
\* no committed row; r is the request that moved.
LEMMA LockStepKeepsIInv ==
    ASSUME TypeOK, IInv, NEW r \in Requests,
           \/ MarkPayment(r) \/ SkipHolding(r) \/ InsertHolding(r)
           \/ ReadEscrow(r) \/ SettleEscrow(r) \/ UpdateOrder(r)
    PROVE  IInv'
<1> USE DEF TypeOK, Goto, InTxn, escrowRows, orderRows, Absent, EscrowStatus, Refunding, Settling
<1> DEFINE Rows == UNCHANGED <<intents, creating, orderRows, escrowRows>>
<1>1. RowsInv' /\ RefundLeavesNoHolding' /\ EscrowIffEverPaid' /\ LedgerAccountsForEscrow'
  <2>1. Rows
    BY DEF MarkPayment, SkipHolding, InsertHolding, ReadEscrow, SettleEscrow, UpdateOrder
  <2>2. QED
    BY <2>1, RowsKept
<1>2. CASE MarkPayment(r)
  <2>1. LocksInv'
    BY <1>2 DEF MarkPayment, Acquire, IInv, LocksInv
  <2>2. RowLocksExclusive'
    BY <1>2 DEF MarkPayment, Acquire, Free, IInv, RowLocksExclusive
  <2>3. SeenInv' /\ WriteInv'
    BY <1>2 DEF MarkPayment, IInv, SeenInv, WriteInv
  <2>4. QED
    BY <1>1, <2>1, <2>2, <2>3 DEF IInv
<1>3. CASE SkipHolding(r)
  <2>1. LocksInv'
    BY <1>3 DEF SkipHolding, IInv, LocksInv
  <2>2. RowLocksExclusive' /\ SeenInv'
    BY <1>3 DEF SkipHolding, IInv, RowLocksExclusive, SeenInv
  <2>3. WriteInv'
    BY <1>3 DEF SkipHolding, IInv, SeenInv, WriteInv
  <2>4. QED
    BY <1>1, <2>1, <2>2, <2>3 DEF IInv
<1>4. CASE InsertHolding(r)
  <2>1. LocksInv'
    BY <1>4 DEF InsertHolding, Acquire, IInv, LocksInv
  <2>2. RowLocksExclusive'
    BY <1>4 DEF InsertHolding, Acquire, Free, IInv, RowLocksExclusive
  <2>3. SeenInv' /\ WriteInv'
    BY <1>4 DEF InsertHolding, IInv, SeenInv, WriteInv
  <2>4. QED
    BY <1>1, <2>1, <2>2, <2>3 DEF IInv
<1>5. CASE ReadEscrow(r)
  <2>1. LocksInv'
    BY <1>5 DEF ReadEscrow, NothingToSettle, EscrowRead, IInv, LocksInv
  <2>2. RowLocksExclusive'
    BY <1>5 DEF ReadEscrow, IInv, RowLocksExclusive
  <2>3. SeenInv'
    BY <1>5 DEF ReadEscrow, NothingToSettle, EscrowRead, IInv, SeenInv
  <2>4. WriteInv'
    BY <1>5 DEF ReadEscrow, NothingToSettle, EscrowRead, EscrowFor, IInv, SeenInv, WriteInv
  <2>5. QED
    BY <1>1, <2>1, <2>2, <2>3, <2>4 DEF IInv
<1>6. CASE SettleEscrow(r)
  <2>1. LocksInv'
    BY <1>6 DEF SettleEscrow, EscrowFor, Acquire, IInv, LocksInv
  <2>2. RowLocksExclusive'
    BY <1>6 DEF SettleEscrow, Acquire, Free, IInv, RowLocksExclusive
  <2>3. SeenInv'
    BY <1>6 DEF SettleEscrow, IInv, SeenInv
  <2>4. WriteInv'
    BY <1>6 DEF SettleEscrow, EscrowFor, IInv, LocksInv, SeenInv, WriteInv
  <2>5. QED
    BY <1>1, <2>1, <2>2, <2>3, <2>4 DEF IInv
<1>7. CASE UpdateOrder(r)
  <2>1. LocksInv'
    BY <1>7 DEF UpdateOrder, Acquire, IInv, LocksInv
  <2>2. RowLocksExclusive'
    BY <1>7 DEF UpdateOrder, Acquire, Free, IInv, RowLocksExclusive
  <2>3. SeenInv' /\ WriteInv'
    BY <1>7 DEF UpdateOrder, IInv, SeenInv, WriteInv
  <2>4. QED
    BY <1>1, <2>1, <2>2, <2>3 DEF IInv
<1>8. QED
  BY <1>2, <1>3, <1>4, <1>5, <1>6, <1>7

\* COMMIT: the rows change, and the others' snapshots and pending writes must
\* still fit them.
LEMMA CommitKeepsIInv ==
    ASSUME TypeOK, IInv, NEW r \in Requests, Commit(r)
    PROVE  IInv'
<1> USE DEF TypeOK, InTxn, Absent, EscrowStatus, Refunding, Settling
<1> DEFINE o == order[r]
           s == target[r]
           e == escrowWrite[r]
<1>1. o \in Orders /\ s \in OrderStatus /\ status[o] # Absent /\ pc[r] = "commit"
  BY DEF Commit, IInv, LocksInv
<1>2. \A p \in Orders :
        /\ escrow'[p] = IF p = o /\ e # Absent THEN e ELSE escrow[p]
        /\ status'[p] = IF p = o THEN s ELSE status[p]
        /\ timeline'[p] = IF p = o THEN Append(timeline[o], s) ELSE timeline[p]
        /\ ledger'[p] = IF p = o /\ e \in {"RELEASED", "REFUNDED"}
                        THEN Append(ledger[o], EntryFor(e)) ELSE ledger[p]
  BY <1>1 DEF Commit
<1>3. \A q \in Requests :
        /\ pc'[q] = IF q = r THEN "done" ELSE pc[q]
        /\ locks'[q] = IF q = r THEN {} ELSE locks[q]
        /\ escrowWrite'[q] = IF q = r THEN Absent ELSE escrowWrite[q]
        /\ seen'[q] = IF q = r THEN Absent ELSE seen[q]
        /\ order'[q] = order[q] /\ target'[q] = target[q]
  BY DEF Commit, EndTxn, Goto
<1>4. /\ e = "HOLDING" => s = "PAID" /\ escrow[o] = Absent
      /\ e \in {"RELEASED", "REFUNDED"} => s \in Settling /\ e = EscrowFor(s) /\ escrow[o] # Absent
      /\ s = "PAID" => e = "HOLDING" \/ escrow[o] # Absent
      /\ s \in Refunding => e = "REFUNDED" \/ escrow[o] # "HOLDING"
  BY <1>1 DEF IInv, WriteInv
<1>5. RowsInv'
  BY <1>1, <1>2 DEF Commit, IInv, RowsInv, OrderStatus
<1>6. LocksInv'
  BY <1>1, <1>2, <1>3 DEF IInv, LocksInv, OrderStatus
<1>7. RowLocksExclusive'
  <2> SUFFICES ASSUME NEW p \in Requests, NEW q \in Requests, p # q, order'[p] = order'[q]
               PROVE  locks'[p] \cap locks'[q] = {}
    BY DEF RowLocksExclusive
  <2>1. CASE p = r \/ q = r
    BY <1>3, <2>1
  <2>2. CASE p # r /\ q # r
    BY <1>3, <2>2 DEF IInv, RowLocksExclusive
  <2>3. QED
    BY <2>1, <2>2
<1>8. SeenInv'
  BY <1>1, <1>2, <1>3, <1>4 DEF IInv, SeenInv
<1>9. WriteInv'
  <2> SUFFICES ASSUME NEW q \in Requests
               PROVE  /\ escrowWrite'[q] = "HOLDING" => target'[q] = "PAID" /\ escrow'[order'[q]] = Absent
                      /\ escrowWrite'[q] \in {"RELEASED", "REFUNDED"} =>
                            /\ target'[q] \in Settling
                            /\ escrowWrite'[q] = EscrowFor(target'[q])
                            /\ escrow'[order'[q]] # Absent
                      /\ pc'[q] \in {"update", "commit"} /\ target'[q] = "PAID" =>
                            escrowWrite'[q] = "HOLDING" \/ escrow'[order'[q]] # Absent
                      /\ pc'[q] \in {"update", "commit"} /\ target'[q] \in Refunding =>
                            escrowWrite'[q] = "REFUNDED" \/ escrow'[order'[q]] # "HOLDING"
    BY DEF WriteInv
  <2>1. CASE q = r
    BY <1>3, <2>1
  <2>2. CASE q # r /\ pc[q] \notin {"update", "commit"}
    <3>1. escrowWrite'[q] = Absent /\ pc'[q] \notin {"update", "commit"}
      BY <1>3, <2>2 DEF IInv, LocksInv
    <3>2. QED
      BY <3>1
  <2>3. CASE q # r /\ pc[q] \in {"update", "commit"} /\ (order[q] # o \/ e = Absent)
    <3>1. order[q] \in Orders
      BY <2>3
    <3>2. escrow'[order[q]] = escrow[order[q]]
      BY <1>2, <2>3, <3>1
    <3>3. QED
      BY <1>3, <2>3, <3>2 DEF IInv, WriteInv
  <2>4. CASE q # r /\ pc[q] \in {"update", "commit"} /\ order[q] = o /\ e # Absent
    <3>1. escrowWrite[q] = Absent
      BY <2>4 DEF IInv, LocksInv, RowLocksExclusive
    <3>2. escrow'[o] = e
      BY <1>1, <1>2, <2>4
    <3>3. target[q] \in Refunding => e # "HOLDING"
      <4> SUFFICES ASSUME target[q] \in Refunding, e = "HOLDING" PROVE FALSE
        OBVIOUS
      <4>1. "payment" \in locks[q]
        BY <2>4 DEF IInv, LocksInv, TouchesPayment
      <4>2. "payment" \in locks[r]
        BY <1>1, <1>4 DEF IInv, LocksInv, TouchesPayment
      <4>3. QED
        BY <2>4, <4>1, <4>2 DEF IInv, RowLocksExclusive
    <3>4. QED
      BY <1>3, <2>4, <3>1, <3>2, <3>3
  <2>5. QED
    BY <2>1, <2>2, <2>3, <2>4
<1>10. RefundLeavesNoHolding'
  BY <1>1, <1>2, <1>4 DEF IInv, RefundLeavesNoHolding
<1>11. EscrowIffEverPaid'
  <2>1. Has(timeline'[o], "PAID") <=> Has(timeline[o], "PAID") \/ s = "PAID"
    BY <1>1, <1>2, AppendHas
  <2>2. QED
    BY <1>1, <1>2, <1>4, <2>1 DEF IInv, EscrowIffEverPaid
<1>12. LedgerAccountsForEscrow'
  <2> SUFFICES ASSUME NEW p \in Orders
               PROVE  IF escrow'[p] \in {"RELEASED", "REFUNDED"}
                      THEN ledger'[p] # <<>> /\ ledger'[p][Len(ledger'[p])] = EntryFor(escrow'[p])
                      ELSE ledger'[p] = <<>>
    BY DEF LedgerAccountsForEscrow, EntryFor
  <2>1. CASE p = o /\ e \in {"RELEASED", "REFUNDED"}
    <3>1. ledger'[p] = Append(ledger[o], EntryFor(e)) /\ escrow'[p] = e
      BY <1>2, <2>1
    <3>2. ledger[o] \in Seq(LedgerEntry) /\ EntryFor(e) \in LedgerEntry
      BY <1>1 DEF EntryFor, LedgerEntry
    <3>3. /\ Append(ledger[o], EntryFor(e)) # <<>>
          /\ Append(ledger[o], EntryFor(e))[Len(Append(ledger[o], EntryFor(e)))] = EntryFor(e)
      BY ONLY <3>2, AppendLast
    <3>4. QED
      BY <2>1, <3>1, <3>3
  <2>2. CASE ~(p = o /\ e \in {"RELEASED", "REFUNDED"})
    <3>1. ledger'[p] = ledger[p]
      BY <1>2, <2>2
    <3>2. escrow'[p] = escrow[p] \/ (escrow[p] = Absent /\ escrow'[p] = "HOLDING")
      BY <1>1, <1>2, <1>4, <2>2
    <3>3. QED
      BY <3>1, <3>2 DEF IInv, LedgerAccountsForEscrow, EntryFor
  <2>3. QED
    BY <2>1, <2>2
<1>13. QED
  BY <1>5, <1>6, <1>7, <1>8, <1>9, <1>10, <1>11, <1>12 DEF IInv

--------------------------------------------------------------------------------
(* The theorems                                                            *)

\* Every step keeps what transactions know and what the escrow rows promise.
LEMMA StepKeepsIInv == TypeOK /\ IInv /\ [Next]_vars => IInv'
<1> SUFFICES ASSUME TypeOK, IInv, [Next]_vars PROVE IInv'
  OBVIOUS
<1>1. ASSUME NEW o \in Orders, Create(o) PROVE IInv'
  BY <1>1, CreateKeepsIInv
<1>2. ASSUME NEW r \in Requests, NEW o \in Orders, NEW s \in OrderStatus,
             (\E c \in Connections : Begin(r, o, s, c)) \/ BeginMissing(r, o, s)
      PROVE  IInv'
  BY <1>2, BeginKeepsIInv
<1>3. ASSUME NEW r \in Requests, TxnStep(r) PROVE IInv'
  BY <1>3, LockStepKeepsIInv, CommitKeepsIInv, RollbackKeepsIInv DEF TxnStep, InsertConflict
<1>4. ASSUME NEW r \in Requests, Rollback(r) PROVE IInv'
  BY <1>4, RollbackKeepsIInv
<1>5. CASE UNCHANGED vars
  <2>1. RowsInv' /\ RefundLeavesNoHolding' /\ EscrowIffEverPaid' /\ LedgerAccountsForEscrow'
    BY <1>5, RowsKept DEF vars
  <2>2. LocksInv' /\ RowLocksExclusive' /\ SeenInv' /\ WriteInv'
    BY <1>5 DEF vars, orderRows, escrowRows, txnState, IInv, LocksInv, RowLocksExclusive, SeenInv, WriteInv
  <2>3. QED
    BY <2>1, <2>2 DEF IInv
<1>6. QED
  BY <1>1, <1>2, <1>3, <1>4, <1>5 DEF Next

\* Whatever the transactions under way have read, locked and not yet written
\* fits the committed rows, in every reachable state: the invariant the
\* properties below follow from.
THEOREM InductiveInvariant == Spec => []IInv
<1>1. QED
  BY TypeCorrect, InitIInv, StepKeepsIInv, PTL DEF Spec

\* A cancelled or refunded order never has money left in escrow, for any number
\* of overlapping payments, releases and refunds.
THEOREM RefundSafety == Spec => []RefundLeavesNoHolding
<1>1. IInv => RefundLeavesNoHolding
  BY DEF IInv
<1>2. QED
  BY <1>1, InductiveInvariant, PTL

\* A holding exists exactly for the orders that have once been paid.
THEOREM EscrowExistence == Spec => []EscrowIffEverPaid
<1>1. IInv => EscrowIffEverPaid
  BY DEF IInv
<1>2. QED
  BY <1>1, InductiveInvariant, PTL

\* The last entry of the ledger always accounts for the holding's status.
THEOREM LedgerSafety == Spec => []LedgerAccountsForEscrow
<1>1. IInv => LedgerAccountsForEscrow
  BY DEF IInv
<1>2. QED
  BY <1>1, InductiveInvariant, PTL

--------------------------------------------------------------------------------
\* Only COMMIT changes the escrow rows.
LEMMA EscrowRowsStep ==
    ASSUME [Next]_vars
    PROVE  (\E r \in Requests : Commit(r)) \/ UNCHANGED <<escrow, ledger>>
<1>1. ASSUME NEW o \in Orders, Create(o) PROVE UNCHANGED <<escrow, ledger>>
  BY <1>1 DEF Create, MintIntent, CommitCreate, RollbackCreate, escrowRows
<1>2. ASSUME NEW r \in Requests, NEW o \in Orders, NEW s \in OrderStatus,
             (\E c \in Connections : Begin(r, o, s, c)) \/ BeginMissing(r, o, s) \/ Rollback(r)
      PROVE  UNCHANGED <<escrow, ledger>>
  BY <1>2 DEF Begin, ConnectionFree, BeginMissing, Rollback, escrowRows
<1>3. ASSUME NEW r \in Requests, TxnStep(r), ~Commit(r)
      PROVE  UNCHANGED <<escrow, ledger>>
  BY <1>3 DEF TxnStep, MarkPayment, SkipHolding, InsertHolding, InsertConflict, Rollback,
     ReadEscrow, SettleEscrow, UpdateOrder, escrowRows
<1>4. ASSUME NEW r \in Requests, Rollback(r) PROVE UNCHANGED <<escrow, ledger>>
  BY <1>4 DEF Rollback, escrowRows
<1>5. CASE UNCHANGED vars
  BY <1>5 DEF vars, escrowRows
<1>6. QED
  BY <1>1, <1>2, <1>3, <1>4, <1>5 DEF Next

\* What COMMIT does to the escrow rows: nothing, a first hold, or a movement.
LEMMA CommitEscrow ==
    ASSUME TypeOK, IInv, NEW r \in Requests, Commit(r)
    PROVE  /\ order[r] \in Orders
           /\ \/ escrowWrite[r] = Absent /\ UNCHANGED <<escrow, ledger>>
              \/ /\ escrowWrite[r] = "HOLDING"
                 /\ escrow[order[r]] = Absent
                 /\ escrow' = [escrow EXCEPT ![order[r]] = "HOLDING"]
                 /\ UNCHANGED ledger
              \/ /\ escrowWrite[r] \in {"RELEASED", "REFUNDED"}
                 /\ escrow[order[r]] # Absent
                 /\ escrow' = [escrow EXCEPT ![order[r]] = escrowWrite[r]]
                 /\ ledger' = [ledger EXCEPT ![order[r]] = Append(@, EntryFor(escrowWrite[r]))]
<1>1. order[r] \in Orders
  BY DEF Commit, TypeOK, InTxn
<1>2. escrowWrite[r] \in {Absent, "HOLDING", "RELEASED", "REFUNDED"}
  BY DEF TypeOK, EscrowStatus
<1>3. CASE escrowWrite[r] = Absent
  BY <1>1, <1>3 DEF Commit, Absent
<1>4. CASE escrowWrite[r] = "HOLDING"
  BY <1>1, <1>4 DEF Commit, Absent, IInv, WriteInv
<1>5. CASE escrowWrite[r] \in {"RELEASED", "REFUNDED"}
  BY <1>1, <1>5 DEF Commit, Absent, IInv, WriteInv
<1>6. QED
  BY <1>2, <1>3, <1>4, <1>5

\* Every behaviour of the orders is, seen from the escrow rows, a behaviour of
\* the ledger: held once, then only moved, each movement with its entry.
THEOREM LedgerRefinement == Spec => ImplementsLedger
<1>1. Init => AnyLedger!Init
  BY DEF Init, AnyLedger!Init, Absent
<1>2. TypeOK /\ IInv /\ [Next]_vars => [AnyLedger!Next]_<<escrow, ledger>>
  <2> SUFFICES ASSUME TypeOK, IInv, NEW r \in Requests, Commit(r)
               PROVE  [AnyLedger!Next]_<<escrow, ledger>>
    BY EscrowRowsStep
  <2>1. CASE escrowWrite[r] = Absent
    BY <2>1, CommitEscrow DEF Absent
  <2>2. CASE escrowWrite[r] = "HOLDING"
    <3>1. AnyLedger!Hold(order[r])
      BY <2>2, CommitEscrow DEF AnyLedger!Hold, Absent
    <3>2. QED
      BY <3>1, CommitEscrow DEF AnyLedger!Next
  <2>3. CASE escrowWrite[r] \in {"RELEASED", "REFUNDED"}
    <3>1. AnyLedger!Move(order[r], escrowWrite[r])
      BY <2>3, CommitEscrow DEF AnyLedger!Move, AnyLedger!Entry, EntryFor, Absent
    <3>2. escrowWrite[r] \in AnyLedger!Places
      BY <2>3 DEF AnyLedger!Places
    <3>3. QED
      BY <3>1, <3>2, CommitEscrow DEF AnyLedger!Next
  <2>4. QED
    BY <2>1, <2>2, <2>3 DEF TypeOK, EscrowStatus
<1>3. QED
  BY <1>1, <1>2, TypeCorrect, InductiveInvariant, PTL DEF Spec, ImplementsLedger, AnyLedger!Spec

\* Money that has left escrow is never held again and no holding vanishes.
THEOREM NoReturn == Spec => EscrowNeverReturns
<1>1. TypeOK /\ IInv /\ [Next]_vars => [\A o \in Orders : EscrowStep(o)]_vars
  <2> SUFFICES ASSUME TypeOK, IInv, [Next]_vars, NEW o \in Orders PROVE EscrowStep(o)
    OBVIOUS
  <2>1. CASE \E r \in Requests : Commit(r)
    <3>1. PICK r \in Requests : Commit(r)
      BY <2>1
    <3>2. QED
      BY <3>1, CommitEscrow DEF EscrowStep, TypeOK
  <2>2. CASE UNCHANGED <<escrow, ledger>>
    BY <2>2 DEF EscrowStep
  <2>3. QED
    BY <2>1, <2>2, EscrowRowsStep
<1>2. QED
  BY <1>1, TypeCorrect, InductiveInvariant, PTL DEF Spec, EscrowNeverReturns

--------------------------------------------------------------------------------
(* One request at a time.  With a single connection the open transaction   *)
(* is the only one, its snapshot of the escrow cannot go stale, and the    *)
(* early returns of handleEscrowRelease and handleEscrowRefund do what     *)
(* they are there for.                                                     *)

\* No two transactions are open on the same connection.
LEMMA ConnStep == TypeOK /\ ConnInv /\ [Next]_vars => ConnInv'
<1> SUFFICES ASSUME TypeOK, ConnInv, [Next]_vars PROVE ConnInv'
  OBVIOUS
<1> USE DEF TypeOK, ConnInv, InTxn, Goto
<1>1. ASSUME NEW o \in Orders, Create(o) PROVE ConnInv'
  BY <1>1 DEF Create, MintIntent, CommitCreate, RollbackCreate, txnState
<1>2. ASSUME NEW r \in Requests, NEW o \in Orders, NEW s \in OrderStatus,
             NEW c \in Connections, Begin(r, o, s, c)
      PROVE  ConnInv'
  BY <1>2 DEF Begin, ConnectionFree
<1>3. ASSUME NEW r \in Requests, NEW o \in Orders, NEW s \in OrderStatus, BeginMissing(r, o, s)
      PROVE  ConnInv'
  BY <1>3 DEF BeginMissing
<1>4. ASSUME NEW r \in Requests, Rollback(r) PROVE ConnInv'
  BY <1>4 DEF Rollback, EndTxn
<1>5. ASSUME NEW r \in Requests, Commit(r) PROVE ConnInv'
  BY <1>5 DEF Commit, EndTxn
<1>6. ASSUME NEW r \in Requests, TxnStep(r), ~Commit(r) PROVE ConnInv'
  <2>1. CASE InsertConflict(r)
    BY <1>4, <2>1 DEF InsertConflict
  <2>2. CASE \/ MarkPayment(r) \/ SkipHolding(r) \/ InsertHolding(r)
             \/ ReadEscrow(r) \/ SettleEscrow(r) \/ UpdateOrder(r)
    <3>1. conn' = conn /\ \A q \in Requests : pc'[q] \in InTxn => pc[q] \in InTxn
      BY <2>2 DEF MarkPayment, SkipHolding, InsertHolding, ReadEscrow, SettleEscrow, UpdateOrder
    <3>2. QED
      BY <3>1
  <2>4. QED
    BY <1>6, <2>1, <2>2 DEF TxnStep
<1>7. CASE UNCHANGED vars
  BY <1>7 DEF vars, txnState
<1> HIDE DEF ConnInv, TypeOK
<1>8. QED
  BY <1>1, <1>2, <1>3, <1>4, <1>5, <1>6, <1>7 DEF Next

\* What SerialInv says of one request
RequestInv(r) ==
    LET now == escrow[order[r]]
    IN  /\ pc[r] \in InTxn => seen[r] = now
        /\ pc[r] = "settle" => now # EscrowFor(target[r])
        /\ escrowWrite[r] # Absent => now # escrowWrite[r]
        /\ pc[r] \in {"update", "commit"} /\ target[r] \in Settling =>
              escrowWrite[r] = EscrowFor(target[r]) \/ now \in {Absent, EscrowFor(target[r])}

\* The open transaction is alone.
LEMMA Alone ==
    ASSUME ConnInv, Serial, NEW p \in Requests, NEW q \in Requests,
           pc[p] \in InTxn, pc[q] \in InTxn
    PROVE  p = q
BY DEF ConnInv, Serial

\* A request outside its transaction has nothing to keep.
LEMMA Outside ==
    ASSUME IInv, NEW r \in Requests, pc[r] \notin InTxn
    PROVE  RequestInv(r)
BY DEF IInv, LocksInv, RequestInv, InTxn

\* A step of request r that leaves the committed escrow alone keeps RequestInv.
LEMMA OwnStep ==
    ASSUME TypeOK, IInv, IInv', NEW r \in Requests, RequestInv(r),
           UNCHANGED <<escrow, order, target>>,
           \/ MarkPayment(r) \/ SkipHolding(r) \/ InsertHolding(r)
           \/ ReadEscrow(r) \/ SettleEscrow(r) \/ UpdateOrder(r)
    PROVE  RequestInv(r)'
<1> USE DEF RequestInv, TypeOK, InTxn, Goto, Absent, EscrowStatus, Refunding, Settling
<1>1. CASE MarkPayment(r)
  BY <1>1 DEF MarkPayment, IInv, LocksInv
<1>2. CASE SkipHolding(r)
  BY <1>2 DEF SkipHolding, IInv, LocksInv
<1>3. CASE InsertHolding(r)
  BY <1>3 DEF InsertHolding
<1>4. CASE ReadEscrow(r)
  BY <1>4 DEF ReadEscrow, NothingToSettle, EscrowRead, IInv, LocksInv
<1>5. CASE SettleEscrow(r)
  BY <1>5 DEF SettleEscrow, EscrowFor
<1>6. CASE UpdateOrder(r)
  BY <1>6 DEF UpdateOrder
<1>7. QED
  BY <1>1, <1>2, <1>3, <1>4, <1>5, <1>6

\* Every step keeps the invariant of the serial pool.
LEMMA SerialStep == TypeOK /\ IInv /\ IInv' /\ TypeOK' /\ SerialInv /\ [Next]_vars => SerialInv'
<1> SUFFICES ASSUME TypeOK, TypeOK', IInv, IInv', SerialInv, [Next]_vars PROVE SerialInv'
  OBVIOUS
<1>1. ConnInv /\ ConnInv'
  BY ConnStep DEF SerialInv
<1>2. SUFFICES ASSUME Serial
               PROVE  /\ \A q \in Requests : RequestInv(q)'
                      /\ SettledOrderAgrees'
  BY <1>1 DEF SerialInv, SettledOrderAgrees, RequestInv, Serial
<1>3. \A q \in Requests : RequestInv(q)
  BY <1>2 DEF SerialInv, RequestInv
<1>4. \A q \in Requests : pc'[q] \notin InTxn => RequestInv(q)'
  BY Outside DEF IInv, LocksInv, RequestInv, InTxn
<1>5. SettledOrderAgrees /\ UNCHANGED <<status, escrow>> => SettledOrderAgrees'
  BY DEF SettledOrderAgrees, Serial
<1>6. ASSUME UNCHANGED <<status, escrow, pc, order, target, seen, escrowWrite>>
      PROVE  (\A q \in Requests : RequestInv(q)') /\ SettledOrderAgrees'
  BY <1>3, <1>5, <1>6 DEF RequestInv, SerialInv
<1>7. ASSUME NEW o \in Orders, Create(o)
      PROVE  (\A q \in Requests : RequestInv(q)') /\ SettledOrderAgrees'
  <2>1. CASE MintIntent(o) \/ RollbackCreate(o)
    BY <1>6, <2>1 DEF MintIntent, RollbackCreate, orderRows, escrowRows, txnState
  <2>2. CASE CommitCreate(o)
    <3>1. \A q \in Requests : RequestInv(q)'
      BY <1>3, <2>2 DEF CommitCreate, escrowRows, txnState, RequestInv
    <3>2. SettledOrderAgrees'
      BY <2>2 DEF CommitCreate, escrowRows, SerialInv, SettledOrderAgrees, TypeOK, Settling,
         Refunding, Serial
    <3>3. QED
      BY <3>1, <3>2
  <2>3. QED
    BY <1>7, <2>1, <2>2 DEF Create
<1>8. ASSUME NEW r \in Requests, NEW o \in Orders, NEW s \in OrderStatus,
             NEW c \in Connections, Begin(r, o, s, c)
      PROVE  (\A q \in Requests : RequestInv(q)') /\ SettledOrderAgrees'
  <2>1. pc'[r] \in {"payment", "escrow", "update"} /\ (pc'[r] = "update" => s \notin Settling)
    BY <1>8 DEF Begin, ConnectionFree, Goto, FirstStep, TouchesPayment, Settling, Refunding, TypeOK
  <2>2. escrowWrite'[r] = Absent
    BY <1>8 DEF Begin, ConnectionFree, IInv, LocksInv, InTxn
  <2>3. seen'[r] = escrow'[order'[r]] /\ target'[r] = s
    BY <1>8 DEF Begin, ConnectionFree, TypeOK, escrowRows
  <2>4. RequestInv(r)'
    BY <2>1, <2>2, <2>3 DEF RequestInv
  <2>5. \A q \in Requests : q # r => pc'[q] \notin InTxn
    <3>1. pc'[r] \in InTxn
      BY <2>1 DEF InTxn
    <3>2. QED
      BY <1>1, <1>2, <3>1 DEF ConnInv, Serial
  <2>6. SettledOrderAgrees'
    BY <1>5, <1>8 DEF Begin, ConnectionFree, orderRows, escrowRows, SerialInv
  <2>7. QED
    BY <1>4, <2>4, <2>5, <2>6
<1>9. ASSUME NEW r \in Requests,
             (\E o \in Orders, s \in OrderStatus : BeginMissing(r, o, s)) \/ Rollback(r)
      PROVE  (\A q \in Requests : RequestInv(q)') /\ SettledOrderAgrees'
  <2>1. UNCHANGED <<status, escrow>> /\ pc'[r] \notin InTxn
    BY <1>9 DEF BeginMissing, Rollback, Goto, TypeOK, InTxn, orderRows, escrowRows
  <2>2. ASSUME NEW q \in Requests, q # r PROVE RequestInv(q)'
    BY <1>3, <1>9, <2>2 DEF BeginMissing, Rollback, EndTxn, Goto, TypeOK, RequestInv, escrowRows
  <2>3. QED
    BY <1>4, <1>5, <2>1, <2>2 DEF SerialInv
<1>10. ASSUME NEW r \in Requests, Commit(r)
       PROVE  (\A q \in Requests : RequestInv(q)') /\ SettledOrderAgrees'
  <2>1. pc[r] \in InTxn /\ pc'[r] \notin InTxn /\ \A q \in Requests : q # r => pc'[q] = pc[q]
    BY <1>10 DEF Commit, Goto, TypeOK, InTxn
  <2>2. \A q \in Requests : pc'[q] \notin InTxn
    BY <1>1, <1>2, <2>1, Alone
  <2>3. SettledOrderAgrees'
    <3>1. order[r] \in Orders /\ status' = [status EXCEPT ![order[r]] = target[r]]
      BY <1>10, <2>1 DEF Commit, TypeOK
    <3>2. target[r] \in Settling =>
             \/ escrowWrite[r] = EscrowFor(target[r])
             \/ escrow[order[r]] \in {Absent, EscrowFor(target[r])}
      BY <1>3, <1>10 DEF Commit, RequestInv
    <3>3. /\ escrowWrite[r] = "HOLDING" => target[r] = "PAID"
          /\ escrowWrite[r] \in {"RELEASED", "REFUNDED"} => escrowWrite[r] = EscrowFor(target[r])
      BY DEF IInv, WriteInv
    <3>4. escrowWrite[r] \in {Absent, "HOLDING", "RELEASED", "REFUNDED"}
      BY DEF TypeOK, EscrowStatus
    <3>5. escrow' = IF escrowWrite[r] # Absent THEN [escrow EXCEPT ![order[r]] = escrowWrite[r]] ELSE escrow
      BY <1>10 DEF Commit
    <3>6. EscrowFor(target[r]) \in {"RELEASED", "REFUNDED"}
      BY DEF EscrowFor
    <3>7. SUFFICES ASSUME NEW o \in Orders, status'[o] \in Settling, escrow'[o] # Absent
                   PROVE  escrow'[o] = EscrowFor(status'[o])
      BY DEF SettledOrderAgrees
    <3>8. CASE o # order[r]
      <4>1. status'[o] = status[o] /\ escrow'[o] = escrow[o]
        BY <3>1, <3>5, <3>8 DEF TypeOK
      <4>2. QED
        BY <1>2, <3>7, <4>1 DEF SerialInv, SettledOrderAgrees
    <3>9. CASE o = order[r]
      <4>1. status'[o] = target[r]
        BY <3>1, <3>9 DEF TypeOK
      <4>2. escrow'[o] = IF escrowWrite[r] # Absent THEN escrowWrite[r] ELSE escrow[o]
        BY <3>1, <3>5, <3>9 DEF TypeOK
      <4>3. QED
        BY <3>2, <3>3, <3>4, <3>6, <3>7, <3>9, <4>1, <4>2 DEF Settling, Refunding, Absent
    <3>10. QED
      BY <3>8, <3>9
  <2>4. QED
    BY <1>4, <2>2, <2>3
<1>11. ASSUME NEW r \in Requests,
              \/ MarkPayment(r) \/ SkipHolding(r) \/ InsertHolding(r)
              \/ ReadEscrow(r) \/ SettleEscrow(r) \/ UpdateOrder(r)
       PROVE  (\A q \in Requests : RequestInv(q)') /\ SettledOrderAgrees'
  <2>1. UNCHANGED <<status, escrow, order, target>>
    BY <1>11 DEF MarkPayment, SkipHolding, InsertHolding, ReadEscrow, SettleEscrow, UpdateOrder,
       orderRows, escrowRows
  <2>2. RequestInv(r)'
    BY <1>3, <1>11, <2>1, OwnStep
  <2>3. pc[r] \in InTxn
    BY <1>11 DEF MarkPayment, SkipHolding, InsertHolding, ReadEscrow, SettleEscrow, UpdateOrder, InTxn
  <2>4. \A q \in Requests : q # r => pc'[q] = pc[q]
    BY <1>11 DEF MarkPayment, SkipHolding, InsertHolding, ReadEscrow, SettleEscrow, UpdateOrder,
       Goto, TypeOK
  <2>5. \A q \in Requests : q # r => pc'[q] \notin InTxn
    BY <1>1, <1>2, <2>3, <2>4, Alone
  <2>6. QED
    BY <1>4, <1>5, <2>1, <2>2, <2>5 DEF SerialInv
<1>12. CASE UNCHANGED vars
  BY <1>6, <1>12 DEF vars, orderRows, escrowRows, txnState
<1>13. QED
  BY <1>7, <1>8, <1>9, <1>10, <1>11, <1>12 DEF Next, TxnStep, InsertConflict

\* Connections are exclusive; and with a single one the open transaction sees
\* the escrow as it is.
THEOREM SerialInvariant == Spec => []SerialInv
<1>1. Init => SerialInv
  BY DEF Init, SerialInv, ConnInv, SettledOrderAgrees, InTxn, Absent
<1>2. QED
  BY <1>1, SerialStep, TypeCorrect, InductiveInvariant, PTL DEF Spec

\* One request at a time: a settled order and its holding agree on who got the
\* money.
THEOREM SerialAgreement == Spec => []SettledOrderAgrees
<1>1. SerialInv => SettledOrderAgrees
  BY DEF SerialInv
<1>2. QED
  BY <1>1, SerialInvariant, PTL

\* One request at a time: the escrow rows behave as the ledger that never makes
\* the same movement twice in a row.
THEOREM StrictLedgerRefinement ==
    ASSUME Serial
    PROVE  Spec => ImplementsStrictLedger
<1>1. Init => StrictLedger!Init
  BY DEF Init, StrictLedger!Init, Absent
<1>2. TypeOK /\ IInv /\ SerialInv /\ [Next]_vars => [StrictLedger!Next]_<<escrow, ledger>>
  <2> SUFFICES ASSUME TypeOK, IInv, SerialInv, NEW r \in Requests, Commit(r)
               PROVE  [StrictLedger!Next]_<<escrow, ledger>>
    BY EscrowRowsStep
  <2>1. CASE escrowWrite[r] = Absent
    BY <2>1, CommitEscrow DEF Absent
  <2>2. CASE escrowWrite[r] = "HOLDING"
    <3>1. StrictLedger!Hold(order[r])
      BY <2>2, CommitEscrow DEF StrictLedger!Hold, Absent
    <3>2. QED
      BY <3>1, CommitEscrow DEF StrictLedger!Next
  <2>3. CASE escrowWrite[r] \in {"RELEASED", "REFUNDED"}
    <3>1. escrow[order[r]] # escrowWrite[r]
      BY <2>3 DEF SerialInv, Absent
    <3>2. StrictLedger!Move(order[r], escrowWrite[r])
      BY <2>3, <3>1, CommitEscrow DEF StrictLedger!Move, StrictLedger!Entry, EntryFor, Absent
    <3>3. escrowWrite[r] \in StrictLedger!Places
      BY <2>3 DEF StrictLedger!Places
    <3>4. QED
      BY <3>2, <3>3, CommitEscrow DEF StrictLedger!Next
  <2>4. QED
    BY <2>1, <2>2, <2>3 DEF TypeOK, EscrowStatus
<1>3. QED
  BY <1>1, <1>2, TypeCorrect, InductiveInvariant, SerialInvariant, PTL
     DEF Spec, ImplementsStrictLedger, StrictLedger!Spec

--------------------------------------------------------------------------------
\* A step of another request, or of a create, leaves a request where it is.
LEMMA OthersStand ==
    ASSUME TypeOK, [Next]_vars, NEW r \in Requests
    PROVE  \/ UNCHANGED <<pc[r], order[r], locks[r]>>
           \/ pc[r] = "idle" /\ locks'[r] = locks[r]
           \/ TxnStep(r) \/ Rollback(r)
<1> USE DEF TypeOK
<1>1. CASE UNCHANGED vars \/ \E o \in Orders : Create(o)
  BY <1>1 DEF vars, txnState, Create, MintIntent, CommitCreate, RollbackCreate
<1>2. ASSUME NEW q \in Requests, NEW o \in Orders, NEW s \in OrderStatus,
             (\E c \in Connections : Begin(q, o, s, c)) \/ BeginMissing(q, o, s)
      PROVE  \/ UNCHANGED <<pc[r], order[r], locks[r]>>
             \/ pc[r] = "idle" /\ locks'[r] = locks[r]
  BY <1>2 DEF Begin, BeginMissing, Goto
<1>3. ASSUME NEW q \in Requests, q # r, TxnStep(q) \/ Rollback(q)
      PROVE  UNCHANGED <<pc[r], order[r], locks[r]>>
  BY <1>3 DEF TxnStep, MarkPayment, SkipHolding, InsertHolding, InsertConflict, ReadEscrow,
     SettleEscrow, UpdateOrder, Commit, Rollback, EndTxn, Acquire, Goto
<1>4. QED
  BY <1>1, <1>2, <1>3 DEF Next

\* Each statement locks its row and goes past it; the end gives all rows back.
LEMMA LocksStayBehind ==
    ASSUME TypeOK, LocksAreBehind, [Next]_vars
    PROVE  LocksAreBehind'
<1> SUFFICES ASSUME NEW r \in Requests
             PROVE  /\ "payment" \in locks'[r] => pc'[r] \in InTxn \ {"payment"}
                    /\ "escrow" \in locks'[r] => pc'[r] \in {"update", "commit"}
                    /\ "order" \in locks'[r] => pc'[r] = "commit"
  BY DEF LocksAreBehind
<1> USE DEF TypeOK, InTxn
<1>1. CASE UNCHANGED <<pc[r], order[r], locks[r]>> \/ (pc[r] = "idle" /\ locks'[r] = locks[r])
  BY <1>1 DEF LocksAreBehind, Row
<1>2. CASE MarkPayment(r)
  BY <1>2 DEF MarkPayment, Acquire, Goto, LocksAreBehind
<1>3. CASE SkipHolding(r)
  BY <1>3 DEF SkipHolding, Goto, LocksAreBehind
<1>4. CASE InsertHolding(r)
  BY <1>4 DEF InsertHolding, Acquire, Goto, LocksAreBehind
<1>5. CASE ReadEscrow(r)
  BY <1>5 DEF ReadEscrow, Goto, LocksAreBehind
<1>6. CASE SettleEscrow(r)
  BY <1>6 DEF SettleEscrow, Acquire, Goto, LocksAreBehind
<1>7. CASE UpdateOrder(r)
  BY <1>7 DEF UpdateOrder, Acquire, Goto, LocksAreBehind
<1>8. CASE Commit(r) \/ Rollback(r) \/ InsertConflict(r)
  BY <1>8 DEF Commit, Rollback, InsertConflict, EndTxn, Goto
<1>9. QED
  BY <1>1, <1>2, <1>3, <1>4, <1>5, <1>6, <1>7, <1>8, OthersStand DEF TxnStep

\* Rows are locked in one order, payment, escrow, order, so whoever is waited for is
\* further on.
LEMMA LockOrder ==
    ASSUME LocksAreBehind
    PROVE  WaitsGoForward
<1> USE DEF InTxn
<1>1. ASSUME NEW r \in Requests, NEW q \in Requests, WaitsFor(r, q)
      PROVE  Place(pc[r]) < Place(pc[q])
  BY <1>1 DEF WaitsFor, NextRow, Place, LocksAreBehind
<1>2. ASSUME NEW r \in Requests, pc[r] \in InTxn
      PROVE  \E p \in Requests : pc[p] \in InTxn /\ \A q \in Requests : ~WaitsFor(p, q)
  <2>1. ASSUME NEW p \in Requests, pc[p] = "commit"
        PROVE  \A q \in Requests : ~WaitsFor(p, q)
    BY <2>1 DEF WaitsFor, NextRow
  <2>2. ASSUME NEW p \in Requests, pc[p] = "update", \A q \in Requests : pc[q] # "commit"
        PROVE  \A q \in Requests : ~WaitsFor(p, q)
    BY <2>2 DEF WaitsFor, NextRow, LocksAreBehind
  <2>3. ASSUME NEW p \in Requests, pc[p] \in {"escrow", "settle"},
               \A q \in Requests : pc[q] \notin {"update", "commit"}
        PROVE  \A q \in Requests : ~WaitsFor(p, q)
    BY <2>3 DEF WaitsFor, NextRow, LocksAreBehind
  <2>4. ASSUME NEW p \in Requests, pc[p] = "payment",
               \A q \in Requests : pc[q] \notin InTxn \ {"payment"}
        PROVE  \A q \in Requests : ~WaitsFor(p, q)
    BY <2>4 DEF WaitsFor, NextRow, LocksAreBehind
  <2>5. QED
    BY <1>2, <2>1, <2>2, <2>3, <2>4
<1>3. QED
  BY <1>1, <1>2 DEF WaitsGoForward

\* Requests never wait for each other's rows in a circle: the holder is always further on.
THEOREM NobodyWaitsInACircle == Spec => [](LocksAreBehind /\ WaitsGoForward)
<1>1. Init => LocksAreBehind
  BY DEF Init, LocksAreBehind
<1>2. TypeOK /\ LocksAreBehind /\ [Next]_vars => LocksAreBehind'
  BY LocksStayBehind
<1>3. LocksAreBehind => WaitsGoForward
  BY LockOrder
<1>4. QED
  BY <1>1, <1>2, <1>3, TypeCorrect, PTL DEF Spec

\* An open transaction makes its statements in order, each once and none while it waits,
\* so with fairness it ends.
THEOREM TransactionsGoForward == Spec => [][StepsGoForward]_vars
<1>1. ASSUME TypeOK, Next PROVE StepsGoForward
  <2> SUFFICES ASSUME NEW r \in Requests, pc[r] \in InTxn, pc'[r] # pc[r]
               PROVE  /\ Place(pc[r]) < Place(pc'[r])
                      /\ pc'[r] # "failed" => \A q \in Requests : ~WaitsFor(r, q)
    BY DEF StepsGoForward
  <2>1. TxnStep(r) \/ Rollback(r)
    BY <1>1, OthersStand DEF InTxn
  <2> USE <1>1 DEF TypeOK, Goto
  <2>2. CASE MarkPayment(r)
    BY <2>2 DEF MarkPayment, Free, Place, WaitsFor, NextRow
  <2>3. CASE SkipHolding(r)
    BY <2>3 DEF SkipHolding, Place, WaitsFor, NextRow
  <2>4. CASE InsertHolding(r)
    BY <2>4 DEF InsertHolding, Free, Place, WaitsFor, NextRow
  <2>5. CASE ReadEscrow(r)
    BY <2>5 DEF ReadEscrow, Settling, Refunding, Place, WaitsFor, NextRow
  <2>6. CASE SettleEscrow(r)
    BY <2>6 DEF SettleEscrow, Free, Place, WaitsFor, NextRow
  <2>7. CASE UpdateOrder(r)
    BY <2>7 DEF UpdateOrder, Free, Place, WaitsFor, NextRow
  <2>8. CASE Commit(r)
    BY <2>8 DEF Commit, Place, WaitsFor, NextRow
  <2>9. CASE Rollback(r) \/ InsertConflict(r)
    BY <2>9 DEF Rollback, InsertConflict, InTxn, Place
  <2>10. QED
    BY <2>1, <2>2, <2>3, <2>4, <2>5, <2>6, <2>7, <2>8, <2>9 DEF TxnStep
<1>2. QED
  BY <1>1, TypeCorrect, PTL DEF Spec
================================================================================
