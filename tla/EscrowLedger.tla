----------------------------- MODULE EscrowLedger -----------------------------
(***************************************************************************)
(* What the escrow promises, without requests, snapshots or locks: an      *)
(* order's money is held once; from then on it is moved, each movement is  *)
(* entered in the ledger in the same step, and money is never held again.  *)
(* When Idempotent is TRUE, money that is where it should go is not moved  *)
(* again: the early returns of OrdersService.handleEscrowRelease and       *)
(* handleEscrowRefund.                                                     *)
(***************************************************************************)
EXTENDS Sequences

CONSTANTS Orders, Idempotent

VARIABLES escrow, ledger

Places == {"RELEASED", "REFUNDED"}  \* with the seller, with the buyer

Entry(place) == IF place = "RELEASED" THEN "RELEASE" ELSE "REFUND"

Init ==
    /\ escrow = [o \in Orders |-> "ABSENT"]
    /\ ledger = [o \in Orders |-> <<>>]

\* ensureEscrowHolding
Hold(o) ==
    /\ escrow[o] = "ABSENT"
    /\ escrow' = [escrow EXCEPT ![o] = "HOLDING"]
    /\ UNCHANGED ledger

\* handleEscrowRelease, handleEscrowRefund
Move(o, place) ==
    /\ escrow[o] # "ABSENT"
    /\ Idempotent => escrow[o] # place
    /\ escrow' = [escrow EXCEPT ![o] = place]
    /\ ledger' = [ledger EXCEPT ![o] = Append(@, Entry(place))]

Next == \E o \in Orders : Hold(o) \/ \E place \in Places : Move(o, place)

Spec == Init /\ [][Next]_<<escrow, ledger>>
================================================================================
