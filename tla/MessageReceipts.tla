---------------------------- MODULE MessageReceipts ----------------------------
(***************************************************************************)
(* What a conversation promises of its ticks, without pages, sockets and   *)
(* handlers: a message is posted to some users and marked for its author,  *)
(* the marks of the others come one by one and stay, and the status shown  *)
(* is one the marks have earned; when Exact, the one they say.             *)
(***************************************************************************)
CONSTANTS Messages, Users

VARIABLES
    status,             \* what is shown of a message; "none" before it is posted
    receipts,           \* the users it was posted to
    delivered, read,    \* those who have got it, and those who have read it
    exact               \* whether marks are shown one at a time: chosen at the start

vars == <<status, receipts, delivered, read, exact>>

Init ==
    /\ status = [m \in Messages |-> "none"]
    /\ receipts = [m \in Messages |-> {}]
    /\ delivered = [m \in Messages |-> {}]
    /\ read = [m \in Messages |-> {}]
    /\ exact \in BOOLEAN

Post(m, author, to) ==
    /\ status[m] = "none"
    /\ status' = [status EXCEPT ![m] = "SENT"]
    /\ receipts' = [receipts EXCEPT ![m] = to]
    /\ delivered' = [delivered EXCEPT ![m] = to \cap {author}]
    /\ read' = [read EXCEPT ![m] = to \cap {author}]
    /\ UNCHANGED exact

\* A user gets a message, or reads it, which is getting it as well
MarkDelivered(m, u) ==
    /\ status[m] # "none" /\ u \in receipts[m]
    /\ delivered' = [delivered EXCEPT ![m] = @ \cup {u}]
    /\ UNCHANGED <<status, receipts, read, exact>>
MarkRead(m, u) ==
    /\ status[m] # "none" /\ u \in receipts[m]
    /\ delivered' = [delivered EXCEPT ![m] = @ \cup {u}]
    /\ read' = [read EXCEPT ![m] = @ \cup {u}]
    /\ UNCHANGED <<status, receipts, exact>>

\* The statuses the marks allow, of which the last is what they say
Earned(m) ==
    {"SENT"} \cup (IF receipts[m] \subseteq delivered[m] THEN {"DELIVERED"} ELSE {})
             \cup (IF receipts[m] \subseteq read[m] THEN {"READ"} ELSE {})
Says(m, s) ==
    /\ s \in Earned(m)
    /\ "READ" \in Earned(m) => s = "READ"
    /\ "DELIVERED" \in Earned(m) => s # "SENT"

Show(m, s) ==
    /\ status[m] # "none"
    /\ s \in Earned(m)
    /\ exact => Says(m, s)
    /\ status' = [status EXCEPT ![m] = s]
    /\ UNCHANGED <<receipts, delivered, read, exact>>

Next ==
    \E m \in Messages :
        \/ \E author \in Users, to \in SUBSET Users : Post(m, author, to)
        \/ \E u \in Users : MarkDelivered(m, u) \/ MarkRead(m, u)
        \/ \E s \in {"SENT", "DELIVERED", "READ"} : Show(m, s)

Spec == Init /\ [][Next]_vars
================================================================================
