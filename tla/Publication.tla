------------------------------ MODULE Publication ------------------------------
(***************************************************************************)
(* What moderation promises about the public life of a listing, without    *)
(* requests, statements, queues, workers and retries: the seller writes,   *)
(* which never publishes, and asks for a status; only an approval gives    *)
(* it, and only while somebody is still asking; a refusal pauses.          *)
(***************************************************************************)
CONSTANT Listings

VARIABLES
    status,         \* of each listing; "ABSENT" before it is submitted
    moderation,     \* what moderation has last said, "PENDING" after a change
    wanted,         \* the statuses asked for by what is still under way
    deleted         \* deletion is for good

vars == <<status, moderation, wanted, deleted>>

Status == {"DRAFT", "PUBLISHED", "PAUSED"}

Init ==
    /\ status = [l \in Listings |-> "ABSENT"]
    /\ moderation = [l \in Listings |-> "ABSENT"]
    /\ wanted = [l \in Listings |-> {}]
    /\ deleted = [l \in Listings |-> FALSE]

Known(l) == status[l] # "ABSENT"

\* Somebody asks for a status; some of those asked for are given up
Asks(l, s) == wanted' = [wanted EXCEPT ![l] = @ \cup {s}]
Withdraws(l) == \E w \in SUBSET wanted[l] : wanted' = [wanted EXCEPT ![l] = w]

\* A listing is submitted to become s; one that is to be public waits
Submit(l, s) ==
    /\ ~Known(l)
    /\ status' = [status EXCEPT ![l] = IF s = "PUBLISHED" THEN "PAUSED" ELSE s]
    /\ moderation' = [moderation EXCEPT ![l] = "PENDING"]
    /\ Asks(l, s)
    /\ UNCHANGED deleted

\* The seller has begun a change; nothing is written yet
Begin(l, s) ==
    /\ Known(l) /\ ~deleted[l]
    /\ Asks(l, s)
    /\ UNCHANGED <<status, moderation, deleted>>

\* A change is written: the listing is pending, and no more public than it was
Revise(l, s) ==
    /\ Known(l)
    /\ s # "PUBLISHED" \/ s = status[l]
    /\ status' = [status EXCEPT ![l] = s]
    /\ moderation' = [moderation EXCEPT ![l] = "PENDING"]
    /\ Withdraws(l)
    /\ UNCHANGED deleted

\* The listing is approved for what somebody still asks for
Approve(l, s) ==
    /\ Known(l)
    /\ s \in wanted[l]
    /\ status' = [status EXCEPT ![l] = s]
    /\ moderation' = [moderation EXCEPT ![l] = "APPROVED"]
    /\ UNCHANGED <<wanted, deleted>>

\* The listing is rejected, or flagged for a review
Refuse(l, v) ==
    /\ Known(l)
    /\ status' = [status EXCEPT ![l] = "PAUSED"]
    /\ moderation' = [moderation EXCEPT ![l] = v]
    /\ UNCHANGED <<wanted, deleted>>

\* What was asked for is done with
Finish(l) ==
    /\ Withdraws(l)
    /\ UNCHANGED <<status, moderation, deleted>>

Delete(l) ==
    /\ Known(l) /\ ~deleted[l]
    /\ deleted' = [deleted EXCEPT ![l] = TRUE]
    /\ UNCHANGED <<status, moderation, wanted>>

Next ==
    \E l \in Listings :
        \/ \E s \in Status : Submit(l, s) \/ Begin(l, s) \/ Revise(l, s) \/ Approve(l, s)
        \/ \E v \in {"REJECTED", "FLAGGED"} : Refuse(l, v)
        \/ Finish(l) \/ Delete(l)

Spec == Init /\ [][Next]_vars
================================================================================
