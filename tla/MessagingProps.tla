----------------------------- MODULE MessagingProps -----------------------------
(***************************************************************************)
(* What Messaging promises of receipts, statuses and pushes.               *)
(***************************************************************************)
EXTENDS Messaging

TypeOK ==
    /\ participants \subseteq Users
    /\ author \in [Messages -> Users \cup {Nobody}]
    /\ status \in [Messages -> MessageStatus \cup {"none"}]
    /\ moderation \in [Messages -> ModerationStatus]
    /\ receipts \in [Messages -> SUBSET Users]
    /\ delivered \in [Messages -> SUBSET Users]
    /\ read \in [Messages -> SUBSET Users]
    /\ spc \in [Messages -> {"idle", "check", "scan", "store", "emit", "done", "failed"}]
    /\ audience \in [Messages -> SUBSET Users]
    /\ online \subseteq Users
    /\ pushed \subseteq Messages \X Users
    /\ changed \in [Users -> BOOLEAN]
    /\ acks \subseteq Ack
    /\ lost \subseteq Messages \X Users
    /\ hpc \in [Handlers -> {"idle", "refresh", "write"}]
    /\ job \in [Handlers -> Ack \cup {NoJob}]
    /\ found \in [Handlers -> MessageStatus]
    /\ calm \in BOOLEAN
    /\ \A h \in Handlers : hpc[h] # "idle" => job[h] \in Ack

\* A status is never ahead of the receipts, however late it is written.
StatusIsEarned ==
    \A m \in Messages :
        /\ status[m] = "READ" => receipts[m] \subseteq read[m]
        /\ status[m] = "DELIVERED" => receipts[m] \subseteq delivered[m]

\* Only what was approved and stored is on its way to anyone, so the fetch that a
\* push causes finds the message.
PushIsApproved ==
    \A p \in pushed : moderation[p[1]] = "APPROVED" /\ Stored(p[1]) /\ p[2] \in online

\* When handlers neither overlap nor fail, a message that none is working on has
\* the status its receipts say.
SettledStatus ==
    calm => \A m \in Messages :
        Stored(m) /\ receipts[m] \ {author[m]} # {}
            /\ (\A h \in Handlers : hpc[h] # "idle" => job[h].msg # m)
        => status[m] = Computed(m)

\* The ticks of a message change as MessageReceipts says: its receipts are those it was
\* posted with, marks are never taken back, and no status is shown that they have not
\* earned; where handlers take turns, none but the last.
Ticks == INSTANCE MessageReceipts WITH exact <- calm
ImplementsReceipts == Ticks!Spec

\* The ticks in their order
Rank(s) ==
    CASE s = "none" -> 0 [] s = "SENT" -> 1 [] s = "DELIVERED" -> 2 [] s = "READ" -> 3

\* When handlers neither overlap nor fail, what a user is shown never goes back.
TicksGoForward == calm => \A m \in Messages : Rank(status[m]) <= Rank(status'[m])
NeverBack == [][TicksGoForward]_vars

\* While the pages of its recipients stay open, a stored message is shown as read
\* in the end and for good, whatever refreshes fail and overlap, unless a reader's word
\* that it has read it is lost and the page has no reason to give it again.
EventuallyRead ==
    \A m \in Messages :
        <>[](/\ Stored(m) /\ receipts[m] \ {author[m]} # {} /\ receipts[m] \subseteq online
             /\ \A u \in receipts[m] : <<m, u>> \notin lost)
            => <>[](status[m] = "READ")

\* The page of a user stops asking for a message it was sent in one way only: its last
\* word was lost, on the wire or in the first statements of the handler.  Otherwise it
\* has a fetch to make or an acknowledgement on its way, whatever refreshes fail.
SilentOnlyIfLost ==
    \A m \in Messages, u \in Users :
        Stored(m) /\ u \in receipts[m] \cap online /\ u # author[m] =>
            \/ changed[u] \/ <<m, u>> \in lost
            \/ [kind |-> "read", msg |-> m, user |-> u] \in acks

--------------------------------------------------------------------------------
(* What makes them inductive                                               *)

\* Only a message that is stored is acknowledged and handled
StoredInv ==
    /\ \A m \in Messages :
          /\ spc[m] \in {"idle", "check", "scan", "store"} => ~Stored(m)
          /\ spc[m] \in {"emit", "done"} => Stored(m)
    /\ \A a \in acks : Stored(a.msg)
    /\ \A h \in Handlers : hpc[h] # "idle" => Stored(job[h].msg)

\* What a handler has found stays earned: receipts are marked for good
FoundInv ==
    \A h \in Handlers : hpc[h] = "write" =>
        /\ found[h] = "READ" => receipts[job[h].msg] \subseteq read[job[h].msg]
        /\ found[h] = "DELIVERED" => receipts[job[h].msg] \subseteq delivered[job[h].msg]

\* One handler at a time finds what there is
CalmInv ==
    calm => /\ \A g, h \in Handlers : hpc[g] # "idle" /\ hpc[h] # "idle" => g = h
            /\ \A h \in Handlers : hpc[h] = "write" => found[h] = Computed(job[h].msg)

\* Whoever sends a message is known from its first statement on
AuthorInv == \A m \in Messages : spc[m] # "idle" => author[m] \in Users

IInv ==
    TypeOK /\ StoredInv /\ FoundInv /\ CalmInv /\ StatusIsEarned /\ PushIsApproved /\ SettledStatus
================================================================================
