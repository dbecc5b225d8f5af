------------------------------- MODULE Messaging -------------------------------
(***************************************************************************)
(* One conversation: MessagingService and MessagingGateway                 *)
(* (apps/backend/src/modules/messaging) with the thread page of the web    *)
(* client (apps/web/src/app/messages/[threadId]/client-page.tsx), which    *)
(* acknowledges what it is pushed and what it fetches.                     *)
(*                                                                         *)
(* No handler uses a transaction: every statement stands alone, and the    *)
(* handlers of a socket run beside each other.                             *)
(***************************************************************************)
EXTENDS Naturals, FiniteSets

CONSTANTS
    Users,
    Messages,   \* one for each call of addMessage
    Handlers,   \* gateway handlers that can be running
    NoMessage,  \* the message of a handler that has handled none
    Nobody      \* the author of a message that has not been sent

ASSUME NullAssumption == Nobody \notin Users /\ NoMessage \notin Messages

MessageStatus == {"SENT", "DELIVERED", "READ"}
ModerationStatus == {"PENDING", "APPROVED", "FLAGGED", "REJECTED"}
Answer == {"approved", "flagged", "rejected", "unknown", "error"} \* of the moderation service
Ack == [kind : {"delivered", "read"}, msg : Messages, user : Users]
NoJob == [kind |-> "none", msg |-> NoMessage, user |-> Nobody]

VARIABLES
    participants,   \* MessageThreadParticipant rows
    author, status, moderation, \* Message rows
    receipts,       \* the users a message has a receipt for
    delivered, read, \* those whose receipt is marked
    spc, audience,  \* addMessage: where it is, and the participants it read
    online,         \* users whose thread page is open, and its socket connected
    pushed,         \* messages:new events on their way
    changed,        \* the thread differs from what the user's page has fetched
    acks,           \* acknowledgements on their way
    lost,           \* <<m, u>>: u's page said it has read m and it came to nothing
    hpc, job, found, \* a gateway handler, what it handles, the status it computed
    calm            \* whether handlers neither overlap nor fail: chosen at the start

rows    == <<participants, author, status, moderation, receipts, delivered, read>>
sending == <<spc, audience>>
pages   == <<online, pushed, changed, acks, lost>>
gateway == <<hpc, job, found, calm>>
vars    == <<rows, sending, pages, gateway>>

Init ==
    /\ participants = {}
    /\ author = [m \in Messages |-> Nobody]
    /\ status = [m \in Messages |-> "none"]
    /\ moderation = [m \in Messages |-> "PENDING"]
    /\ receipts = [m \in Messages |-> {}]
    /\ delivered = [m \in Messages |-> {}]
    /\ read = [m \in Messages |-> {}]
    /\ spc = [m \in Messages |-> "idle"]
    /\ audience = [m \in Messages |-> {}]
    /\ online = {} /\ pushed = {} /\ acks = {} /\ lost = {}
    /\ changed = [u \in Users |-> TRUE]
    /\ hpc = [h \in Handlers |-> "idle"]
    /\ job = [h \in Handlers |-> NoJob]
    /\ found = [h \in Handlers |-> "SENT"]
    /\ calm \in BOOLEAN

Stored(m) == status[m] # "none"
\* A row that differs shows in the next fetch of every page
Touch == changed' = [u \in Users |-> TRUE]

--------------------------------------------------------------------------------
(* createThread and addMessage                                             *)

\* The thread is inserted first (Init), then its participants
AddParticipants ==
    /\ participants = {}
    /\ participants' = Users
    /\ Touch
    /\ UNCHANGED <<author, status, moderation, receipts, delivered, read, sending,
                   online, pushed, acks, lost, gateway>>

\* ensureThreadExists reads the thread with its participants
ReadThread(m, u) ==
    /\ spc[m] = "idle"
    /\ spc' = [spc EXCEPT ![m] = "check"]
    /\ author' = [author EXCEPT ![m] = u]
    /\ audience' = [audience EXCEPT ![m] = participants]
    /\ UNCHANGED <<participants, status, moderation, receipts, delivered, read, pages, gateway>>

\* ensureParticipantInThread reads them again
CheckParticipant(m) ==
    /\ spc[m] = "check"
    /\ spc' = [spc EXCEPT ![m] = IF author[m] \in participants THEN "scan" ELSE "failed"]
    /\ UNCHANGED <<rows, audience, pages, gateway>>

\* scanMessage and mapDecision: what is not an answer is held for review
Decision(answer) ==
    CASE answer = "approved" -> "APPROVED"
      [] answer = "rejected" -> "REJECTED"
      [] answer \in {"flagged", "unknown", "error"} -> "FLAGGED"

Scan(m, answer) ==
    /\ spc[m] = "scan"
    /\ spc' = [spc EXCEPT ![m] = "store"]
    /\ moderation' = [moderation EXCEPT ![m] = Decision(answer)]
    /\ UNCHANGED <<participants, author, status, receipts, delivered, read, audience, pages, gateway>>

\* mutant: whoever gets a receipt has got the message
MarkedForAll(m) == audience[m]
\* The author's receipt is marked from the beginning
Marked(m) == audience[m] \cap {author[m]}

\* message.create with the receipts of those who were read at the beginning
Store(m) ==
    /\ spc[m] = "store"
    /\ spc' = [spc EXCEPT ![m] = "emit"]
    /\ status' = [status EXCEPT ![m] = "SENT"]
    /\ receipts' = [receipts EXCEPT ![m] = audience[m]]
    /\ delivered' = [delivered EXCEPT ![m] = Marked(m)]
    /\ read' = [read EXCEPT ![m] = Marked(m)]
    /\ Touch
    /\ UNCHANGED <<participants, author, moderation, audience, online, pushed, acks, lost, gateway>>

\* The thread is read again, and emitNewMessage sends the message to the room of
\* every participant if it was approved
Emit(m) ==
    /\ spc[m] = "emit"
    /\ spc' = [spc EXCEPT ![m] = "done"]
    /\ pushed' = IF moderation[m] = "APPROVED"
                 THEN pushed \cup ({m} \X (participants \cap online)) ELSE pushed
    /\ Touch
    /\ UNCHANGED <<rows, audience, online, acks, lost, gateway>>

\* A statement fails; what is stored stays
FailSend(m) ==
    /\ spc[m] \in {"check", "scan", "store", "emit"}
    /\ spc' = [spc EXCEPT ![m] = "failed"]
    /\ UNCHANGED <<rows, audience, pages, gateway>>

--------------------------------------------------------------------------------
(* The thread page of user u                                               *)

\* Mounting connects the socket; what is cached or fetched then is new to the page
OpenPage(u) ==
    /\ u \notin online
    /\ online' = online \cup {u}
    /\ changed' = [changed EXCEPT ![u] = TRUE]
    /\ UNCHANGED <<rows, sending, pushed, acks, lost, gateway>>

\* What u has sent by its socket and will not be handled
Dropped(u, gone) ==
    /\ gone \subseteq {a \in acks : a.user = u}
    /\ acks' = acks \ gone
    /\ lost' = lost \cup {<<a.msg, u>> : a \in {b \in gone : b.kind = "read"}}

\* Unmounting disconnects it: events on their way to it are lost, and what it sent
\* may be
ClosePage(u) ==
    /\ u \in online
    /\ online' = online \ {u}
    /\ pushed' = {p \in pushed : p[2] # u}
    /\ \E gone \in SUBSET acks : Dropped(u, gone)
    /\ UNCHANGED <<rows, sending, changed, gateway>>

\* The connection breaks under an open page and is made again.  Nothing tells the
\* page: its effects do not depend on the connection.
DropSocket(u) ==
    /\ u \in online
    /\ pushed' \in {pushed, {p \in pushed : p[2] # u}}
    /\ \E gone \in SUBSET acks : Dropped(u, gone)
    /\ UNCHANGED <<rows, sending, online, changed, gateway>>

\* messages:new is acknowledged, the author's own included, and the thread fetched
ReceivePush(m, u) ==
    /\ <<m, u>> \in pushed
    /\ pushed' = pushed \ {<<m, u>>}
    /\ acks' = acks \cup {[kind |-> "delivered", msg |-> m, user |-> u]}
    /\ UNCHANGED <<rows, sending, online, changed, lost, gateway>>

\* On mount, after a push and every 30 seconds.  The effect runs only when the data
\* differs from the last, for every message of the others, whatever their moderation
\* says.
Fetch(u) ==
    /\ u \in online
    /\ changed[u]
    /\ changed' = [changed EXCEPT ![u] = FALSE]
    /\ acks' = acks \cup {[kind |-> "read", msg |-> m, user |-> u] :
                              m \in {n \in Messages : Stored(n) /\ author[n] # u}}
    /\ lost' = {p \in lost : p[2] # u}
    /\ UNCHANGED <<rows, sending, online, pushed, gateway>>

--------------------------------------------------------------------------------
(* handleDelivered and handleRead                                          *)

\* mutant: a receipt that is read is not marked again
FreshOnce(a) == a.user \notin IF a.kind = "read" THEN read[a.msg] ELSE delivered[a.msg]
\* markDelivered needs a deliveredAt that is null; markRead writes readAt anew
Fresh(a) == a.kind = "read" \/ a.user \notin delivered[a.msg]

\* The user's receipt is marked; without a receipt, or with nothing to mark, the
\* handler ends
Mark(h, a) ==
    LET goes  == a.user \in receipts[a.msg] /\ Fresh(a)
    IN  /\ a \in acks /\ hpc[h] = "idle"
        /\ calm => \A g \in Handlers : hpc[g] = "idle"
        /\ acks' = acks \ {a}
        /\ \/ /\ goes
              /\ hpc' = [hpc EXCEPT ![h] = "refresh"]
              /\ job' = [job EXCEPT ![h] = a]
              /\ delivered' = [delivered EXCEPT ![a.msg] = @ \cup {a.user}]
              /\ read' = [read EXCEPT ![a.msg] = IF a.kind = "read" THEN @ \cup {a.user} ELSE @]
              /\ Touch
           \/ ~goes /\ UNCHANGED <<hpc, job, delivered, read, changed>>
        /\ UNCHANGED <<participants, author, status, moderation, receipts, sending,
                       online, pushed, lost, found, calm>>

\* ensureReceiptExists or updateMany fails: no row is touched and nobody is told
FailMark(h, a) ==
    /\ ~calm
    /\ a \in acks /\ hpc[h] = "idle"
    /\ Dropped(a.user, {a})
    /\ UNCHANGED <<rows, sending, online, pushed, changed, gateway>>

\* mutant: one reader is enough
ComputedIfAny(m) ==
    IF read[m] # {} THEN "READ" ELSE IF delivered[m] # {} THEN "DELIVERED" ELSE "SENT"
\* What the receipts say of a message
Computed(m) ==
    IF receipts[m] \subseteq read[m] THEN "READ"
    ELSE IF receipts[m] \subseteq delivered[m] THEN "DELIVERED" ELSE "SENT"

\* refreshMessageStatus reads the receipts ...
ReadReceipts(h) ==
    /\ hpc[h] = "refresh"
    /\ hpc' = [hpc EXCEPT ![h] = "write"]
    /\ found' = [found EXCEPT ![h] = Computed(job[h].msg)]
    /\ UNCHANGED <<rows, sending, pages, job, calm>>

\* mutant: only the last status is written
WriteStatusIfRead(h) ==
    /\ hpc[h] = "write"
    /\ hpc' = [hpc EXCEPT ![h] = "idle"]
    /\ status' = IF found[h] = "READ" THEN [status EXCEPT ![job[h].msg] = "READ"] ELSE status
    /\ Touch
    /\ UNCHANGED <<participants, author, moderation, receipts, delivered, read, sending,
                   online, pushed, acks, lost, job, found, calm>>
\* ... and writes the status they had
WriteStatus(h) ==
    /\ hpc[h] = "write"
    /\ hpc' = [hpc EXCEPT ![h] = "idle"]
    /\ status' = [status EXCEPT ![job[h].msg] = found[h]]
    /\ IF status[job[h].msg] = found[h] THEN UNCHANGED changed ELSE Touch
    /\ UNCHANGED <<participants, author, moderation, receipts, delivered, read, sending,
                   online, pushed, acks, lost, job, found, calm>>

\* A statement fails: the receipt stays marked
FailHandler(h) ==
    /\ ~calm
    /\ hpc[h] \in {"refresh", "write"}
    /\ hpc' = [hpc EXCEPT ![h] = "idle"]
    /\ UNCHANGED <<rows, sending, pages, job, found, calm>>

SendStep(m) ==
    CheckParticipant(m) \/ (\E x \in Answer : Scan(m, x)) \/ Store(m) \/ Emit(m)

Next ==
    \/ AddParticipants
    \/ \E m \in Messages : SendStep(m) \/ FailSend(m)
    \/ \E u \in Users :
          \/ \E m \in Messages : ReadThread(m, u) \/ ReceivePush(m, u)
          \/ OpenPage(u) \/ ClosePage(u) \/ DropSocket(u) \/ Fetch(u)
    \/ \E h \in Handlers :
          \/ \E a \in acks : Mark(h, a) \/ FailMark(h, a)
          \/ ReadReceipts(h) \/ WriteStatus(h) \/ FailHandler(h)

Spec == Init /\ [][Next]_vars

\* Pages fetch every 30 seconds; what arrives is handled, well or not; and the
\* database does not fail for ever in the refresh of a message that is read again and
\* again
FairSpec ==
    /\ Spec
    /\ \A u \in Users : WF_vars(Fetch(u))
    /\ \A a \in Ack : SF_vars(\E h \in Handlers : Mark(h, a) \/ FailMark(h, a))
    /\ \A m \in Messages :
          /\ SF_vars(\E h \in Handlers : job[h].msg = m /\ ReadReceipts(h))
          /\ SF_vars(\E h \in Handlers : job[h].msg = m /\ WriteStatus(h))
================================================================================
