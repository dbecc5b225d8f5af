---------------------------- MODULE MessagingProofs ----------------------------
(***************************************************************************)
(* The safety of Messaging for every set of users, messages and handlers.  *)
(***************************************************************************)
EXTENDS MessagingProps, TLAPS

\* Nothing is stored, marked or handled at the beginning.
LEMMA InitIInv == Init => IInv
<1> SUFFICES ASSUME Init PROVE IInv
  OBVIOUS
<1>1. TypeOK
  BY DEF Init, TypeOK, MessageStatus, ModerationStatus, NoJob
<1>2. StoredInv /\ FoundInv /\ CalmInv
  BY DEF Init, StoredInv, FoundInv, CalmInv, Stored
<1>3. StatusIsEarned /\ PushIsApproved /\ SettledStatus
  BY DEF Init, StatusIsEarned, PushIsApproved, SettledStatus, Stored
<1>4. QED
  BY <1>1, <1>2, <1>3 DEF IInv

\* A statement of the handler of a socket has a stored message and one of its readers.
LEMMA MarkEffect ==
    ASSUME IInv, NEW h \in Handlers, NEW a \in acks, Mark(h, a)
    PROVE  /\ a \in Ack /\ a.msg \in Messages /\ a.user \in Users
           /\ Stored(a.msg)
           /\ acks' = acks \ {a}
           /\ hpc[h] = "idle"
           /\ calm => \A g \in Handlers : hpc[g] = "idle"
           /\ \/ /\ hpc' = [hpc EXCEPT ![h] = "refresh"]
                 /\ job' = [job EXCEPT ![h] = a]
              \/ /\ hpc' = hpc /\ job' = job /\ delivered' = delivered /\ read' = read
           /\ \A m \in Messages : m # a.msg => delivered'[m] = delivered[m] /\ read'[m] = read[m]
           /\ \A m \in Messages : delivered[m] \subseteq delivered'[m] /\ read[m] \subseteq read'[m]
           /\ delivered' \in [Messages -> SUBSET Users] /\ read' \in [Messages -> SUBSET Users]
           /\ changed' \in [Users -> BOOLEAN]
<1>1. /\ a \in Ack /\ a.msg \in Messages /\ a.user \in Users
      /\ Stored(a.msg)
  BY DEF IInv, TypeOK, StoredInv, Ack
<1>2. a.kind = "read" \/ a.kind = "delivered"
  BY <1>1 DEF Ack
<1>3. CASE a.user \in receipts[a.msg] /\ Fresh(a)
  <2>1. /\ acks' = acks \ {a} /\ hpc[h] = "idle"
        /\ calm => \A g \in Handlers : hpc[g] = "idle"
        /\ hpc' = [hpc EXCEPT ![h] = "refresh"]
        /\ job' = [job EXCEPT ![h] = a]
        /\ delivered' = [delivered EXCEPT ![a.msg] = @ \cup {a.user}]
        /\ read' = [read EXCEPT ![a.msg] = IF a.kind = "read" THEN @ \cup {a.user} ELSE @]
        /\ changed' = [u \in Users |-> TRUE]
    BY <1>3 DEF Mark, FailMark, Dropped, Touch
  <2>2. /\ delivered' \in [Messages -> SUBSET Users]
        /\ \A m \in Messages : m # a.msg => delivered'[m] = delivered[m]
        /\ \A m \in Messages : delivered[m] \subseteq delivered'[m]
    BY <1>1, <2>1 DEF IInv, TypeOK
  <2>3. /\ read' \in [Messages -> SUBSET Users]
        /\ \A m \in Messages : m # a.msg => read'[m] = read[m]
        /\ \A m \in Messages : read[m] \subseteq read'[m]
    <3>1. CASE a.kind = "read"
      <4>1. read' = [read EXCEPT ![a.msg] = @ \cup {a.user}]
        BY <2>1, <3>1
      <4>2. QED
        BY <1>1, <4>1 DEF IInv, TypeOK
    <3>2. CASE a.kind # "read"
      <4>1. read' = [read EXCEPT ![a.msg] = read[a.msg]]
        BY <2>1, <3>2
      <4>2. QED
        BY <1>1, <4>1 DEF IInv, TypeOK
    <3>3. QED
      BY <3>1, <3>2
  <2>4. changed' \in [Users -> BOOLEAN]
    BY <2>1
  <2>5. QED
    BY <1>1, <2>1, <2>2, <2>3, <2>4
<1>4. CASE ~(a.user \in receipts[a.msg] /\ Fresh(a))
  BY <1>1, <1>4 DEF Mark, FailMark, Dropped, IInv, TypeOK
<1>5. QED
  BY <1>3, <1>4

\* What is lost are acknowledgements of the messages and users there are.
LEMMA DroppedType ==
    ASSUME TypeOK, NEW u \in Users, NEW gone, Dropped(u, gone)
    PROVE  acks' \subseteq acks /\ lost' \subseteq Messages \X Users
<1>1. ASSUME NEW a \in gone PROVE <<a.msg, a.user>> \in Messages \X Users
  BY DEF Dropped, TypeOK, Ack
<1>2. \A a \in gone : a.user = u
  BY DEF Dropped
<1>3. QED
  BY <1>1, <1>2 DEF Dropped, TypeOK

\* Every step keeps the types.
LEMMA NextType == IInv /\ [Next]_vars => TypeOK'
<1> SUFFICES ASSUME IInv, [Next]_vars PROVE TypeOK'
  OBVIOUS
<1> USE DEF IInv, TypeOK
<1>1. CASE AddParticipants
  BY <1>1 DEF AddParticipants, Touch, sending, gateway
<1>2. ASSUME NEW m \in Messages, SendStep(m) \/ FailSend(m) PROVE TypeOK'
  <2>1. CASE CheckParticipant(m)
    BY <2>1 DEF CheckParticipant, rows, pages, gateway
  <2>2. ASSUME NEW x \in Answer, Scan(m, x) PROVE TypeOK'
    <3>1. Decision(x) \in ModerationStatus
      BY DEF Answer, Decision, ModerationStatus
    <3>2. QED
      BY <2>2, <3>1 DEF Scan, pages, gateway
  <2>3. CASE Store(m)
    BY <2>3 DEF Store, Marked, Touch, MessageStatus, gateway
  <2>4. CASE Emit(m)
    BY <2>4 DEF Emit, Touch, rows, gateway
  <2>5. CASE FailSend(m)
    BY <2>5 DEF FailSend, rows, pages, gateway
  <2>6. QED
    BY <1>2, <2>1, <2>2, <2>3, <2>4, <2>5 DEF SendStep
<1>3. ASSUME NEW u \in Users, NEW m \in Messages, ReadThread(m, u) \/ ReceivePush(m, u) PROVE TypeOK'
  <2>1. CASE ReadThread(m, u)
    BY <2>1 DEF ReadThread, pages, gateway
  <2>2. CASE ReceivePush(m, u)
    BY <2>2 DEF ReceivePush, Ack, rows, sending, gateway
  <2>3. QED
    BY <1>3, <2>1, <2>2
<1>4. ASSUME NEW u \in Users, OpenPage(u) \/ ClosePage(u) \/ DropSocket(u) \/ Fetch(u) PROVE TypeOK'
  <2>1. CASE OpenPage(u)
    BY <2>1 DEF OpenPage, rows, sending, gateway
  <2>2. CASE ClosePage(u) \/ DropSocket(u)
    BY <2>2, DroppedType DEF ClosePage, DropSocket, rows, sending, gateway
  <2>3. CASE Fetch(u)
    BY <2>3 DEF Fetch, Ack, rows, sending, gateway
  <2>4. QED
    BY <1>4, <2>1, <2>2, <2>3
<1>5. ASSUME NEW h \in Handlers, NEW a \in acks, Mark(h, a) PROVE TypeOK'
  <2>1. /\ a \in Ack
        /\ delivered' \in [Messages -> SUBSET Users] /\ read' \in [Messages -> SUBSET Users]
        /\ changed' \in [Users -> BOOLEAN]
        /\ acks' \subseteq Ack
    BY <1>5, MarkEffect
  <2>2. /\ hpc' \in [Handlers -> {"idle", "refresh", "write"}]
        /\ job' \in [Handlers -> Ack \cup {NoJob}]
        /\ \A g \in Handlers : hpc'[g] # "idle" => job'[g] \in Ack
    <3>1. /\ hpc \in [Handlers -> {"idle", "refresh", "write"}]
          /\ job \in [Handlers -> Ack \cup {NoJob}]
          /\ \A g \in Handlers : hpc[g] # "idle" => job[g] \in Ack
      OBVIOUS
    <3> HIDE DEF IInv, TypeOK
    <3>2. \/ hpc' = [hpc EXCEPT ![h] = "refresh"] /\ job' = [job EXCEPT ![h] = a]
          \/ hpc' = hpc /\ job' = job
      BY <1>5, MarkEffect
    <3>3. QED
      BY <2>1, <3>1, <3>2
  <2>3. UNCHANGED <<participants, author, status, moderation, receipts, spc, audience,
                    online, pushed, lost, found, calm>>
    BY <1>5 DEF Mark, sending
  <2>4. QED
    BY <2>1, <2>2, <2>3
<1>6. ASSUME NEW h \in Handlers, ReadReceipts(h) \/ WriteStatus(h) \/ FailHandler(h) PROVE TypeOK'
  <2>1. CASE ReadReceipts(h)
    BY <2>1 DEF ReadReceipts, Computed, MessageStatus, rows, sending, pages
  <2>2. CASE WriteStatus(h)
    BY <2>2 DEF WriteStatus, Touch, sending, Ack
  <2>3. CASE FailHandler(h)
    BY <2>3 DEF FailHandler, rows, sending, pages
  <2>4. QED
    BY <1>6, <2>1, <2>2, <2>3
<1>7. ASSUME NEW h \in Handlers, NEW a \in acks, FailMark(h, a) PROVE TypeOK'
  <2>1. a.user \in Users
    BY DEF Ack
  <2>2. QED
    BY <1>7, <2>1, DroppedType DEF FailMark, rows, sending, gateway
<1>8. CASE UNCHANGED vars
  BY <1>8 DEF vars, rows, sending, pages, gateway
<1>9. QED
  BY <1>1, <1>2, <1>3, <1>4, <1>5, <1>6, <1>7, <1>8 DEF Next

--------------------------------------------------------------------------------
(* What a step does to one message and to one handler                      *)

\* What is stored keeps its author, its receipts and its moderation, and marks are
\* never taken back.
LEMMA StoredStays ==
    ASSUME IInv, [Next]_vars, NEW m \in Messages, Stored(m)
    PROVE  /\ status'[m] # "none"
           /\ receipts'[m] = receipts[m] /\ author'[m] = author[m] /\ moderation'[m] = moderation[m]
           /\ delivered[m] \subseteq delivered'[m] /\ read[m] \subseteq read'[m]
<1> DEFINE Goal == /\ status'[m] # "none"
                   /\ receipts'[m] = receipts[m] /\ author'[m] = author[m] /\ moderation'[m] = moderation[m]
                   /\ delivered[m] \subseteq delivered'[m] /\ read[m] \subseteq read'[m]
<1>1. ASSUME UNCHANGED <<author, status, moderation, receipts, delivered, read>> PROVE Goal
  BY <1>1 DEF Stored
<1>2. ASSUME NEW n \in Messages, SendStep(n) PROVE Goal
  <2>1. spc[m] \notin {"idle", "check", "scan", "store"}
    BY DEF IInv, StoredInv
  <2>2. CASE CheckParticipant(n) \/ Emit(n)
    BY <1>1, <2>2 DEF CheckParticipant, Emit, rows
  <2>3. ASSUME NEW x \in Answer, Scan(n, x) PROVE Goal
    BY <2>1, <2>3 DEF Scan, Stored, IInv, TypeOK
  <2>4. CASE Store(n)
    BY <2>1, <2>4 DEF Store, Stored, IInv, TypeOK
  <2>5. QED
    BY <1>2, <2>2, <2>3, <2>4 DEF SendStep
<1>3. ASSUME NEW u \in Users, NEW n \in Messages, ReadThread(n, u) PROVE Goal
  <2>1. spc[m] # "idle"
    BY DEF IInv, StoredInv
  <2>2. QED
    BY <1>3, <2>1 DEF ReadThread, Stored, IInv, TypeOK
<1>4. ASSUME NEW h \in Handlers, NEW a \in acks, Mark(h, a) PROVE Goal
  <2>1. UNCHANGED <<author, status, moderation, receipts>>
    BY <1>4 DEF Mark
  <2>2. delivered[m] \subseteq delivered'[m] /\ read[m] \subseteq read'[m]
    BY <1>4, MarkEffect
  <2>3. QED
    BY <2>1, <2>2 DEF Stored
<1>5. ASSUME NEW h \in Handlers, WriteStatus(h) PROVE Goal
  <2>1. job[h] \in Ack /\ found[h] \in MessageStatus
    BY <1>5 DEF WriteStatus, IInv, TypeOK
  <2>2. status' = [status EXCEPT ![job[h].msg] = found[h]]
    BY <1>5 DEF WriteStatus
  <2>3. status'[m] # "none"
    BY <2>1, <2>2 DEF MessageStatus, Stored, IInv, TypeOK
  <2>4. QED
    BY <1>5, <2>3 DEF WriteStatus
<1>6. CASE AddParticipants
  BY <1>1, <1>6 DEF AddParticipants
<1>7. ASSUME NEW n \in Messages, FailSend(n) PROVE Goal
  BY <1>1, <1>7 DEF FailSend, rows
<1>8. ASSUME NEW u \in Users, OpenPage(u) \/ ClosePage(u) \/ DropSocket(u) \/ Fetch(u) \/ \E n \in Messages : ReceivePush(n, u)
      PROVE  Goal
  BY <1>1, <1>8 DEF OpenPage, ClosePage, DropSocket, Dropped, Fetch, ReceivePush, rows
<1>9. ASSUME NEW h \in Handlers, ReadReceipts(h) \/ FailHandler(h) \/ \E a \in acks : FailMark(h, a) PROVE Goal
  BY <1>1, <1>9 DEF ReadReceipts, FailHandler, FailMark, Dropped, rows
<1>10. CASE UNCHANGED vars
  BY <1>1, <1>10 DEF vars, rows
<1>11. QED
  BY <1>2, <1>3, <1>4, <1>5, <1>6, <1>7, <1>8, <1>9, <1>10 DEF Next

\* A message's status is set when it is stored and by a handler that has found one;
\* its receipts are marked by no one but a handler.
LEMMA StatusEffect ==
    ASSUME IInv, [Next]_vars, NEW m \in Messages
    PROVE  \/ status'[m] = status[m]
           \/ Store(m)
           \/ \E h \in Handlers : WriteStatus(h) /\ job[h].msg = m
<1> DEFINE Goal == \/ status'[m] = status[m]
                   \/ Store(m)
                   \/ \E h \in Handlers : WriteStatus(h) /\ job[h].msg = m
<1>1. ASSUME NEW n \in Messages, Store(n) PROVE Goal
  BY <1>1 DEF Store, IInv, TypeOK
<1>2. ASSUME NEW h \in Handlers, WriteStatus(h) PROVE Goal
  BY <1>2 DEF WriteStatus, IInv, TypeOK
<1>3. ASSUME NEW n \in Messages, SendStep(n) \/ FailSend(n), ~Store(n) PROVE Goal
  BY <1>3 DEF SendStep, CheckParticipant, Scan, Emit, FailSend, rows
<1>4. ASSUME NEW u \in Users, \/ OpenPage(u) \/ ClosePage(u) \/ DropSocket(u) \/ Fetch(u)
                              \/ \E n \in Messages : ReadThread(n, u) \/ ReceivePush(n, u)
      PROVE  Goal
  BY <1>4 DEF OpenPage, ClosePage, DropSocket, Dropped, Fetch, ReadThread, ReceivePush, rows
<1>5. ASSUME NEW h \in Handlers, ReadReceipts(h) \/ FailHandler(h) \/ \E a \in acks : Mark(h, a) \/ FailMark(h, a) PROVE Goal
  BY <1>5 DEF ReadReceipts, FailHandler, Mark, FailMark, Dropped, rows
<1>6. CASE AddParticipants \/ UNCHANGED vars
  BY <1>6 DEF AddParticipants, vars, rows
<1>7. QED
  BY <1>1, <1>2, <1>3, <1>4, <1>5, <1>6 DEF Next

\* A handler that is working keeps its job; it starts with a receipt it has marked,
\* and then finds a status.
LEMMA HandlerEffect ==
    ASSUME IInv, [Next]_vars, NEW g \in Handlers, hpc'[g] # "idle"
    PROVE  \/ hpc'[g] = hpc[g] /\ job'[g] = job[g] /\ found'[g] = found[g]
           \/ ReadReceipts(g)
           \/ \E a \in acks : /\ Mark(g, a) /\ hpc[g] = "idle"
                              /\ hpc'[g] = "refresh" /\ job'[g] = a
<1> DEFINE Goal == \/ hpc'[g] = hpc[g] /\ job'[g] = job[g] /\ found'[g] = found[g]
                   \/ ReadReceipts(g)
                   \/ \E a \in acks : /\ Mark(g, a) /\ hpc[g] = "idle"
                                      /\ hpc'[g] = "refresh" /\ job'[g] = a
<1>1. ASSUME NEW h \in Handlers, NEW a \in acks, Mark(h, a) PROVE Goal
  <2>1. found' = found
    BY <1>1 DEF Mark
  <2>2. \/ /\ hpc' = [hpc EXCEPT ![h] = "refresh"]
           /\ job' = [job EXCEPT ![h] = a]
        \/ hpc' = hpc /\ job' = job
    BY <1>1, MarkEffect
  <2>3. hpc[h] = "idle"
    BY <1>1, MarkEffect
  <2>4. CASE g = h
    BY <1>1, <2>1, <2>2, <2>3, <2>4 DEF IInv, TypeOK
  <2>5. CASE g # h
    BY <2>1, <2>2, <2>5 DEF IInv, TypeOK
  <2>6. QED
    BY <2>4, <2>5
<1>2. ASSUME NEW h \in Handlers, ReadReceipts(h) \/ WriteStatus(h) \/ FailHandler(h) PROVE Goal
  BY <1>2 DEF ReadReceipts, WriteStatus, FailHandler, IInv, TypeOK
<1>3. ASSUME UNCHANGED gateway PROVE Goal
  BY <1>3 DEF gateway
<1>4. ASSUME NEW n \in Messages, SendStep(n) \/ FailSend(n) PROVE Goal
  BY <1>3, <1>4 DEF SendStep, CheckParticipant, Scan, Store, Emit, FailSend
<1>5. ASSUME NEW u \in Users, \/ OpenPage(u) \/ ClosePage(u) \/ DropSocket(u) \/ Fetch(u)
                              \/ \E n \in Messages : ReadThread(n, u) \/ ReceivePush(n, u)
      PROVE  Goal
  BY <1>3, <1>5 DEF OpenPage, ClosePage, DropSocket, Dropped, Fetch, ReadThread, ReceivePush
<1>6. CASE AddParticipants \/ UNCHANGED vars \/ \E h \in Handlers, a \in acks : FailMark(h, a)
  BY <1>3, <1>6 DEF AddParticipants, FailMark, vars
<1>7. QED
  BY <1>1, <1>2, <1>4, <1>5, <1>6 DEF Next

--------------------------------------------------------------------------------
(* Each part of the invariant is kept                                      *)

\* A message is on its way to pages and handlers only once it is stored.
LEMMA NextStored == IInv /\ [Next]_vars => StoredInv'
<1> SUFFICES ASSUME IInv, [Next]_vars PROVE StoredInv'
  OBVIOUS
<1> USE DEF Stored
<1>1. ASSUME NEW m \in Messages
      PROVE  /\ spc'[m] \in {"idle", "check", "scan", "store"} => ~(status'[m] # "none")
             /\ spc'[m] \in {"emit", "done"} => status'[m] # "none"
  <2> DEFINE Goal == /\ spc'[m] \in {"idle", "check", "scan", "store"} => ~(status'[m] # "none")
                     /\ spc'[m] \in {"emit", "done"} => status'[m] # "none"
  <2>1. ASSUME spc'[m] = spc[m], status'[m] = status[m] PROVE Goal
    BY <2>1 DEF IInv, StoredInv
  <2>2. ASSUME NEW n \in Messages, SendStep(n) PROVE Goal
    <3>1. CASE CheckParticipant(n)
      BY <3>1 DEF CheckParticipant, rows, IInv, TypeOK, StoredInv
    <3>2. ASSUME NEW x \in Answer, Scan(n, x) PROVE Goal
      BY <3>2 DEF Scan, IInv, TypeOK, StoredInv
    <3>3. CASE Store(n)
      BY <3>3 DEF Store, IInv, TypeOK, StoredInv
    <3>4. CASE Emit(n)
      BY <3>4 DEF Emit, rows, IInv, TypeOK, StoredInv
    <3>5. QED
      BY <2>2, <3>1, <3>2, <3>3, <3>4 DEF SendStep
  <2>3. ASSUME NEW n \in Messages, FailSend(n) PROVE Goal
    BY <2>3 DEF FailSend, rows, IInv, TypeOK, StoredInv
  <2>4. ASSUME NEW n \in Messages, NEW u \in Users, ReadThread(n, u) PROVE Goal
    BY <2>4 DEF ReadThread, IInv, TypeOK, StoredInv
  <2>5. ASSUME NEW h \in Handlers, WriteStatus(h) PROVE Goal
    <3>1. spc' = spc
      BY <2>5 DEF WriteStatus, sending
    <3>2. job[h] \in Ack /\ Stored(job[h].msg) /\ found[h] # "none"
      BY <2>5 DEF WriteStatus, IInv, TypeOK, StoredInv, MessageStatus
    <3>3. status' = [status EXCEPT ![job[h].msg] = found[h]]
      BY <2>5 DEF WriteStatus
    <3>4. QED
      BY <3>1, <3>2, <3>3 DEF IInv, TypeOK, StoredInv
  <2>6. ASSUME NEW u \in Users, \/ OpenPage(u) \/ ClosePage(u) \/ DropSocket(u) \/ Fetch(u)
                                \/ \E n \in Messages : ReceivePush(n, u)
        PROVE  Goal
    BY <2>1, <2>6 DEF OpenPage, ClosePage, DropSocket, Dropped, Fetch, ReceivePush, rows, sending
  <2>7. ASSUME NEW h \in Handlers, ReadReceipts(h) \/ FailHandler(h) \/ \E a \in acks : Mark(h, a) \/ FailMark(h, a) PROVE Goal
    BY <2>1, <2>7 DEF ReadReceipts, FailHandler, Mark, FailMark, Dropped, rows, sending
  <2>8. CASE AddParticipants \/ UNCHANGED vars
    BY <2>1, <2>8 DEF AddParticipants, vars, rows, sending
  <2>9. QED
    BY <2>2, <2>3, <2>4, <2>5, <2>6, <2>7, <2>8 DEF Next
<1>2. ASSUME NEW a \in acks' PROVE status'[a.msg] # "none"
  <2>1. a.msg \in Messages
    BY NextType DEF TypeOK, Ack
  <2>2. CASE a \in acks
    BY <2>1, <2>2, StoredStays DEF IInv, StoredInv
  <2>3. CASE a \notin acks
    <3>1. \/ \E u \in Users : Fetch(u)
          \/ \E u \in Users, m \in Messages : ReceivePush(m, u)
      BY <2>3 DEF Next, AddParticipants, SendStep, CheckParticipant, Scan, Store, Emit, FailSend, ReadThread,
         OpenPage, ClosePage, DropSocket, Dropped, Mark, FailMark, ReadReceipts, WriteStatus, FailHandler, vars, pages
    <3>2. ASSUME NEW u \in Users, Fetch(u) PROVE Stored(a.msg)
      <4>1. PICK m \in Messages : Stored(m) /\ a = [kind |-> "read", msg |-> m, user |-> u]
        BY <2>3, <3>2 DEF Fetch
      <4>2. QED
        BY <4>1
    <3>3. ASSUME NEW u \in Users, NEW m \in Messages, ReceivePush(m, u) PROVE Stored(a.msg)
      <4>1. a = [kind |-> "delivered", msg |-> m, user |-> u] /\ <<m, u>> \in pushed
        BY <2>3, <3>3 DEF ReceivePush
      <4>2. Stored(<<m, u>>[1])
        BY <4>1 DEF IInv, PushIsApproved
      <4>3. QED
        BY <4>1, <4>2
    <3>4. QED
      BY <2>1, <3>1, <3>2, <3>3, StoredStays
  <2>4. QED
    BY <2>2, <2>3
<1>3. ASSUME NEW h \in Handlers, hpc'[h] # "idle" PROVE status'[job'[h].msg] # "none"
  <2>1. \/ hpc[h] # "idle" /\ job'[h] = job[h]
        \/ job'[h] \in acks
    BY <1>3, HandlerEffect DEF ReadReceipts
  <2>2. job'[h] \in Ack
    BY <1>3, NextType DEF TypeOK
  <2>3. job'[h].msg \in Messages /\ Stored(job'[h].msg)
    BY <2>1, <2>2 DEF IInv, StoredInv, Ack
  <2>4. QED
    BY <2>3, StoredStays
<1>4. QED
  BY <1>1, <1>2, <1>3 DEF StoredInv

\* What a handler has found stays earned, since receipts are marked for good.
LEMMA NextFound == IInv /\ [Next]_vars => FoundInv'
<1> SUFFICES ASSUME IInv, [Next]_vars, NEW h \in Handlers, hpc'[h] = "write"
             PROVE  /\ found'[h] = "READ" => receipts'[job'[h].msg] \subseteq read'[job'[h].msg]
                    /\ found'[h] = "DELIVERED" => receipts'[job'[h].msg] \subseteq delivered'[job'[h].msg]
  BY DEF FoundInv
<1>1. CASE hpc'[h] = hpc[h] /\ job'[h] = job[h] /\ found'[h] = found[h]
  <2>1. job[h].msg \in Messages /\ Stored(job[h].msg)
    BY <1>1 DEF IInv, TypeOK, StoredInv, Ack
  <2>2. QED
    BY <1>1, <2>1, StoredStays DEF IInv, FoundInv
<1>2. CASE ReadReceipts(h)
  BY <1>2 DEF ReadReceipts, Computed, rows, IInv, TypeOK
<1>3. QED
  BY <1>1, <1>2, HandlerEffect

\* A status is never ahead of the receipts.
LEMMA NextEarned == IInv /\ [Next]_vars => StatusIsEarned'
<1> SUFFICES ASSUME IInv, [Next]_vars, NEW m \in Messages
             PROVE  /\ status'[m] = "READ" => receipts'[m] \subseteq read'[m]
                    /\ status'[m] = "DELIVERED" => receipts'[m] \subseteq delivered'[m]
  BY DEF StatusIsEarned
<1>1. CASE status'[m] = status[m]
  BY <1>1, StoredStays DEF Stored, IInv, StatusIsEarned
<1>2. CASE Store(m)
  BY <1>2 DEF Store, IInv, TypeOK
<1>3. ASSUME NEW h \in Handlers, WriteStatus(h), job[h].msg = m
      PROVE  /\ status'[m] = "READ" => receipts'[m] \subseteq read'[m]
             /\ status'[m] = "DELIVERED" => receipts'[m] \subseteq delivered'[m]
  BY <1>3 DEF WriteStatus, IInv, TypeOK, FoundInv
<1>4. QED
  BY <1>1, <1>2, <1>3, StatusEffect

\* A push is of a message that is stored and approved, to who is connected.
LEMMA NextPush == IInv /\ [Next]_vars => PushIsApproved'
<1> SUFFICES ASSUME IInv, [Next]_vars, NEW p \in pushed'
             PROVE  moderation'[p[1]] = "APPROVED" /\ status'[p[1]] # "none" /\ p[2] \in online'
  BY DEF PushIsApproved, Stored
<1>1. p[1] \in Messages
  BY NextType DEF TypeOK
<1>2. CASE p \in pushed /\ p[2] \in online'
  BY <1>1, <1>2, StoredStays DEF IInv, PushIsApproved
<1>3. CASE p \in pushed /\ p[2] \notin online'
  <2>1. PICK u \in Users : ClosePage(u)
    BY <1>3 DEF DropSocket, Next, AddParticipants, SendStep, CheckParticipant, Scan, Store, Emit, FailSend, ReadThread,
       OpenPage, Fetch, ReceivePush, Mark, FailMark, Dropped, ReadReceipts, WriteStatus, FailHandler, vars, pages, IInv, PushIsApproved
  <2>2. p[2] # u /\ online' = online \ {u}
    BY <2>1 DEF ClosePage
  <2>3. QED
    BY <1>3, <2>2 DEF IInv, PushIsApproved
<1>4. CASE p \notin pushed
  <2>1. PICK m \in Messages : Emit(m)
    BY <1>4 DEF Next, AddParticipants, SendStep, CheckParticipant, Scan, Store, FailSend, ReadThread,
       OpenPage, ClosePage, DropSocket, Dropped, Fetch, ReceivePush, Mark, FailMark, ReadReceipts, WriteStatus, FailHandler, vars, pages
  <2>2. moderation[m] = "APPROVED" /\ p \in {m} \X (participants \cap online)
    BY <1>4, <2>1 DEF Emit
  <2>3. p[1] = m /\ p[2] \in online /\ Stored(m)
    BY <2>1, <2>2 DEF Emit, IInv, StoredInv
  <2>4. online' = online
    BY <2>1 DEF Emit
  <2>5. QED
    BY <2>2, <2>3, <2>4, StoredStays
<1>5. QED
  BY <1>2, <1>3, <1>4

\* A calm handler starts when no other is working.
LEMMA NextCalm == IInv /\ [Next]_vars => CalmInv'
<1> SUFFICES ASSUME IInv, [Next]_vars, calm'
             PROVE  /\ \A g, h \in Handlers : hpc'[g] # "idle" /\ hpc'[h] # "idle" => g = h
                    /\ \A h \in Handlers : hpc'[h] = "write" => found'[h] = Computed(job[h].msg)'
  BY DEF CalmInv
<1>1. calm
  BY DEF Next, AddParticipants, SendStep, CheckParticipant, Scan, Store, Emit, FailSend, ReadThread, OpenPage,
     ClosePage, DropSocket, Dropped, Fetch, ReceivePush, Mark, FailMark, ReadReceipts, WriteStatus, FailHandler, vars, gateway
<1>2. ASSUME NEW h \in Handlers, NEW a \in acks, Mark(h, a)
      PROVE  \A g \in Handlers : g # h => hpc'[g] = "idle"
  BY <1>1, <1>2, MarkEffect DEF IInv, TypeOK
<1>3. ASSUME NEW g \in Handlers, NEW h \in Handlers, hpc'[g] # "idle", hpc'[h] # "idle", g # h
      PROVE  FALSE
  <2>1. hpc[g] # "idle" \/ \E a \in acks : Mark(g, a)
    BY <1>3, HandlerEffect DEF ReadReceipts
  <2>2. hpc[h] # "idle" \/ \E a \in acks : Mark(h, a)
    BY <1>3, HandlerEffect DEF ReadReceipts
  <2>3. QED
    BY <1>1, <1>2, <1>3, <2>1, <2>2 DEF IInv, CalmInv
<1>4. ASSUME NEW h \in Handlers, hpc'[h] = "write" PROVE found'[h] = Computed(job[h].msg)'
  <2>1. CASE hpc[h] = "write" /\ job'[h] = job[h] /\ found'[h] = found[h]
    <3> DEFINE m == job[h].msg
    <3>2. m \in Messages /\ Stored(m) /\ found[h] = Computed(m)
      BY <1>1, <2>1 DEF IInv, TypeOK, StoredInv, CalmInv, Ack
    <3>3. receipts'[m] = receipts[m] /\ read'[m] = read[m] /\ delivered'[m] = delivered[m]
      <4>1. receipts'[m] = receipts[m]
        BY <3>2, StoredStays
      <4>2. \A g \in Handlers, a \in acks : ~Mark(g, a)
        BY <1>1, <2>1, MarkEffect
      <4>3. read'[m] = read[m] /\ delivered'[m] = delivered[m]
        <5>1. spc[m] # "store"
          BY <3>2 DEF IInv, StoredInv
        <5>2. CASE \E n \in Messages : Store(n)
          BY <3>2, <5>1, <5>2 DEF Store, IInv, TypeOK
        <5>3. CASE ~\E n \in Messages : Store(n)
          BY <4>2, <5>3 DEF Next, AddParticipants, SendStep, CheckParticipant, Scan, Emit, FailSend, ReadThread,
             OpenPage, ClosePage, DropSocket, Dropped, Fetch, ReceivePush, FailMark,
             ReadReceipts, WriteStatus, FailHandler, vars, rows
        <5>4. QED
          BY <5>2, <5>3
      <4>4. QED
        BY <4>1, <4>3
    <3>4. QED
      BY <2>1, <3>2, <3>3 DEF Computed
  <2>2. CASE ReadReceipts(h)
    BY <2>2 DEF ReadReceipts, Computed, rows, IInv, TypeOK
  <2>3. QED
    BY <1>4, <2>1, <2>2, HandlerEffect
<1>5. QED
  BY <1>3, <1>4

\* Nobody marks the receipts of a message without working on it.
LEMMA NextSettled == IInv /\ [Next]_vars => SettledStatus'
<1> SUFFICES ASSUME IInv, [Next]_vars, calm', NEW m \in Messages, status'[m] # "none",
                    receipts'[m] \ {author'[m]} # {},
                    \A h \in Handlers : hpc'[h] # "idle" => job'[h].msg # m
             PROVE  status'[m] = Computed(m)'
  BY DEF SettledStatus, Stored
<1>1. calm
  BY DEF Next, AddParticipants, SendStep, CheckParticipant, Scan, Store, Emit, FailSend, ReadThread, OpenPage,
     ClosePage, DropSocket, Dropped, Fetch, ReceivePush, Mark, FailMark, ReadReceipts, WriteStatus, FailHandler, vars, gateway
<1>2. CASE Store(m)
  <2>1. /\ status'[m] = "SENT" /\ receipts'[m] = audience[m] /\ author' = author
        /\ delivered'[m] = audience[m] \cap {author[m]} /\ read'[m] = audience[m] \cap {author[m]}
    BY <1>2 DEF Store, Marked, IInv, TypeOK
  <2>2. QED
    BY <2>1 DEF Computed
<1>3. ASSUME NEW h \in Handlers, WriteStatus(h), job[h].msg = m PROVE status'[m] = Computed(m)'
  <2>1. found[h] = Computed(m)
    BY <1>1, <1>3 DEF WriteStatus, IInv, CalmInv
  <2>2. status'[m] = found[h] /\ UNCHANGED <<receipts, delivered, read>>
    BY <1>3 DEF WriteStatus, IInv, TypeOK
  <2>3. QED
    BY <2>1, <2>2 DEF Computed
<1>4. CASE ~Store(m) /\ \A h \in Handlers : ~(WriteStatus(h) /\ job[h].msg = m)
  <2>1. status'[m] = status[m] /\ Stored(m)
    BY <1>4, StatusEffect DEF Stored
  <2>2. receipts'[m] = receipts[m] /\ author'[m] = author[m]
    BY <2>1, StoredStays
  <2>3. ASSUME NEW h \in Handlers, hpc[h] # "idle" PROVE job[h].msg # m
    <3>1. CASE hpc'[h] # "idle"
      <4>1. job'[h] = job[h]
        BY <2>3, <3>1, HandlerEffect DEF ReadReceipts
      <4>2. QED
        BY <3>1, <4>1
    <3>2. CASE hpc'[h] = "idle"
      <4>1. WriteStatus(h)
        <5>1. PICK g \in Handlers : WriteStatus(g) \/ FailHandler(g) \/ ReadReceipts(g) \/ \E a \in acks : Mark(g, a)
          BY <2>3, <3>2 DEF Next, AddParticipants, SendStep, CheckParticipant, Scan, Store, Emit, FailSend, ReadThread,
             OpenPage, ClosePage, DropSocket, Dropped, Fetch, ReceivePush, FailMark, vars, gateway
        <5>2. ~FailHandler(g) /\ \A a \in acks : ~Mark(g, a)
          BY <1>1, <2>3, MarkEffect DEF FailHandler
        <5>3. QED
          BY <2>3, <3>2, <5>1, <5>2 DEF WriteStatus, ReadReceipts, IInv, TypeOK
      <4>2. QED
        BY <1>4, <4>1
    <3>3. QED
      BY <3>1, <3>2
  <2>4. ASSUME NEW g \in Handlers, NEW a \in acks, Mark(g, a), a.msg = m
        PROVE  read'[m] = read[m] /\ delivered'[m] = delivered[m]
    <3>1. \/ /\ hpc' = [hpc EXCEPT ![g] = "refresh"]
             /\ job' = [job EXCEPT ![g] = a]
          \/ /\ delivered' = delivered /\ read' = read
      BY <2>4, MarkEffect
    <3>2. ~(/\ hpc' = [hpc EXCEPT ![g] = "refresh"]
            /\ job' = [job EXCEPT ![g] = a])
      BY <2>4 DEF IInv, TypeOK
    <3>3. QED
      BY <3>1, <3>2
  <2>5. read'[m] = read[m] /\ delivered'[m] = delivered[m]
    <3>1. CASE \E g \in Handlers, a \in acks : Mark(g, a)
      BY <2>4, <3>1, MarkEffect
    <3>2. CASE \E n \in Messages : Store(n)
      BY <1>4, <3>2 DEF Store, IInv, TypeOK
    <3>3. CASE ~(\E g \in Handlers, a \in acks : Mark(g, a)) /\ ~(\E n \in Messages : Store(n))
      BY <3>3 DEF Next, AddParticipants, SendStep, CheckParticipant, Scan, Emit, FailSend, ReadThread,
         OpenPage, ClosePage, DropSocket, Dropped, Fetch, ReceivePush, FailMark,
             ReadReceipts, WriteStatus, FailHandler, vars, rows
    <3>4. QED
      BY <3>1, <3>2, <3>3
  <2>6. status[m] = Computed(m)
    BY <1>1, <2>1, <2>2, <2>3 DEF IInv, SettledStatus
  <2>7. QED
    BY <2>1, <2>2, <2>5, <2>6 DEF Computed
<1>5. QED
  BY <1>2, <1>3, <1>4

\* Every step keeps all of what is known of messages, handlers and pages.
LEMMA NextIInv == IInv /\ [Next]_vars => IInv'
  BY NextType, NextStored, NextFound, NextCalm, NextEarned, NextPush, NextSettled DEF IInv

--------------------------------------------------------------------------------
(* Theorems                                                                *)

\* The invariant holds in every reachable state.
THEOREM Invariance == Spec => []IInv
<1>1. Init => IInv
  BY InitIInv
<1>2. IInv /\ [Next]_vars => IInv'
  BY NextIInv
<1>3. QED
  BY <1>1, <1>2, PTL DEF Spec

\* The variables keep their types.
THEOREM TypeCorrectness == Spec => []TypeOK
<1>1. IInv => TypeOK
  BY DEF IInv
<1>2. QED
  BY <1>1, Invariance, PTL

\* A handler that writes late what it found early does not put a status ahead of
\* the receipts.
THEOREM EarnedStatus == Spec => []StatusIsEarned
<1>1. IInv => StatusIsEarned
  BY DEF IInv
<1>2. QED
  BY <1>1, Invariance, PTL

\* Messages that are held or rejected are pushed to nobody.
THEOREM ApprovedPush == Spec => []PushIsApproved
<1>1. IInv => PushIsApproved
  BY DEF IInv
<1>2. QED
  BY <1>1, Invariance, PTL

\* Handlers that run one at a time and do not fail leave every status right.
THEOREM CalmStatus == Spec => []SettledStatus
<1>1. IInv => SettledStatus
  BY DEF IInv
<1>2. QED
  BY <1>1, Invariance, PTL
--------------------------------------------------------------------------------
(* The refinement of MessageReceipts                                       *)

\* The author of a message stays known.
LEMMA AuthorKept == IInv /\ AuthorInv /\ [Next]_vars => AuthorInv'
<1> SUFFICES ASSUME IInv, AuthorInv, [Next]_vars PROVE AuthorInv'
  OBVIOUS
<1> USE DEF AuthorInv
<1>1. ASSUME UNCHANGED <<author, spc>> PROVE AuthorInv'
  BY <1>1
<1>2. ASSUME NEW m \in Messages, SendStep(m) \/ FailSend(m) PROVE AuthorInv'
  BY <1>2 DEF SendStep, CheckParticipant, Scan, Store, Emit, FailSend, rows, IInv, TypeOK
<1>3. ASSUME NEW m \in Messages, NEW u \in Users, ReadThread(m, u) PROVE AuthorInv'
  BY <1>3 DEF ReadThread, IInv, TypeOK
<1>4. ASSUME NEW u \in Users, OpenPage(u) \/ ClosePage(u) \/ DropSocket(u) \/ Fetch(u) \/ \E m \in Messages : ReceivePush(m, u)
      PROVE  AuthorInv'
  BY <1>1, <1>4 DEF OpenPage, ClosePage, DropSocket, Dropped, Fetch, ReceivePush, rows, sending
<1>5. ASSUME NEW h \in Handlers, (\E a \in acks : Mark(h, a) \/ FailMark(h, a)) \/ ReadReceipts(h) \/ WriteStatus(h) \/ FailHandler(h)
      PROVE  AuthorInv'
  BY <1>1, <1>5 DEF Mark, FailMark, Dropped, ReadReceipts, WriteStatus, FailHandler, rows, sending
<1>6. CASE AddParticipants \/ UNCHANGED vars
  BY <1>1, <1>6 DEF AddParticipants, vars, rows, sending
<1>7. QED
  BY <1>2, <1>3, <1>4, <1>5, <1>6 DEF Next

\* A statement of a handler marks the receipt of one user, or none.
LEMMA MarkImplemented ==
    ASSUME IInv, NEW h \in Handlers, NEW a \in acks, Mark(h, a)
    PROVE  \/ Ticks!MarkDelivered(a.msg, a.user) \/ Ticks!MarkRead(a.msg, a.user)
           \/ UNCHANGED Ticks!vars
<1>1. /\ a.msg \in Messages /\ status[a.msg] # "none"
      /\ UNCHANGED <<status, receipts, calm>>
  BY MarkEffect DEF Mark, FailMark, Dropped, Stored
<1>2. CASE a.user \in receipts[a.msg] /\ Fresh(a)
  <2>1. /\ delivered' = [delivered EXCEPT ![a.msg] = @ \cup {a.user}]
        /\ read' = [read EXCEPT ![a.msg] = IF a.kind = "read" THEN @ \cup {a.user} ELSE @]
    BY <1>2 DEF Mark
  <2>2. CASE a.kind = "read"
    <3>1. read' = [read EXCEPT ![a.msg] = @ \cup {a.user}]
      BY <2>1, <2>2
    <3>2. QED
      BY <1>1, <1>2, <2>1, <3>1 DEF Ticks!MarkRead
  <2>3. CASE a.kind # "read"
    <3>1. read' = [read EXCEPT ![a.msg] = read[a.msg]]
      BY <2>1, <2>3
    <3>2. read' = read
      BY <1>1, <3>1 DEF IInv, TypeOK
    <3>3. QED
      BY <1>1, <1>2, <2>1, <3>2 DEF Ticks!MarkDelivered
  <2>4. QED
    BY <2>2, <2>3
<1>3. CASE ~(a.user \in receipts[a.msg] /\ Fresh(a))
  BY <1>1, <1>3 DEF Mark, FailMark, Dropped, Ticks!vars
<1>4. QED
  BY <1>2, <1>3

\* The status a handler writes is one the marks have earned by then.
LEMMA ShowImplemented ==
    ASSUME IInv, NEW h \in Handlers, WriteStatus(h)
    PROVE  job[h].msg \in Messages /\ found[h] \in MessageStatus /\ Ticks!Show(job[h].msg, found[h])
<1> DEFINE m == job[h].msg
<1>1. m \in Messages /\ status[m] # "none" /\ found[h] \in MessageStatus
  BY DEF WriteStatus, IInv, TypeOK, StoredInv, Stored, Ack
<1>2. /\ found[h] = "READ" => receipts[m] \subseteq read[m]
      /\ found[h] = "DELIVERED" => receipts[m] \subseteq delivered[m]
  BY DEF WriteStatus, IInv, FoundInv
<1>3. calm => found[h] = Computed(m)
  BY DEF WriteStatus, IInv, CalmInv
<1>4. status' = [status EXCEPT ![m] = found[h]] /\ UNCHANGED <<receipts, delivered, read, calm>>
  BY DEF WriteStatus
<1> HIDE DEF m
<1>5. found[h] \in Ticks!Earned(m)
  BY <1>1, <1>2 DEF Ticks!Earned, MessageStatus
<1>6. calm => Ticks!Says(m, found[h])
  BY <1>3, <1>5 DEF Ticks!Says, Ticks!Earned, Computed
<1>7. Ticks!Show(m, found[h])
  BY <1>1, <1>4, <1>5, <1>6 DEF Ticks!Show
<1>8. QED
  BY <1>1, <1>7 DEF m

\* Every step of senders, pages and handlers is a step of MessageReceipts, or of nothing
\* it knows.
LEMMA TicksImplemented ==
    ASSUME IInv, AuthorInv, [Next]_vars
    PROVE  [Ticks!Next]_(Ticks!vars)
<1>1. ASSUME UNCHANGED <<status, receipts, delivered, read, calm>> PROVE UNCHANGED Ticks!vars
  BY <1>1 DEF Ticks!vars
<1>2. ASSUME NEW m \in Messages, Store(m) PROVE Ticks!Next
  <2>1. spc[m] = "store" /\ status[m] = "none" /\ author[m] \in Users /\ audience[m] \in SUBSET Users
    BY <1>2 DEF Store, IInv, TypeOK, StoredInv, Stored, AuthorInv
  <2>2. Ticks!Post(m, author[m], audience[m])
    BY <1>2, <2>1 DEF Store, Marked, Ticks!Post, gateway
  <2>3. QED
    BY <2>1, <2>2 DEF Ticks!Next
<1>3. ASSUME NEW m \in Messages, SendStep(m) \/ FailSend(m), ~Store(m) PROVE UNCHANGED Ticks!vars
  BY <1>1, <1>3 DEF SendStep, CheckParticipant, Scan, Emit, FailSend, rows, gateway
<1>4. ASSUME NEW u \in Users, \/ OpenPage(u) \/ ClosePage(u) \/ DropSocket(u) \/ Fetch(u)
                              \/ \E m \in Messages : ReadThread(m, u) \/ ReceivePush(m, u)
      PROVE  UNCHANGED Ticks!vars
  BY <1>1, <1>4 DEF OpenPage, ClosePage, DropSocket, Dropped, Fetch, ReadThread, ReceivePush, rows, gateway
<1>5. ASSUME NEW h \in Handlers, NEW a \in acks, Mark(h, a) PROVE [Ticks!Next]_(Ticks!vars)
  BY <1>5, MarkEffect, MarkImplemented DEF Ticks!Next
<1>6. ASSUME NEW h \in Handlers, WriteStatus(h) PROVE Ticks!Next
  BY <1>6, ShowImplemented DEF Ticks!Next, MessageStatus
<1>7. ASSUME NEW h \in Handlers, ReadReceipts(h) \/ FailHandler(h) \/ \E a \in acks : FailMark(h, a)
      PROVE  UNCHANGED Ticks!vars
  BY <1>1, <1>7 DEF ReadReceipts, FailHandler, FailMark, rows, gateway
<1>8. CASE AddParticipants \/ UNCHANGED vars
  BY <1>1, <1>8 DEF AddParticipants, vars, rows, gateway
<1>9. QED
  BY <1>2, <1>3, <1>4, <1>5, <1>6, <1>7, <1>8 DEF Next

\* Any number of handlers and pages show the ticks that MessageReceipts promises.
THEOREM ReceiptsRefinement == Spec => ImplementsReceipts
<1>1. Init => AuthorInv /\ Ticks!Init
  BY DEF Init, AuthorInv, Ticks!Init
<1>2. IInv /\ AuthorInv /\ [Next]_vars => AuthorInv' /\ [Ticks!Next]_(Ticks!vars)
  BY AuthorKept, TicksImplemented
<1>3. QED
  BY <1>1, <1>2, Invariance, PTL DEF Spec, ImplementsReceipts, Ticks!Spec

\* Where handlers take turns and do not fail, no user sees a tick taken back.
THEOREM NoTickIsTakenBack == Spec => NeverBack
<1>1. IInv /\ [Next]_vars => [TicksGoForward]_vars
  <2> SUFFICES ASSUME IInv, [Next]_vars, calm, NEW m \in Messages
               PROVE  Rank(status[m]) <= Rank(status'[m])
    BY DEF TicksGoForward
  <2>1. status[m] \in MessageStatus \cup {"none"}
    BY DEF IInv, TypeOK
  <2>2. CASE status'[m] = status[m]
    BY <2>1, <2>2 DEF Rank, MessageStatus
  <2>3. CASE Store(m)
    BY <2>3 DEF Store, Stored, Rank, IInv, TypeOK, StoredInv
  <2>4. ASSUME NEW h \in Handlers, WriteStatus(h), job[h].msg = m
        PROVE  Rank(status[m]) <= Rank(status'[m])
    <3>1. status'[m] = Computed(m)
      BY <2>4 DEF WriteStatus, IInv, TypeOK, CalmInv
    <3>2. /\ status[m] = "READ" => receipts[m] \subseteq read[m]
          /\ status[m] = "DELIVERED" => receipts[m] \subseteq delivered[m]
      BY DEF IInv, StatusIsEarned
    <3>3. QED
      BY <2>1, <3>1, <3>2 DEF Computed, Rank, MessageStatus
  <2>5. QED
    BY <2>2, <2>3, <2>4, StatusEffect
<1>2. QED
  BY <1>1, Invariance, PTL DEF Spec, NeverBack

--------------------------------------------------------------------------------
(* The safety half of EventuallyRead                                       *)

\* No step takes the last thing a page has to ask with it: what is handled is written,
\* and what is written shows in the next fetch.
LEMMA AskingStep == IInv /\ SilentOnlyIfLost /\ [Next]_vars => SilentOnlyIfLost'
<1> SUFFICES ASSUME IInv, SilentOnlyIfLost, [Next]_vars, NEW m \in Messages, NEW u \in Users,
                    status'[m] # "none", u \in receipts'[m], u \in online', u # author'[m]
             PROVE  \/ changed'[u] \/ <<m, u>> \in lost'
                    \/ [kind |-> "read", msg |-> m, user |-> u] \in acks'
  BY DEF SilentOnlyIfLost, Stored
<1> DEFINE ack == [kind |-> "read", msg |-> m, user |-> u]
           Goal == changed'[u] \/ <<m, u>> \in lost' \/ ack \in acks'
<1> HIDE DEF ack
<1>1. ASSUME Stored(m), u \in online PROVE changed[u] \/ <<m, u>> \in lost \/ ack \in acks
  BY <1>1, StoredStays DEF SilentOnlyIfLost, ack
<1>2. ASSUME Touch PROVE Goal
  BY <1>2 DEF Touch
<1>3. ASSUME UNCHANGED <<status, online, changed, acks, lost>> PROVE Goal
  BY <1>1, <1>3 DEF Stored
<1>4. ASSUME NEW n \in Messages, SendStep(n) \/ FailSend(n) PROVE Goal
  BY <1>2, <1>3, <1>4 DEF SendStep, CheckParticipant, Scan, Store, Emit, FailSend, rows, pages
<1>5. ASSUME NEW v \in Users, (\E n \in Messages : ReadThread(n, v) \/ ReceivePush(n, v)) PROVE Goal
  <2>1. UNCHANGED <<status, online, changed, lost>> /\ acks \subseteq acks'
    BY <1>5 DEF ReadThread, ReceivePush, rows, pages
  <2>2. QED
    BY <1>1, <2>1 DEF Stored
<1>6. ASSUME NEW v \in Users, OpenPage(v) PROVE Goal
  BY <1>1, <1>6 DEF OpenPage, rows, Stored, IInv, TypeOK
<1>7. ASSUME NEW v \in Users, NEW gone, Dropped(v, gone), UNCHANGED <<rows, changed>>, u \in online
      PROVE  Goal
  <2>1. CASE ack \in gone
    BY <1>7, <2>1 DEF Dropped, ack
  <2>2. CASE ack \notin gone
    BY <1>1, <1>7, <2>2 DEF Dropped, Stored, rows
  <2>3. QED
    BY <2>1, <2>2
<1>8. ASSUME NEW v \in Users, ClosePage(v) \/ DropSocket(v) PROVE Goal
  <2>1. u \in online
    BY <1>8 DEF ClosePage, DropSocket
  <2>2. QED
    BY <1>7, <1>8, <2>1 DEF ClosePage, DropSocket
<1>9. ASSUME NEW h \in Handlers, NEW a \in acks, FailMark(h, a) PROVE Goal
  <2>1. a.user \in Users
    BY DEF IInv, TypeOK, Ack
  <2>2. QED
    BY <1>7, <1>9, <2>1 DEF FailMark
<1>10. ASSUME NEW v \in Users, Fetch(v) PROVE Goal
  <2>1. status' = status /\ author' = author /\ online' = online /\ acks \subseteq acks'
    BY <1>10 DEF Fetch, rows
  <2>2. CASE u = v
    BY <1>10, <2>1, <2>2 DEF Fetch, ack, Stored
  <2>3. CASE u # v
    BY <1>1, <1>10, <2>1, <2>3 DEF Fetch, Stored, IInv, TypeOK
  <2>4. QED
    BY <2>2, <2>3
<1>11. ASSUME NEW h \in Handlers, NEW a \in acks, Mark(h, a) PROVE Goal
  <2>1. UNCHANGED <<status, online, receipts, lost>> /\ acks' = acks \ {a}
    BY <1>11 DEF Mark
  <2>2. CASE a.user \in receipts[a.msg] /\ Fresh(a)
    BY <1>2, <1>11, <2>2 DEF Mark
  <2>3. CASE ~(a.user \in receipts[a.msg] /\ Fresh(a))
    <3>1. changed' = changed
      BY <1>11, <2>3 DEF Mark
    <3>2. a # ack
      BY <2>1, <2>3 DEF ack, Fresh
    <3>3. QED
      BY <1>1, <2>1, <3>1, <3>2 DEF Stored
  <2>4. QED
    BY <2>2, <2>3
<1>12. ASSUME NEW h \in Handlers, ReadReceipts(h) \/ WriteStatus(h) \/ FailHandler(h) PROVE Goal
  <2>1. CASE WriteStatus(h) /\ status[job[h].msg] # found[h]
    BY <1>2, <2>1 DEF WriteStatus
  <2>2. CASE WriteStatus(h) /\ status[job[h].msg] = found[h]
    BY <1>3, <2>2 DEF WriteStatus, IInv, TypeOK
  <2>3. CASE ReadReceipts(h) \/ FailHandler(h)
    BY <1>3, <2>3 DEF ReadReceipts, FailHandler, rows, pages
  <2>4. QED
    BY <1>12, <2>1, <2>2, <2>3
<1>13. ASSUME AddParticipants PROVE Goal
  BY <1>2, <1>13 DEF AddParticipants
<1>14. ASSUME UNCHANGED vars PROVE Goal
  BY <1>3, <1>14 DEF vars, rows, pages
<1>15. Goal
  BY <1>4, <1>5, <1>6, <1>8, <1>9, <1>10, <1>11, <1>12, <1>13, <1>14 DEF Next
<1>16. QED
  BY <1>15 DEF ack

\* A message sent to an open page is forgotten only where the page's last word of it was
\* lost, for any number of users, pages and handlers: what EventuallyRead needs besides
\* progress.
THEOREM ForgottenOnlyIfLost == Spec => []SilentOnlyIfLost
<1>1. Init => SilentOnlyIfLost
  BY DEF Init, SilentOnlyIfLost, Stored
<1>2. QED
  BY <1>1, AskingStep, Invariance, PTL DEF Spec

================================================================================
