------------------------ MODULE ListingModerationProofs ------------------------
(***************************************************************************)
(* The safety of ListingModeration for every set of listings, requests,    *)
(* workers and edits, and any number of attempts.                          *)
(***************************************************************************)
EXTENDS ListingModerationProps, TLAPS

\* The bodies of updates are well formed, those tried and those made up for a create.
LEMMA EditTypes ==
    /\ Edits \subseteq UpdateListingDto
    /\ NoEdit \in UpdateListingDto
    /\ \A s \in ListingStatus : StatusOnly(s) \in UpdateListingDto /\ StatusOnly(s).status = s
    /\ \A e \in UpdateListingDto :
          e.text \in Texts \cup {Absent} /\ e.status \in ListingStatus \cup {Absent}
    /\ NoEdit.status = Absent
BY ListingAssumption DEF UpdateListingDto, NoEdit, StatusOnly

QueueTypeOK ==
    /\ desired \in [Requests -> ListingStatus \cup {Absent}]
    /\ job \in [Requests -> JobState]
    /\ worker \in [Requests -> Workers \cup {NoWorker}]
    /\ verdict \in [Requests -> ListingModerationStatus]
    /\ attempts \in [Requests -> 0 .. MaxAttempts - 1]
    /\ stalled \subseteq Requests

\* A job that leaves the queue or goes back to it keeps the queue's types.
LEMMA LeaveType ==
    ASSUME QueueTypeOK, NEW r \in Requests, NEW s \in JobState, Leave(r, s)
    PROVE  QueueTypeOK'
<1>1. stalled' \subseteq Requests
  BY DEF QueueTypeOK, Leave
<1>2. attempts' \in [Requests -> 0 .. MaxAttempts - 1]
  BY ListingAssumption DEF QueueTypeOK, Leave
<1>3. desired' \in [Requests -> ListingStatus \cup {Absent}]
  BY DEF QueueTypeOK, Leave
<1>4. job' \in [Requests -> JobState] /\ worker' \in [Requests -> Workers \cup {NoWorker}]
  BY DEF QueueTypeOK, Leave, JobGoto
<1>5. verdict' \in [Requests -> ListingModerationStatus]
  BY DEF QueueTypeOK, Leave, ListingModerationStatus
<1>6. QED
  BY <1>1, <1>2, <1>3, <1>4, <1>5 DEF QueueTypeOK

\* A step keeps the types of the rows, the requests' locals and the jobs.
LEMMA TypeStep == TypeOK /\ [Next]_vars => TypeOK'
<1> USE ListingAssumption DEF TypeOK, ListingStatus, ListingModerationStatus, JobState,
            Running, GivingUp, InRequest, Absent
<1> SUFFICES ASSUME TypeOK, [Next]_vars PROVE TypeOK'
  OBVIOUS
<1>1. ASSUME NEW r \in Requests, NEW l \in Listings, NEW t \in Texts, NEW s \in ListingStatus, CreateRow(r, l, t, s) PROVE TypeOK'
  BY <1>1, EditTypes DEF CreateRow, Goto, queue
<1>2. ASSUME NEW r \in Requests, NEW l \in Listings, NEW e \in Edits, ReadForUpdate(r, l, e) PROVE TypeOK'
  BY <1>2, EditTypes DEF ReadForUpdate, Exists, Goto, rows, queue
<1>3. ASSUME NEW r \in Requests, NEW l \in Listings, NEW f \in BOOLEAN, ReadForImage(r, l, f) PROVE TypeOK'
  BY <1>3, EditTypes DEF ReadForImage, Exists, Goto, rows, queue
<1>4. ASSUME NEW r \in Requests, UpdateRow(r) PROVE TypeOK'
  <2>1. status' \in [Listings -> ListingStatus \cup {Absent}]
    BY <1>4, EditTypes DEF UpdateRow
  <2>2. text' \in [Listings -> Texts \cup {Absent}]
    BY <1>4, EditTypes DEF UpdateRow
  <2>3. moderation' \in [Listings -> ListingModerationStatus \cup {Absent}]
    BY <1>4 DEF UpdateRow
  <2>4. /\ rpc' \in [Requests -> {"idle", "done", "failed"} \cup InRequest]
        /\ edit' \in [Requests -> UpdateListingDto]
        /\ image' \in [Requests -> BOOLEAN]
        /\ seen' \in [Requests -> ListingStatus \cup {Absent}]
    <3>1. CASE NeedsScan(edit[r])
      BY <1>4, <3>1 DEF UpdateRow, Goto
    <3>2. CASE ~NeedsScan(edit[r])
      <4>1. End(r, "done")
        BY <1>4, <3>2 DEF UpdateRow
      <4>2. QED
        BY <4>1, EditTypes DEF Goto, End
    <3>3. QED
      BY <3>1, <3>2
  <2>5. QED
    BY <1>4, <2>1, <2>2, <2>3, <2>4 DEF UpdateRow, queue
<1>5. ASSUME NEW r \in Requests, HoldForImage(r) PROVE TypeOK'
  BY <1>5, EditTypes DEF HoldForImage, Goto, queue
<1>6. ASSUME NEW r \in Requests, StoreImage(r) PROVE TypeOK'
  BY <1>6, EditTypes DEF StoreImage, Goto, queue
<1>7. ASSUME NEW r \in Requests, Enqueue(r) PROVE TypeOK'
  BY <1>7, EditTypes DEF Enqueue, Goto, End, rows, Desired
<1>8. ASSUME NEW r \in Requests, NEW w \in Workers, ReadListing(r, w) PROVE TypeOK'
  BY <1>8, EditTypes DEF ReadListing, JobGoto, rows, request, Verdict
<1>9. ASSUME NEW r \in Requests, ApplyDecision(r) PROVE TypeOK'
  BY <1>9, EditTypes DEF ApplyDecision, DecidedStatus, JobGoto, request
<1>10. ASSUME NEW r \in Requests, RecordDecision(r) PROVE TypeOK'
  <2>1. QueueTypeOK'
    BY <1>10, LeaveType DEF RecordDecision, QueueTypeOK
  <2>2. events' \in [Listings -> SUBSET ListingModerationStatus]
    BY <1>10 DEF RecordDecision
  <2>3. QED
    BY <1>10, <2>1, <2>2 DEF RecordDecision, QueueTypeOK, request
<1>11. ASSUME NEW r \in Requests, FlagForManualReview(r) PROVE TypeOK'
  BY <1>11, EditTypes DEF FlagForManualReview, JobGoto, request
<1>12. ASSUME NEW r \in Requests, RecordFlag(r) PROVE TypeOK'
  BY <1>12, EditTypes DEF RecordFlag, JobGoto, request
<1>13. ASSUME NEW r \in Requests, FailRequest(r) PROVE TypeOK'
  BY <1>13, EditTypes DEF FailRequest, Goto, End, rows, queue
<1>14. ASSUME NEW r \in Requests, FailAttempt(r) PROVE TypeOK'
  <2>1. CASE LastAttempt(r)
    <3>1. Leave(r, "flagging")
      BY <1>14, <2>1 DEF FailAttempt
    <3>2. QueueTypeOK'
      BY <3>1, LeaveType DEF QueueTypeOK
    <3>3. QED
      BY <1>14, <3>2 DEF FailAttempt, QueueTypeOK, rows, request
  <2>2. CASE ~LastAttempt(r)
    BY <1>14, <2>2 DEF FailAttempt, LastAttempt, Requeue, JobGoto, rows, request
  <2>3. QED
    BY <2>1, <2>2
<1>15. ASSUME NEW r \in Requests, Stall(r) PROVE TypeOK'
  <2>1. CASE r \in stalled
    <3>1. Leave(r, "lost")
      BY <1>15, <2>1 DEF Stall
    <3>2. QueueTypeOK'
      BY <3>1, LeaveType DEF QueueTypeOK
    <3>3. QED
      BY <1>15, <3>2 DEF Stall, QueueTypeOK, rows, request
  <2>2. CASE r \notin stalled
    BY <1>15, <2>2 DEF Stall, LastAttempt, Requeue, JobGoto, rows, request
  <2>3. QED
    BY <2>1, <2>2
<1>16. ASSUME NEW r \in Requests, LoseHandler(r) PROVE TypeOK'
  BY <1>16, EditTypes DEF LoseHandler, JobGoto, rows, request
<1>17. ASSUME NEW l \in Listings, SoftDelete(l) PROVE TypeOK'
  BY <1>17, EditTypes DEF SoftDelete, Exists, request, queue
<1>18. CASE UNCHANGED vars
  BY <1>18, EditTypes DEF vars, rows, request, queue
<1> HIDE DEF TypeOK
<1>19. QED
  BY <1>1, <1>2, <1>3, <1>4, <1>5, <1>6, <1>7, <1>8, <1>9, <1>10, <1>11,
     <1>12, <1>13, <1>14, <1>15, <1>16, <1>17, <1>18 DEF Next, Call,
     RequestStep, JobStep, Fault

\* What update does to the row, and what it leaves alone.
LEMMA UpdateEffect ==
    ASSUME TypeOK, NEW r \in Requests, UpdateRow(r)
    PROVE  /\ rpc[r] = "updating"
           /\ \A l \in Listings :
                 /\ l # on[r] => /\ status'[l] = status[l]
                                 /\ moderation'[l] = moderation[l]
                                 /\ text'[l] = text[l]
                 /\ status'[l] = Absent => status[l] = Absent
                 /\ text'[l] = Absent => text[l] = Absent
                 /\ moderation'[l] \in {moderation[l], "PENDING"}
           /\ \A k \in Requests : k # r => rpc'[k] = rpc[k] /\ edit'[k] = edit[k] /\ seen'[k] = seen[k]
           /\ rpc'[r] = "done" \/ (rpc'[r] = "enqueuing" /\ UNCHANGED <<edit, seen>>)
           /\ UNCHANGED <<flaggedImage, deleted, events, on, queue>>
<1>1. \A l \in Listings :
         /\ l # on[r] => status'[l] = status[l] /\ moderation'[l] = moderation[l] /\ text'[l] = text[l]
         /\ status'[l] = Absent => status[l] = Absent
         /\ text'[l] = Absent => text[l] = Absent
         /\ moderation'[l] \in {moderation[l], "PENDING"}
  BY DEF UpdateRow, TypeOK, Absent
<1>2. /\ \A k \in Requests : k # r => rpc'[k] = rpc[k] /\ edit'[k] = edit[k] /\ seen'[k] = seen[k]
      /\ rpc'[r] = "done" \/ (rpc'[r] = "enqueuing" /\ UNCHANGED <<edit, seen>>)
  <2>1. CASE NeedsScan(edit[r])
    BY <2>1 DEF UpdateRow, Goto, TypeOK
  <2>2. CASE ~NeedsScan(edit[r])
    <3>1. End(r, "done")
      BY <2>2 DEF UpdateRow
    <3>2. QED
      BY <3>1 DEF End, Goto, TypeOK
  <2>3. QED
    BY <2>1, <2>2
<1>3. QED
  BY <1>1, <1>2 DEF UpdateRow

\* What a failure or the loss of its worker does to a job.
LEMMA SetBack ==
    ASSUME TypeOK, NEW r \in Requests, FailAttempt(r) \/ Stall(r)
    PROVE  /\ job[r] \in Running
           /\ job'[r] \in {"waiting", "flagging", "lost"}
           /\ \A k \in Requests : k # r => /\ job'[k] = job[k]
                                           /\ desired'[k] = desired[k]
                                           /\ worker'[k] = worker[k]
                                           /\ verdict'[k] = verdict[k]
           /\ job'[r] = "waiting" => desired'[r] = desired[r]
           /\ worker'[r] = NoWorker
           /\ UNCHANGED <<rows, request>>
<1>1. CASE FailAttempt(r)
  BY <1>1 DEF FailAttempt, Leave, Requeue, JobGoto, TypeOK
<1>2. CASE Stall(r)
  BY <1>2 DEF Stall, Leave, Requeue, JobGoto, TypeOK
<1>3. QED
  BY <1>1, <1>2

\* Jobs come after their requests, and a worker has one job.
LEMMA StageStep == TypeOK /\ StageInv /\ [Next]_vars => StageInv'
<1> SUFFICES ASSUME TypeOK, StageInv, [Next]_vars PROVE StageInv'
  OBVIOUS
<1> USE ListingAssumption DEF TypeOK, StageInv, Running, InRequest, Absent, Desired
<1>1. ASSUME NEW r \in Requests, NEW l \in Listings, NEW t \in Texts, NEW s \in ListingStatus, CreateRow(r, l, t, s) PROVE StageInv'
  BY <1>1, EditTypes DEF CreateRow, Goto, queue, ListingModerationStatus,
     ListingStatus
<1>2. ASSUME NEW r \in Requests, NEW l \in Listings, NEW e \in Edits, ReadForUpdate(r, l, e) PROVE StageInv'
  BY <1>2 DEF ReadForUpdate, Exists, Goto, rows, queue
<1>3. ASSUME NEW r \in Requests, NEW l \in Listings, NEW f \in BOOLEAN, ReadForImage(r, l, f) PROVE StageInv'
  BY <1>3 DEF ReadForImage, Exists, Goto, rows, queue
<1>4. ASSUME NEW r \in Requests, UpdateRow(r) PROVE StageInv'
  BY <1>4, UpdateEffect DEF queue
<1>5. ASSUME NEW r \in Requests, HoldForImage(r) PROVE StageInv'
  BY <1>5 DEF HoldForImage, Goto, queue
<1>6. ASSUME NEW r \in Requests, StoreImage(r) PROVE StageInv'
  BY <1>6 DEF StoreImage, Goto, queue
<1>7. ASSUME NEW r \in Requests, Enqueue(r) PROVE StageInv'
  BY <1>7 DEF Enqueue, Goto, End, rows
<1>8. ASSUME NEW r \in Requests, NEW w \in Workers, ReadListing(r, w) PROVE StageInv'
  BY <1>8 DEF ReadListing, JobGoto, rows, request
<1>9. ASSUME NEW r \in Requests, ApplyDecision(r) PROVE StageInv'
  BY <1>9 DEF ApplyDecision, DecidedStatus, JobGoto, request,
     ListingModerationStatus, ListingStatus
<1>10. ASSUME NEW r \in Requests, RecordDecision(r) PROVE StageInv'
  BY <1>10 DEF RecordDecision, Leave, JobGoto, request
<1>11. ASSUME NEW r \in Requests, FlagForManualReview(r) PROVE StageInv'
  BY <1>11 DEF FlagForManualReview, JobGoto, request, ListingStatus
<1>12. ASSUME NEW r \in Requests, RecordFlag(r) PROVE StageInv'
  BY <1>12 DEF RecordFlag, JobGoto, request
<1>13. ASSUME NEW r \in Requests, FailRequest(r) PROVE StageInv'
  BY <1>13 DEF FailRequest, Goto, End, rows, queue
<1>14. ASSUME NEW r \in Requests, FailAttempt(r) PROVE StageInv'
  BY <1>14, SetBack DEF rows, request
<1>15. ASSUME NEW r \in Requests, Stall(r) PROVE StageInv'
  BY <1>15, SetBack DEF rows, request
<1>16. ASSUME NEW r \in Requests, LoseHandler(r) PROVE StageInv'
  BY <1>16 DEF LoseHandler, JobGoto, rows, request, GivingUp
<1>17. ASSUME NEW l \in Listings, SoftDelete(l) PROVE StageInv'
  BY <1>17 DEF SoftDelete, Exists, request, queue
<1>18. CASE UNCHANGED vars
  BY <1>18 DEF vars, rows, request, queue
<1> HIDE DEF TypeOK, StageInv, Running, InRequest, Absent, Desired
<1>19. QED
  BY <1>1, <1>2, <1>3, <1>4, <1>5, <1>6, <1>7, <1>8, <1>9, <1>10, <1>11,
     <1>12, <1>13, <1>14, <1>15, <1>16, <1>17, <1>18 DEF Next, Call,
     RequestStep, JobStep, Fault

\* Whatever status a listing has is in its history, or somebody will see to it.
LEMMA RecordStep == TypeOK /\ StageInv /\ RecordInv /\ [Next]_vars => RecordInv'
<1> SUFFICES ASSUME TypeOK, StageInv, RecordInv, [Next]_vars PROVE RecordInv'
  OBVIOUS
<1> USE DEF TypeOK, StageInv, RecordInv, MayRecord, Running, GivingUp
<1>1. ASSUME NEW r \in Requests, NEW l \in Listings, NEW t \in Texts, NEW s \in ListingStatus, CreateRow(r, l, t, s) PROVE RecordInv'
  BY <1>1 DEF CreateRow, Goto, queue
<1>2. ASSUME NEW r \in Requests, NEW l \in Listings, NEW e \in Edits, ReadForUpdate(r, l, e) PROVE RecordInv'
  BY <1>2 DEF ReadForUpdate, Exists, Goto, rows, queue
<1>3. ASSUME NEW r \in Requests, NEW l \in Listings, NEW f \in BOOLEAN, ReadForImage(r, l, f) PROVE RecordInv'
  BY <1>3 DEF ReadForImage, Exists, Goto, rows, queue
<1>4. ASSUME NEW r \in Requests, UpdateRow(r) PROVE RecordInv'
  BY <1>4, UpdateEffect DEF rows, request, queue
<1>5. ASSUME NEW r \in Requests, HoldForImage(r) PROVE RecordInv'
  BY <1>5 DEF HoldForImage, Goto, queue
<1>6. ASSUME NEW r \in Requests, StoreImage(r) PROVE RecordInv'
  BY <1>6 DEF StoreImage, Goto, queue
<1>7. ASSUME NEW r \in Requests, Enqueue(r) PROVE RecordInv'
  BY <1>7 DEF Enqueue, Goto, End, rows
<1>8. ASSUME NEW r \in Requests, NEW w \in Workers, ReadListing(r, w) PROVE RecordInv'
  BY <1>8 DEF ReadListing, JobGoto, rows, request
<1>9. ASSUME NEW r \in Requests, ApplyDecision(r) PROVE RecordInv'
  BY <1>9 DEF ApplyDecision, DecidedStatus, JobGoto, request
<1>10. ASSUME NEW r \in Requests, RecordDecision(r) PROVE RecordInv'
  BY <1>10 DEF RecordDecision, Leave, JobGoto, request
<1>11. ASSUME NEW r \in Requests, FlagForManualReview(r) PROVE RecordInv'
  BY <1>11 DEF FlagForManualReview, JobGoto, request
<1>12. ASSUME NEW r \in Requests, RecordFlag(r) PROVE RecordInv'
  BY <1>12 DEF RecordFlag, JobGoto, request
<1>13. ASSUME NEW r \in Requests, FailRequest(r) PROVE RecordInv'
  BY <1>13 DEF FailRequest, Goto, End, rows, queue
<1>14. ASSUME NEW r \in Requests, FailAttempt(r) PROVE RecordInv'
  <2>1. ASSUME NEW x \in Listings, NEW k \in Requests, MayRecord(k, x) PROVE MayRecord(k, x)'
    BY <1>14, <2>1, SetBack DEF rows, request
  <2> HIDE DEF TypeOK, StageInv, MayRecord
  <2>2. QED
    BY <1>14, <2>1, SetBack DEF rows
<1>15. ASSUME NEW r \in Requests, Stall(r) PROVE RecordInv'
  <2>1. ASSUME NEW x \in Listings, NEW k \in Requests, MayRecord(k, x) PROVE MayRecord(k, x)'
    BY <1>15, <2>1, SetBack DEF rows, request
  <2> HIDE DEF TypeOK, StageInv, MayRecord
  <2>2. QED
    BY <1>15, <2>1, SetBack DEF rows
<1>16. ASSUME NEW r \in Requests, LoseHandler(r) PROVE RecordInv'
  BY <1>16 DEF LoseHandler, JobGoto, rows, request
<1>17. ASSUME NEW l \in Listings, SoftDelete(l) PROVE RecordInv'
  BY <1>17 DEF SoftDelete, Exists, request, queue
<1>18. CASE UNCHANGED vars
  BY <1>18 DEF vars, rows, request, queue
<1> HIDE DEF TypeOK, StageInv, RecordInv, MayRecord, Running, GivingUp
<1>19. QED
  BY <1>1, <1>2, <1>3, <1>4, <1>5, <1>6, <1>7, <1>8, <1>9, <1>10, <1>11,
     <1>12, <1>13, <1>14, <1>15, <1>16, <1>17, <1>18 DEF Next, Call,
     RequestStep, JobStep, Fault

\* A step keeps what was rejected or flagged from the public.
LEMMA AdverseStep ==
    ASSUME TypeOK, StageInv, AdverseIsNotPublic, [Next]_vars PROVE AdverseIsNotPublic'
<1> SUFFICES ASSUME NoBlindStatus PROVE AdverseIsNotPublic'
  BY DEF AdverseIsNotPublic, NoBlindStatus
<1> USE DEF AdverseIsNotPublic
<1>1. ASSUME NEW r \in Requests, NEW l \in Listings, NEW t \in Texts, NEW s \in ListingStatus, CreateRow(r, l, t, s) PROVE AdverseIsNotPublic'
  BY <1>1 DEF CreateRow, Goto, queue, TypeOK
<1>2. ASSUME NEW r \in Requests, NEW l \in Listings, NEW e \in Edits, ReadForUpdate(r, l, e) PROVE AdverseIsNotPublic'
  BY <1>2 DEF ReadForUpdate, Exists, Goto, rows, queue, TypeOK
<1>3. ASSUME NEW r \in Requests, NEW l \in Listings, NEW f \in BOOLEAN, ReadForImage(r, l, f) PROVE AdverseIsNotPublic'
  BY <1>3 DEF ReadForImage, Exists, Goto, rows, queue, TypeOK
<1>4. ASSUME NEW r \in Requests, UpdateRow(r) PROVE AdverseIsNotPublic'
  <2>1. RequiresRemoderation(edit[r]) \/ edit[r].status = Absent
    BY <1>4, EditTypes DEF UpdateRow, StageInv, NoBlindStatus, TypeOK
  <2>2. QED
    BY <1>4, <2>1, EditTypes DEF UpdateRow, TypeOK, Held, Desired
<1>5. ASSUME NEW r \in Requests, HoldForImage(r) PROVE AdverseIsNotPublic'
  BY <1>5 DEF HoldForImage, Goto, queue, TypeOK
<1>6. ASSUME NEW r \in Requests, StoreImage(r) PROVE AdverseIsNotPublic'
  BY <1>6 DEF StoreImage, Goto, queue, TypeOK
<1>7. ASSUME NEW r \in Requests, Enqueue(r) PROVE AdverseIsNotPublic'
  BY <1>7 DEF Enqueue, Goto, End, rows, TypeOK
<1>8. ASSUME NEW r \in Requests, NEW w \in Workers, ReadListing(r, w) PROVE AdverseIsNotPublic'
  BY <1>8 DEF ReadListing, JobGoto, rows, request, TypeOK
<1>9. ASSUME NEW r \in Requests, ApplyDecision(r) PROVE AdverseIsNotPublic'
  BY <1>9 DEF ApplyDecision, DecidedStatus, JobGoto, request, TypeOK
<1>10. ASSUME NEW r \in Requests, RecordDecision(r) PROVE AdverseIsNotPublic'
  BY <1>10 DEF RecordDecision, Leave, JobGoto, request, TypeOK
<1>11. ASSUME NEW r \in Requests, FlagForManualReview(r) PROVE AdverseIsNotPublic'
  BY <1>11 DEF FlagForManualReview, JobGoto, request, TypeOK
<1>12. ASSUME NEW r \in Requests, RecordFlag(r) PROVE AdverseIsNotPublic'
  BY <1>12 DEF RecordFlag, JobGoto, request, TypeOK
<1>13. ASSUME NEW r \in Requests, FailRequest(r) PROVE AdverseIsNotPublic'
  BY <1>13 DEF FailRequest, Goto, End, rows, queue, TypeOK
<1>14. ASSUME NEW r \in Requests, FailAttempt(r) PROVE AdverseIsNotPublic'
  BY <1>14, SetBack DEF rows
<1>15. ASSUME NEW r \in Requests, Stall(r) PROVE AdverseIsNotPublic'
  BY <1>15, SetBack DEF rows
<1>16. ASSUME NEW r \in Requests, LoseHandler(r) PROVE AdverseIsNotPublic'
  BY <1>16 DEF LoseHandler, JobGoto, rows, request, TypeOK
<1>17. ASSUME NEW l \in Listings, SoftDelete(l) PROVE AdverseIsNotPublic'
  BY <1>17 DEF SoftDelete, Exists, request, queue, TypeOK
<1>18. CASE UNCHANGED vars
  BY <1>18 DEF vars, rows, request, queue, TypeOK
<1> HIDE DEF AdverseIsNotPublic
<1>19. QED
  BY <1>1, <1>2, <1>3, <1>4, <1>5, <1>6, <1>7, <1>8, <1>9, <1>10, <1>11,
     <1>12, <1>13, <1>14, <1>15, <1>16, <1>17, <1>18 DEF Next, Call,
     RequestStep, JobStep, Fault

\* A step that makes a listing public is the decision of a scan that approves it.
LEMMA ApprovalStep ==
    ASSUME TypeOK, StageInv, NoBlindStatus, [Next]_vars,
           NEW x \in Listings, status[x] # "PUBLISHED", status'[x] = "PUBLISHED"
    PROVE  moderation'[x] = "APPROVED" /\ \E k \in Requests : job[k] = "scoring" /\ on[k] = x
<1> DEFINE Approved == moderation'[x] = "APPROVED" /\ \E k \in Requests : job[k] = "scoring" /\ on[k] = x
<1>1. ASSUME NEW r \in Requests, NEW l \in Listings, NEW t \in Texts, NEW s \in ListingStatus, CreateRow(r, l, t, s) PROVE Approved
  BY <1>1 DEF CreateRow, Goto, queue, TypeOK, StageInv
<1>2. ASSUME NEW r \in Requests, NEW l \in Listings, NEW e \in Edits, ReadForUpdate(r, l, e) PROVE Approved
  BY <1>2 DEF ReadForUpdate, Exists, Goto, rows, queue, TypeOK, StageInv
<1>3. ASSUME NEW r \in Requests, NEW l \in Listings, NEW f \in BOOLEAN, ReadForImage(r, l, f) PROVE Approved
  BY <1>3 DEF ReadForImage, Exists, Goto, rows, queue, TypeOK, StageInv
<1>4. ASSUME NEW r \in Requests, UpdateRow(r) PROVE Approved
  <2>1. RequiresRemoderation(edit[r]) \/ edit[r].status = Absent
    BY <1>4, EditTypes DEF UpdateRow, StageInv, NoBlindStatus, TypeOK
  <2>2. QED
    BY <1>4, <2>1, EditTypes DEF UpdateRow, TypeOK, Held, Desired
<1>5. ASSUME NEW r \in Requests, HoldForImage(r) PROVE Approved
  BY <1>5 DEF HoldForImage, Goto, queue, TypeOK, StageInv
<1>6. ASSUME NEW r \in Requests, StoreImage(r) PROVE Approved
  BY <1>6 DEF StoreImage, Goto, queue, TypeOK, StageInv
<1>7. ASSUME NEW r \in Requests, Enqueue(r) PROVE Approved
  BY <1>7 DEF Enqueue, Goto, End, rows, TypeOK, StageInv
<1>8. ASSUME NEW r \in Requests, NEW w \in Workers, ReadListing(r, w) PROVE Approved
  BY <1>8 DEF ReadListing, JobGoto, rows, request, TypeOK, StageInv
<1>9. ASSUME NEW r \in Requests, ApplyDecision(r) PROVE Approved
  BY <1>9 DEF ApplyDecision, DecidedStatus, JobGoto, request, TypeOK, StageInv
<1>10. ASSUME NEW r \in Requests, RecordDecision(r) PROVE Approved
  BY <1>10 DEF RecordDecision, Leave, JobGoto, request, TypeOK, StageInv
<1>11. ASSUME NEW r \in Requests, FlagForManualReview(r) PROVE Approved
  BY <1>11 DEF FlagForManualReview, JobGoto, request, TypeOK, StageInv
<1>12. ASSUME NEW r \in Requests, RecordFlag(r) PROVE Approved
  BY <1>12 DEF RecordFlag, JobGoto, request, TypeOK, StageInv
<1>13. ASSUME NEW r \in Requests, FailRequest(r) PROVE Approved
  BY <1>13 DEF FailRequest, Goto, End, rows, queue, TypeOK, StageInv
<1>14. ASSUME NEW r \in Requests, FailAttempt(r) PROVE Approved
  BY <1>14, SetBack DEF rows
<1>15. ASSUME NEW r \in Requests, Stall(r) PROVE Approved
  BY <1>15, SetBack DEF rows
<1>16. ASSUME NEW r \in Requests, LoseHandler(r) PROVE Approved
  BY <1>16 DEF LoseHandler, JobGoto, rows, request, TypeOK, StageInv
<1>17. ASSUME NEW l \in Listings, SoftDelete(l) PROVE Approved
  BY <1>17 DEF SoftDelete, Exists, request, queue, TypeOK, StageInv
<1>18. CASE UNCHANGED vars
  BY <1>18 DEF vars, rows, request, queue, TypeOK, StageInv
<1>19. QED
  BY <1>1, <1>2, <1>3, <1>4, <1>5, <1>6, <1>7, <1>8, <1>9, <1>10, <1>11,
     <1>12, <1>13, <1>14, <1>15, <1>16, <1>17, <1>18 DEF Next, Call,
     RequestStep, JobStep, Fault

\* What a step must keep of a listing so that ScoreAt goes on.
LEMMA ScoreKept ==
    ASSUME NEW x \in Listings, ScoreInv,
           moderation'[x] = moderation[x], Verdict(x)' = Verdict(x),
           status[x] = Absent => status'[x] = Absent,
           \A k \in Requests :
              /\ Asks(k, x) => Asks(k, x)'
              /\ Owes(k, x) => Owes(k, x)'
              /\ Reviews(k, x) => Reviews(k, x)' \/ Owes(k, x)'
              /\ Scores(k, x) => Scores(k, x)'
              /\ ScoresLate(k, x)' => ScoresLate(k, x)
    PROVE  ScoreAt(x)'
BY DEF ScoreInv, ScoreAt

\* With one worker and no hidden text, a step leaves no listing with a verdict that is out of date
\* and nobody to correct it.
LEMMA ScoreStep ==
    ASSUME TypeOK, StageInv, OneWorker, NoBlindText, ScoreInv, [Next]_vars PROVE ScoreInv'
<1>0. \A p, k \in Requests : job[p] \in Running /\ job[k] \in Running => p = k
  BY DEF OneWorker, StageInv, TypeOK
<1>1. ASSUME NEW r \in Requests, NEW l \in Listings, NEW t \in Texts, NEW s \in ListingStatus, CreateRow(r, l, t, s) PROVE ScoreInv'
  <2>1. Asks(r, l)'
    BY <1>1 DEF CreateRow, Goto, queue, Asks, TypeOK
  <2>2. ASSUME NEW x \in Listings, x # l PROVE ScoreAt(x)'
    BY <1>1, ScoreKept, <2>2 DEF CreateRow, Goto, queue, TypeOK, StageInv, Asks,
     Owes, Reviews, Scores, ScoresLate, Verdict
  <2>3. QED
    BY <1>1, <2>1, <2>2 DEF ScoreInv, ScoreAt, Owes, CreateRow
<1>2. ASSUME NEW r \in Requests, NEW l \in Listings, NEW e \in Edits, ReadForUpdate(r, l, e) PROVE ScoreInv'
  <2>1. ASSUME NEW x \in Listings PROVE ScoreAt(x)'
    BY <1>2, ScoreKept DEF ReadForUpdate, Exists, Goto, rows, queue, TypeOK,
     StageInv, Asks, Owes, Reviews, Scores, ScoresLate, Verdict
  <2>2. QED
    BY <2>1 DEF ScoreInv
<1>3. ASSUME NEW r \in Requests, NEW l \in Listings, NEW f \in BOOLEAN, ReadForImage(r, l, f) PROVE ScoreInv'
  <2>1. ASSUME NEW x \in Listings PROVE ScoreAt(x)'
    BY <1>3, ScoreKept DEF ReadForImage, Exists, Goto, rows, queue, TypeOK,
     StageInv, Asks, Owes, Reviews, Scores, ScoresLate, Verdict
  <2>2. QED
    BY <2>1 DEF ScoreInv
<1>4. ASSUME NEW r \in Requests, UpdateRow(r) PROVE ScoreInv'
  <2>1. CASE rpc'[r] = "enqueuing"
    <3>1. Asks(r, on[r])'
      BY <1>4, <2>1, UpdateEffect DEF Asks
    <3>2. ASSUME NEW x \in Listings, x # on[r] PROVE ScoreAt(x)'
      BY <1>4, <3>2, UpdateEffect, ScoreKept DEF queue, TypeOK, StageInv, Asks, Owes, Reviews, Scores, ScoresLate, Verdict
    <3>3. QED
      BY <3>1, <3>2, UpdateEffect, <1>4 DEF ScoreInv, ScoreAt, Owes
  <2>2. CASE rpc'[r] # "enqueuing"
    <3>1. ~RequiresRemoderation(edit[r])
      BY <1>4, <2>2 DEF UpdateRow, Goto, NeedsScan, TypeOK
    <3>2. UNCHANGED <<moderation, text>>
      BY <1>4, <3>1 DEF UpdateRow, StageInv, NoBlindText
    <3>3. ASSUME NEW x \in Listings PROVE ScoreAt(x)'
      BY <1>4, <3>2, UpdateEffect, ScoreKept DEF queue, TypeOK, StageInv, Asks, Owes, Reviews, Scores, ScoresLate, Verdict
    <3>4. QED
      BY <3>3 DEF ScoreInv
  <2>3. QED
    BY <2>1, <2>2
<1>5. ASSUME NEW r \in Requests, HoldForImage(r) PROVE ScoreInv'
  <2>1. Asks(r, on[r])'
    BY <1>5 DEF HoldForImage, Goto, queue, Asks, TypeOK
  <2>2. ASSUME NEW x \in Listings, x # on[r] PROVE ScoreAt(x)'
    BY <1>5, ScoreKept, <2>2 DEF HoldForImage, Goto, queue, TypeOK, StageInv, Asks,
     Owes, Reviews, Scores, ScoresLate, Verdict
  <2>3. QED
    BY <1>5, <2>1, <2>2 DEF ScoreInv, ScoreAt, Owes, HoldForImage
<1>6. ASSUME NEW r \in Requests, StoreImage(r) PROVE ScoreInv'
  <2>1. Asks(r, on[r])'
    BY <1>6 DEF StoreImage, Goto, queue, Asks, TypeOK
  <2>2. ASSUME NEW x \in Listings, x # on[r] PROVE ScoreAt(x)'
    BY <1>6, ScoreKept, <2>2 DEF StoreImage, Goto, queue, TypeOK, StageInv, Asks,
     Owes, Reviews, Scores, ScoresLate, Verdict
  <2>3. QED
    BY <1>6, <2>1, <2>2 DEF ScoreInv, ScoreAt, Owes, StoreImage
<1>7. ASSUME NEW r \in Requests, Enqueue(r) PROVE ScoreInv'
  <2>1. Asks(r, on[r])'
    BY <1>7 DEF Enqueue, Goto, End, rows, Asks, TypeOK
  <2>2. ASSUME NEW x \in Listings, x # on[r] PROVE ScoreAt(x)'
    BY <1>7, ScoreKept, <2>2 DEF Enqueue, Goto, End, rows, TypeOK, StageInv, Asks,
     Owes, Reviews, Scores, ScoresLate, Verdict
  <2>3. QED
    BY <1>7, <2>1, <2>2 DEF ScoreInv, ScoreAt, Owes, Enqueue
<1>8. ASSUME NEW r \in Requests, NEW w \in Workers, ReadListing(r, w) PROVE ScoreInv'
  <2>1. \A k \in Requests : job[k] \notin Running
    BY <1>8 DEF ReadListing, OneWorker, TypeOK, StageInv
  <2>2. Scores(r, on[r])'
    BY <1>8 DEF ReadListing, JobGoto, rows, request, Scores, Verdict, TypeOK
  <2>3. \A x \in Listings : ~\E k \in Requests : ScoresLate(k, x)'
    BY <1>8, <2>1 DEF ReadListing, JobGoto, rows, request, ScoresLate, Running, Verdict, TypeOK
  <2>4. ASSUME NEW x \in Listings, x # on[r] PROVE ScoreAt(x)'
    BY <1>8, <2>4, ScoreKept DEF ReadListing, JobGoto, rows, request, TypeOK, StageInv, Asks, Owes, Reviews, Scores, ScoresLate, Verdict
  <2>5. QED
    BY <1>8, <2>2, <2>3, <2>4 DEF ScoreInv, ScoreAt, ReadListing, request
<1>9. ASSUME NEW r \in Requests, ApplyDecision(r) PROVE ScoreInv'
  <2>1. \A x \in Listings : ~\E k \in Requests : ScoresLate(k, x)'
    BY <1>9, <1>0 DEF ApplyDecision, DecidedStatus, JobGoto, request, ScoresLate, Running, TypeOK
  <2>2. moderation'[on[r]] = Verdict(on[r])' \/ \E k \in Requests : Asks(k, on[r])'
    <3>1. CASE verdict[r] = Verdict(on[r])
      BY <1>9, <3>1 DEF ApplyDecision, DecidedStatus, JobGoto, request, Verdict, TypeOK, StageInv
    <3>2. CASE verdict[r] # Verdict(on[r])
      <4>1. PICK k \in Requests : Asks(k, on[r])
        BY <1>9, <3>2 DEF ApplyDecision, ScoreInv, ScoreAt, ScoresLate, StageInv
      <4>2. Asks(k, on[r])'
        BY <1>9, <4>1 DEF ApplyDecision, DecidedStatus, JobGoto, request, Asks, TypeOK, StageInv
      <4>3. QED
        BY <4>2
    <3>3. QED
      BY <3>1, <3>2
  <2>3. ASSUME NEW x \in Listings, x # on[r] PROVE ScoreAt(x)'
    BY <1>9, <2>3, ScoreKept DEF ApplyDecision, DecidedStatus, JobGoto, request, TypeOK, StageInv, Asks, Owes, Reviews, Scores, ScoresLate, Verdict
  <2>4. QED
    BY <1>9, <2>1, <2>2, <2>3 DEF ScoreInv, ScoreAt, Owes, ApplyDecision, request
<1>10. ASSUME NEW r \in Requests, RecordDecision(r) PROVE ScoreInv'
  <2>1. ASSUME NEW x \in Listings PROVE ScoreAt(x)'
    BY <1>10, ScoreKept DEF RecordDecision, Leave, JobGoto, request, TypeOK,
     StageInv, Asks, Owes, Reviews, Scores, ScoresLate, Verdict
  <2>2. QED
    BY <2>1 DEF ScoreInv
<1>11. ASSUME NEW r \in Requests, FlagForManualReview(r) PROVE ScoreInv'
  <2>1. moderation'[on[r]] = "FLAGGED" /\ Reviews(r, on[r])'
    BY <1>11 DEF FlagForManualReview, JobGoto, request, Reviews, TypeOK, StageInv
  <2>2. ASSUME NEW j \in Requests, ScoresLate(j, on[r])' PROVE \E k \in Requests : Asks(k, on[r])'
    <3>1. ScoresLate(j, on[r]) /\ on[r] \in Listings
      BY <1>11, <2>2 DEF FlagForManualReview, JobGoto, request, ScoresLate, Verdict, TypeOK, StageInv
    <3>2. PICK k \in Requests : Asks(k, on[r])
      BY <3>1 DEF ScoreInv, ScoreAt
    <3>3. Asks(k, on[r])'
      BY <1>11, <3>2 DEF FlagForManualReview, JobGoto, request, Asks, TypeOK, StageInv
    <3>4. QED
      BY <3>3
  <2>3. ASSUME NEW x \in Listings, x # on[r] PROVE ScoreAt(x)'
    BY <1>11, <2>3, ScoreKept DEF FlagForManualReview, JobGoto, request, TypeOK, StageInv, Asks, Owes, Reviews, Scores, ScoresLate, Verdict
  <2>4. QED
    BY <1>11, <2>1, <2>2, <2>3 DEF ScoreInv, ScoreAt, FlagForManualReview, request
<1>12. ASSUME NEW r \in Requests, RecordFlag(r) PROVE ScoreInv'
  <2>1. ASSUME NEW x \in Listings PROVE ScoreAt(x)'
    BY <1>12, ScoreKept DEF RecordFlag, JobGoto, request, TypeOK, StageInv, Asks,
     Owes, Reviews, Scores, ScoresLate, Verdict
  <2>2. QED
    BY <2>1 DEF ScoreInv
<1>13. ASSUME NEW r \in Requests, FailRequest(r) PROVE ScoreInv'
  <2>1. CASE rpc[r] \in {"updating", "attaching"}
    <3>1. ASSUME NEW x \in Listings PROVE ScoreAt(x)'
      BY <1>13, <2>1, ScoreKept DEF FailRequest, Goto, End, rows, queue, TypeOK,
     StageInv, Asks, Owes, Reviews, Scores, ScoresLate, Verdict
    <3>2. QED
      BY <3>1 DEF ScoreInv
  <2>2. CASE rpc[r] \notin {"updating", "attaching"}
    <3>1. Asks(r, on[r])'
      BY <1>13, <2>2 DEF FailRequest, Goto, End, rows, queue, Asks, TypeOK
    <3>2. ASSUME NEW x \in Listings, x # on[r] PROVE ScoreAt(x)'
      BY <1>13, <3>2, ScoreKept DEF FailRequest, Goto, End, rows, queue, TypeOK,
     StageInv, Asks, Owes, Reviews, Scores, ScoresLate, Verdict
    <3>3. QED
      BY <1>13, <3>1, <3>2 DEF ScoreInv, ScoreAt, Owes, FailRequest
  <2>3. QED
    BY <2>1, <2>2
<1>14. ASSUME NEW r \in Requests, FailAttempt(r) PROVE ScoreInv'
  <2>1. Owes(r, on[r])'
    BY <1>14, SetBack DEF Asks, Owes, request
  <2>2. \A x \in Listings : ~\E k \in Requests : ScoresLate(k, x)'
    BY <1>14, SetBack, <1>0 DEF ScoresLate, request, Running
  <2>3. ASSUME NEW x \in Listings, x # on[r] PROVE ScoreAt(x)'
    BY <1>14, <2>3, SetBack, ScoreKept DEF rows, request, TypeOK, StageInv, Asks, Owes, Reviews, Scores, ScoresLate, Verdict
  <2>4. QED
    BY <2>1, <2>2, <2>3, SetBack, <1>14 DEF ScoreInv, ScoreAt, request
<1>15. ASSUME NEW r \in Requests, Stall(r) PROVE ScoreInv'
  <2>1. Owes(r, on[r])'
    BY <1>15, SetBack DEF Asks, Owes, request
  <2>2. \A x \in Listings : ~\E k \in Requests : ScoresLate(k, x)'
    BY <1>15, SetBack, <1>0 DEF ScoresLate, request, Running
  <2>3. ASSUME NEW x \in Listings, x # on[r] PROVE ScoreAt(x)'
    BY <1>15, <2>3, SetBack, ScoreKept DEF rows, request, TypeOK, StageInv, Asks, Owes, Reviews, Scores, ScoresLate, Verdict
  <2>4. QED
    BY <2>1, <2>2, <2>3, SetBack, <1>15 DEF ScoreInv, ScoreAt, request
<1>16. ASSUME NEW r \in Requests, LoseHandler(r) PROVE ScoreInv'
  <2>1. ASSUME NEW x \in Listings PROVE ScoreAt(x)'
    BY <1>16, ScoreKept DEF LoseHandler, JobGoto, rows, request, GivingUp, TypeOK,
     StageInv, Asks, Owes, Reviews, Scores, ScoresLate, Verdict
  <2>2. QED
    BY <2>1 DEF ScoreInv
<1>17. ASSUME NEW l \in Listings, SoftDelete(l) PROVE ScoreInv'
  <2>1. ASSUME NEW x \in Listings PROVE ScoreAt(x)'
    BY <1>17, ScoreKept DEF SoftDelete, Exists, request, queue, TypeOK, StageInv,
     Asks, Owes, Reviews, Scores, ScoresLate, Verdict
  <2>2. QED
    BY <2>1 DEF ScoreInv
<1>18. CASE UNCHANGED vars
  <2>1. ASSUME NEW x \in Listings PROVE ScoreAt(x)'
    BY <1>18, ScoreKept DEF vars, rows, request, queue, TypeOK, StageInv, Asks,
     Owes, Reviews, Scores, ScoresLate, Verdict
  <2>2. QED
    BY <2>1 DEF ScoreInv
<1>19. QED
  BY <1>1, <1>2, <1>3, <1>4, <1>5, <1>6, <1>7, <1>8, <1>9, <1>10, <1>11,
     <1>12, <1>13, <1>14, <1>15, <1>16, <1>17, <1>18 DEF Next, Call,
     RequestStep, JobStep, Fault

\* One at a time, a step leaves nothing public that was not scored, and nothing
\* that was read out of date.
LEMMA SerialStep ==
    ASSUME TypeOK, StageInv, SerialInv, [Next]_vars, OneAtATime' PROVE SerialInv'
<1> DEFINE Scored == NoBlindEdit => PublicIsScored
<1> SUFFICES Scored' /\ Fresh'
  BY DEF SerialInv
<1> USE DEF TypeOK, StageInv, SerialInv, PublicIsScored, Fresh, OneAtATime, Busy,
            InRequest, Running, GivingUp, Verdict
<1>1. ASSUME NEW r \in Requests, NEW l \in Listings, NEW t \in Texts, NEW s \in ListingStatus, CreateRow(r, l, t, s) PROVE Scored' /\ Fresh'
  BY <1>1 DEF CreateRow, Goto, queue, NoBlindEdit, NoBlindStatus, NoBlindText
<1>2. ASSUME NEW r \in Requests, NEW l \in Listings, NEW e \in Edits, ReadForUpdate(r, l, e) PROVE Scored' /\ Fresh'
  BY <1>2 DEF ReadForUpdate, Exists, Goto, rows, queue, NoBlindEdit, NoBlindStatus, NoBlindText
<1>3. ASSUME NEW r \in Requests, NEW l \in Listings, NEW f \in BOOLEAN, ReadForImage(r, l, f) PROVE Scored' /\ Fresh'
  BY <1>3 DEF ReadForImage, Exists, Goto, rows, queue, NoBlindEdit, NoBlindStatus, NoBlindText
<1>4. ASSUME NEW r \in Requests, UpdateRow(r) PROVE Scored' /\ Fresh'
  <2>1. ASSUME NEW k \in Requests, k # r PROVE ~Busy(k)
    BY <1>4, <2>1 DEF UpdateRow
  <2>2. Fresh'
    BY <1>4, <2>1, UpdateEffect DEF queue
  <2>3. ASSUME NoBlindEdit, NEW x \in Listings, status'[x] = "PUBLISHED" PROVE text'[x] = "clean" /\ ~flaggedImage'[x]
    <3>1. RequiresRemoderation(edit[r]) \/ (edit[r].status = Absent /\ edit[r].text = Absent)
      BY <1>4, <2>3, EditTypes DEF UpdateRow, NoBlindEdit, NoBlindStatus, NoBlindText
    <3>2. QED
      BY <1>4, <2>3, <3>1, EditTypes DEF UpdateRow, Held, Desired
  <2>4. QED
    BY <2>2, <2>3 DEF NoBlindEdit, NoBlindStatus, NoBlindText
<1>5. ASSUME NEW r \in Requests, HoldForImage(r) PROVE Scored' /\ Fresh'
  BY <1>5 DEF HoldForImage, Goto, queue, NoBlindEdit, NoBlindStatus, NoBlindText
<1>6. ASSUME NEW r \in Requests, StoreImage(r) PROVE Scored' /\ Fresh'
  BY <1>6 DEF StoreImage, Goto, queue, NoBlindEdit, NoBlindStatus, NoBlindText
<1>7. ASSUME NEW r \in Requests, Enqueue(r) PROVE Scored' /\ Fresh'
  BY <1>7 DEF Enqueue, Goto, End, rows, NoBlindEdit, NoBlindStatus, NoBlindText
<1>8. ASSUME NEW r \in Requests, NEW w \in Workers, ReadListing(r, w) PROVE Scored' /\ Fresh'
  BY <1>8 DEF ReadListing, JobGoto, rows, request, NoBlindEdit, NoBlindStatus, NoBlindText
<1>9. ASSUME NEW r \in Requests, ApplyDecision(r) PROVE Scored' /\ Fresh'
  <2>1. ASSUME NEW k \in Requests, k # r PROVE ~Busy(k)
    BY <1>9, <2>1 DEF ApplyDecision
  <2>2. Fresh'
    BY <1>9, <2>1 DEF ApplyDecision, JobGoto, request
  <2>3. ASSUME NoBlindEdit, NEW x \in Listings, status'[x] = "PUBLISHED" PROVE text[x] = "clean" /\ ~flaggedImage[x]
    <3>1. CASE x = on[r]
      <4>1. Verdict(x) = "APPROVED"
        BY <1>9, <2>3, <3>1 DEF ApplyDecision, DecidedStatus
      <4>2. text[x] \in Texts
        BY <1>9, <3>1 DEF ApplyDecision
      <4>3. QED
        BY <4>1, <4>2, ListingAssumption
    <3>2. CASE x # on[r]
      BY <1>9, <2>3, <3>2 DEF ApplyDecision
    <3>3. QED
      BY <3>1, <3>2
  <2>4. QED
    BY <1>9, <2>2, <2>3 DEF ApplyDecision, NoBlindEdit, NoBlindStatus, NoBlindText
<1>10. ASSUME NEW r \in Requests, RecordDecision(r) PROVE Scored' /\ Fresh'
  BY <1>10 DEF RecordDecision, Leave, JobGoto, request, NoBlindEdit, NoBlindStatus, NoBlindText
<1>11. ASSUME NEW r \in Requests, FlagForManualReview(r) PROVE Scored' /\ Fresh'
  BY <1>11 DEF FlagForManualReview, JobGoto, request, NoBlindEdit, NoBlindStatus, NoBlindText
<1>12. ASSUME NEW r \in Requests, RecordFlag(r) PROVE Scored' /\ Fresh'
  BY <1>12 DEF RecordFlag, JobGoto, request, NoBlindEdit, NoBlindStatus, NoBlindText
<1>13. ASSUME NEW r \in Requests, FailRequest(r) PROVE Scored' /\ Fresh'
  BY <1>13 DEF FailRequest, Goto, End, rows, queue, NoBlindEdit, NoBlindStatus, NoBlindText
<1>14. ASSUME NEW r \in Requests, FailAttempt(r) PROVE Scored' /\ Fresh'
  BY <1>14, SetBack DEF rows, request, NoBlindEdit, NoBlindStatus, NoBlindText
<1>15. ASSUME NEW r \in Requests, Stall(r) PROVE Scored' /\ Fresh'
  BY <1>15, SetBack DEF rows, request, NoBlindEdit, NoBlindStatus, NoBlindText
<1>16. ASSUME NEW r \in Requests, LoseHandler(r) PROVE Scored' /\ Fresh'
  BY <1>16 DEF LoseHandler, JobGoto, rows, request, NoBlindEdit, NoBlindStatus, NoBlindText
<1>17. ASSUME NEW l \in Listings, SoftDelete(l) PROVE Scored' /\ Fresh'
  BY <1>17 DEF SoftDelete, Exists, request, queue, NoBlindEdit, NoBlindStatus, NoBlindText
<1>18. CASE UNCHANGED vars
  BY <1>18 DEF vars, rows, request, queue, NoBlindEdit, NoBlindStatus, NoBlindText
<1> HIDE DEF TypeOK, StageInv, SerialInv, Fresh, OneAtATime
<1>19. QED
  BY <1>1, <1>2, <1>3, <1>4, <1>5, <1>6, <1>7, <1>8, <1>9, <1>10, <1>11,
     <1>12, <1>13, <1>14, <1>15, <1>16, <1>17, <1>18 DEF Next, Call,
     RequestStep, JobStep, Fault

\* Who asks for what decides what is wanted of each listing.
LEMMA WantedOf ==
    ASSUME NEW l \in Listings, NEW s
    PROVE  /\ s \in Wanted[l] <=> s \in ListingStatus /\ \E r \in Requests : Wants(r, l, s)
           /\ s \in Wanted'[l] <=> s \in ListingStatus /\ \E r \in Requests : Wants(r, l, s)'
BY DEF Wanted

\* A change to what is wanted of one listing is an update of the function.
LEMMA WantedUpdate ==
    ASSUME NEW l \in Listings, \A x \in Listings : x # l => Wanted'[x] = Wanted[x]
    PROVE  Wanted' = [Wanted EXCEPT ![l] = Wanted'[l]]
<1> DEFINE before == Wanted
           after == Wanted'
<1>1. before = [x \in Listings |-> before[x]] /\ after = [x \in Listings |-> after[x]]
  BY DEF Wanted
<1>2. \A x \in Listings : x # l => after[x] = before[x]
  OBVIOUS
<1> HIDE DEF before, after
<1>3. after = [before EXCEPT ![l] = after[l]]
  BY <1>1, <1>2
<1>4. QED
  BY <1>3 DEF before, after

\* A step that changes no wish changes nothing that is wanted.
LEMMA WantedKept ==
    ASSUME \A k \in Requests, l \in Listings, s \in ListingStatus : Wants(k, l, s)' <=> Wants(k, l, s)
    PROVE  Wanted' = Wanted
<1>1. ASSUME NEW l \in Listings PROVE Wanted'[l] = Wanted[l]
  BY WantedOf
<1>2. QED
  BY <1>1 DEF Wanted

\* A request that begins adds its wish to those of its listing.
LEMMA WantedMore ==
    ASSUME NEW r \in Requests, NEW l \in Listings, NEW s \in ListingStatus,
           \A k \in Requests, x \in Listings, t \in ListingStatus :
              Wants(k, x, t)' <=> Wants(k, x, t) \/ (k = r /\ x = l /\ t = s)
    PROVE  Public!Asks(l, s)
<1>1. Wanted'[l] = Wanted[l] \cup {s}
  BY WantedOf
<1>2. ASSUME NEW x \in Listings, x # l PROVE Wanted'[x] = Wanted[x]
  BY <1>2, WantedOf
<1>3. Wanted' = [Wanted EXCEPT ![l] = Wanted[l] \cup {s}]
  BY <1>1, <1>2, WantedUpdate
<1>4. QED
  BY <1>3 DEF Public!Asks

\* A request or a job that ends may take its wish with it.
LEMMA WantedLess ==
    ASSUME NEW l \in Listings,
           \A k \in Requests, x \in Listings, t \in ListingStatus :
              /\ Wants(k, x, t)' => Wants(k, x, t)
              /\ x # l /\ Wants(k, x, t) => Wants(k, x, t)'
    PROVE  Public!Withdraws(l)
<1>1. Wanted'[l] \subseteq Wanted[l]
  BY WantedOf
<1>2. ASSUME NEW x \in Listings, x # l PROVE Wanted'[x] = Wanted[x]
  BY <1>2, WantedOf
<1>3. Wanted' = [Wanted EXCEPT ![l] = Wanted'[l]]
  BY <1>2, WantedUpdate
<1>4. QED
  BY <1>1, <1>3 DEF Public!Withdraws

\* Every step of requests and jobs is one that Publication allows, or none.
LEMMA PublicStep ==
    ASSUME TypeOK, StageInv, NoBlindStatus, [Next]_vars PROVE [Public!Next]_(Public!vars)
<1> DEFINE Promised == [Public!Next]_(Public!vars)
<1> USE DEF TypeOK, StageInv, Wants, InRequest, Running
<1>0. ASSUME NEW l \in Listings, Public!Finish(l) PROVE Promised
  BY <1>0 DEF Public!Next
<1>1. ASSUME NEW r \in Requests, NEW l \in Listings, NEW t \in Texts, NEW s \in ListingStatus, CreateRow(r, l, t, s) PROVE Promised
  <2>0. on'[r] = l /\ rpc'[r] = "enqueuing" /\ Desired(r)' = s
    BY <1>1, EditTypes DEF CreateRow, Goto, Desired, ListingStatus, Absent
  <2>1. Public!Asks(l, s)
    <3>1. ASSUME NEW k \in Requests, NEW x \in Listings, NEW z \in ListingStatus
          PROVE  Wants(k, x, z)' <=> Wants(k, x, z) \/ (k = r /\ x = l /\ z = s)
      <4>1. CASE k = r
        BY <1>1, <2>0, <4>1 DEF CreateRow, queue
      <4>2. CASE k # r
        BY <1>1, <4>2 DEF CreateRow, Goto, Desired, queue
      <4>3. QED
        BY <4>1, <4>2
    <3> HIDE DEF Wants
    <3>2. QED
      BY <3>1, WantedMore
  <2>2. Public!Submit(l, s)
    BY <1>1, <2>1 DEF CreateRow, Public!Submit, Public!Known, Absent
  <2>3. QED
    BY <2>2 DEF Public!Next, Public!Status, ListingStatus
<1>2. ASSUME NEW r \in Requests, NEW l \in Listings, NEW e \in Edits, ReadForUpdate(r, l, e) PROVE Promised
  <2> DEFINE s == IF e.status = Absent THEN status[l] ELSE e.status
  <2>1. s \in ListingStatus
    BY <1>2, EditTypes DEF ReadForUpdate, Exists
  <2>0. on'[r] = l /\ rpc'[r] = "updating" /\ Desired(r)' = s
    BY <1>2 DEF ReadForUpdate, Goto, Desired
  <2>2. Public!Asks(l, s)
    <3>1. ASSUME NEW k \in Requests, NEW x \in Listings, NEW z \in ListingStatus
          PROVE  Wants(k, x, z)' <=> Wants(k, x, z) \/ (k = r /\ x = l /\ z = s)
      <4>1. CASE k = r
        BY <1>2, <2>0, <4>1 DEF ReadForUpdate, queue
      <4>2. CASE k # r
        BY <1>2, <4>2 DEF ReadForUpdate, Goto, Desired, queue
      <4>3. QED
        BY <4>1, <4>2
    <3> HIDE DEF Wants
    <3>2. QED
      BY <2>1, <3>1, WantedMore
  <2>3. Public!Begin(l, s)
    BY <1>2, <2>2 DEF ReadForUpdate, Exists, rows, Public!Begin, Public!Known, Absent
  <2>4. QED
    BY <2>1, <2>3 DEF Public!Next, Public!Status, ListingStatus
<1>3. ASSUME NEW r \in Requests, NEW l \in Listings, NEW f \in BOOLEAN, ReadForImage(r, l, f) PROVE Promised
  <2> DEFINE s == IF edit[r].status = Absent THEN status[l] ELSE edit[r].status
  <2>1. s \in ListingStatus
    BY <1>3, EditTypes DEF ReadForImage, Exists
  <2>0. on'[r] = l /\ rpc'[r] = "attaching" /\ Desired(r)' = s
    BY <1>3 DEF ReadForImage, Goto, Desired
  <2>2. Public!Asks(l, s)
    <3>1. ASSUME NEW k \in Requests, NEW x \in Listings, NEW z \in ListingStatus
          PROVE  Wants(k, x, z)' <=> Wants(k, x, z) \/ (k = r /\ x = l /\ z = s)
      <4>1. CASE k = r
        BY <1>3, <2>0, <4>1 DEF ReadForImage, queue
      <4>2. CASE k # r
        BY <1>3, <4>2 DEF ReadForImage, Goto, Desired, queue
      <4>3. QED
        BY <4>1, <4>2
    <3> HIDE DEF Wants
    <3>2. QED
      BY <2>1, <3>1, WantedMore
  <2>3. Public!Begin(l, s)
    BY <1>3, <2>2 DEF ReadForImage, Exists, rows, Public!Begin, Public!Known, Absent
  <2>4. QED
    BY <2>1, <2>3 DEF Public!Next, Public!Status, ListingStatus
<1>4. ASSUME NEW r \in Requests, UpdateRow(r) PROVE Promised
  <2> DEFINE l == on[r]
             s == status'[l]
  <2>1. l \in Listings
    BY <1>4 DEF UpdateRow
  <2>2. Public!Withdraws(l)
    BY <1>4, <2>1, UpdateEffect, WantedLess DEF Desired, queue
  <2>3. CASE RequiresRemoderation(edit[r])
    <3>1. s # "PUBLISHED" \/ s = status[l]
      BY <1>4, <2>1, <2>3, EditTypes DEF UpdateRow, Held, Desired
    <3>2. s \in ListingStatus
      BY <1>4, <2>1, <2>3, EditTypes DEF UpdateRow, ListingStatus
    <3>3. status' = [status EXCEPT ![l] = s] /\ moderation' = [moderation EXCEPT ![l] = "PENDING"]
      BY <1>4, <2>1, <2>3 DEF UpdateRow
    <3>4. Public!Revise(l, s)
      BY <1>4, <2>1, <2>2, <3>1, <3>3 DEF UpdateRow, Public!Revise, Public!Known, Absent
    <3>5. QED
      BY <2>1, <3>2, <3>4 DEF Public!Next, Public!Status, ListingStatus
  <2>4. CASE ~RequiresRemoderation(edit[r])
    <3>1. edit[r].status = Absent
      BY <1>4, <2>4, EditTypes DEF UpdateRow, NoBlindStatus
    <3>2. UNCHANGED <<status, moderation, deleted>>
      BY <1>4, <2>4, <3>1 DEF UpdateRow, Held
    <3>3. QED
      BY <1>0, <2>1, <2>2, <3>2 DEF Public!Finish
  <2>5. QED
    BY <2>3, <2>4
<1>5. ASSUME NEW r \in Requests, HoldForImage(r) PROVE Promised
  <2> DEFINE l == on[r]
             s == status'[l]
  <2>1. l \in Listings
    BY <1>5 DEF HoldForImage
  <2>2. Public!Withdraws(l)
    BY <1>5, <2>1, WantedLess DEF HoldForImage, Goto, Desired, queue
  <2>3. s \in ListingStatus /\ (s # "PUBLISHED" \/ s = status[l])
    BY <1>5, <2>1 DEF HoldForImage, ListingStatus
  <2>4. status' = [status EXCEPT ![l] = s]
    BY <1>5, <2>1 DEF HoldForImage
  <2>5. Public!Revise(l, s)
    BY <1>5, <2>1, <2>2, <2>3, <2>4 DEF HoldForImage, Public!Revise, Public!Known, Absent
  <2>6. QED
    BY <2>1, <2>3, <2>5 DEF Public!Next, Public!Status, ListingStatus
<1>6. ASSUME NEW r \in Requests, StoreImage(r) PROVE Promised
  <2>1. Wanted' = Wanted
    BY <1>6, WantedKept DEF StoreImage, Goto, Desired, queue
  <2>2. QED
    BY <1>6, <2>1 DEF StoreImage, Public!vars
<1>7. ASSUME NEW r \in Requests, Enqueue(r) PROVE Promised
  <2>1. Wanted' = Wanted
    BY <1>7, WantedKept DEF Enqueue, Goto, End, Desired
  <2>2. QED
    BY <1>7, <2>1 DEF Enqueue, rows, Public!vars
<1>8. ASSUME NEW r \in Requests, NEW w \in Workers, ReadListing(r, w) PROVE Promised
  <2>1. Wanted' = Wanted
    BY <1>8, WantedKept DEF ReadListing, JobGoto, request, Desired
  <2>2. QED
    BY <1>8, <2>1 DEF ReadListing, rows, Public!vars
<1>9. ASSUME NEW r \in Requests, ApplyDecision(r) PROVE Promised
  <2> DEFINE l == on[r]
  <2>1. l \in Listings /\ status[l] # Absent /\ desired[r] \in ListingStatus
    BY <1>9 DEF ApplyDecision
  <2>2. Wanted' = Wanted
    BY <1>9, WantedKept DEF ApplyDecision, JobGoto, request, Desired
  <2>3. CASE verdict[r] = "APPROVED"
    <3>1. desired[r] \in Wanted[l]
      BY <1>9, <2>1, WantedOf DEF ApplyDecision
    <3>2. Public!Approve(l, desired[r])
      BY <1>9, <2>1, <2>2, <2>3, <3>1 DEF ApplyDecision, DecidedStatus, Public!Approve, Public!Known, Absent
    <3>3. QED
      BY <2>1, <3>2 DEF Public!Next, Public!Status, ListingStatus
  <2>4. CASE verdict[r] \in {"REJECTED", "FLAGGED"}
    <3>1. Public!Refuse(l, verdict[r])
      BY <1>9, <2>1, <2>2, <2>4 DEF ApplyDecision, DecidedStatus, Public!Refuse, Public!Known, Absent
    <3>2. QED
      BY <2>1, <2>4, <3>1 DEF Public!Next
  <2>5. CASE verdict[r] = "PENDING"
    <3>1. Public!Withdraws(l)
      BY <2>1, <2>2, WantedUpdate DEF Public!Withdraws
    <3>2. Public!Revise(l, "PAUSED")
      BY <1>9, <2>1, <2>5, <3>1 DEF ApplyDecision, DecidedStatus, Public!Revise, Public!Known, Absent
    <3>3. QED
      BY <2>1, <3>2 DEF Public!Next, Public!Status
  <2>6. QED
    BY <2>3, <2>4, <2>5 DEF ListingModerationStatus
<1>10. ASSUME NEW r \in Requests, RecordDecision(r) PROVE Promised
  <2>1. on[r] \in Listings
    BY <1>10 DEF RecordDecision
  <2>2. Public!Withdraws(on[r])
    BY <1>10, <2>1, WantedLess DEF RecordDecision, Leave, JobGoto, request, Desired
  <2>3. QED
    BY <1>0, <1>10, <2>1, <2>2 DEF RecordDecision, Public!Finish
<1>11. ASSUME NEW r \in Requests, FlagForManualReview(r) PROVE Promised
  <2>1. on[r] \in Listings /\ status[on[r]] # Absent
    BY <1>11 DEF FlagForManualReview
  <2>2. Wanted' = Wanted
    BY <1>11, WantedKept DEF FlagForManualReview, JobGoto, request, Desired
  <2>3. Public!Refuse(on[r], "FLAGGED")
    BY <1>11, <2>1, <2>2 DEF FlagForManualReview, Public!Refuse, Public!Known, Absent
  <2>4. QED
    BY <2>1, <2>3 DEF Public!Next
<1>12. ASSUME NEW r \in Requests, RecordFlag(r) PROVE Promised
  <2>1. Wanted' = Wanted
    BY <1>12, WantedKept DEF RecordFlag, JobGoto, request, Desired
  <2>2. QED
    BY <1>12, <2>1 DEF RecordFlag, Public!vars
<1>13. ASSUME NEW r \in Requests, FailRequest(r) PROVE Promised
  <2>1. on[r] \in Listings
    BY <1>13 DEF FailRequest
  <2>2. Public!Withdraws(on[r])
    BY <1>13, <2>1, WantedLess DEF FailRequest, Goto, End, Desired, queue
  <2>3. QED
    BY <1>0, <1>13, <2>1, <2>2 DEF FailRequest, rows, Public!Finish
<1>14. ASSUME NEW r \in Requests, FailAttempt(r) \/ Stall(r) PROVE Promised
  <2>1. on[r] \in Listings
    BY <1>14, SetBack
  <2>2. Public!Withdraws(on[r])
    BY <1>14, <2>1, SetBack, WantedLess DEF request, Desired
  <2>3. QED
    BY <1>0, <1>14, <2>1, <2>2, SetBack DEF rows, Public!Finish
<1>15. ASSUME NEW r \in Requests, LoseHandler(r) PROVE Promised
  <2>1. Wanted' = Wanted
    BY <1>15, WantedKept DEF LoseHandler, GivingUp, JobGoto, request, Desired
  <2>2. QED
    BY <1>15, <2>1 DEF LoseHandler, rows, Public!vars
<1>16. ASSUME NEW l \in Listings, SoftDelete(l) PROVE Promised
  <2>1. Wanted' = Wanted
    BY <1>16, WantedKept DEF SoftDelete, request, queue, Desired
  <2>2. Public!Delete(l)
    BY <1>16, <2>1 DEF SoftDelete, Exists, Public!Delete, Public!Known, Absent
  <2>3. QED
    BY <2>2 DEF Public!Next
<1>17. CASE UNCHANGED vars
  <2>1. Wanted' = Wanted
    BY <1>17, WantedKept DEF vars, request, queue, Desired
  <2>2. QED
    BY <1>17, <2>1 DEF vars, rows, Public!vars
<1> HIDE DEF TypeOK, StageInv, Wants, InRequest, Running
<1>18. QED
  BY <1>1, <1>2, <1>3, <1>4, <1>5, <1>6, <1>7, <1>8, <1>9, <1>10, <1>11,
     <1>12, <1>13, <1>14, <1>15, <1>16, <1>17 DEF Next, Call,
     RequestStep, JobStep, Fault

\* Nothing is owed and nothing is public at the start.
LEMMA InitInv == Init => IInv /\ AdverseIsNotPublic
<1> SUFFICES ASSUME Init PROVE IInv /\ AdverseIsNotPublic
  OBVIOUS
<1>1. TypeOK
  BY ListingAssumption, EditTypes
     DEF Init, TypeOK, JobState, InRequest, ListingModerationStatus, Absent
<1>2. StageInv /\ RecordInv /\ ScoreInv /\ AdverseIsNotPublic
  BY ListingAssumption
     DEF Init, StageInv, RecordInv, ScoreInv, ScoreAt, ScoresLate, AdverseIsNotPublic, Running,
         InRequest, Absent
<1>3. QED
  BY <1>1, <1>2 DEF IInv

\* Type correctness of the rows, the requests' locals and the jobs.
THEOREM TypeCorrect == Spec => []TypeOK
BY InitInv, TypeStep, PTL DEF Spec, IInv

\* What is under way, and what is still owed, accounts for every listing.
THEOREM InductiveInvariant == Spec => []IInv
<1>1. IInv /\ [Next]_vars => IInv'
  BY TypeStep, StageStep, RecordStep, ScoreStep DEF IInv, OneWorker, NoBlindText, RequiresRemoderation
<1>2. QED
  BY InitInv, <1>1, PTL DEF Spec

\* With one worker, and no text hidden behind an empty field, no late, retried or
\* interrupted scan has the last word.
THEOREM ScoreSafety == Spec => []SettledIsScored
<1>1. IInv => SettledIsScored
  <2> SUFFICES ASSUME IInv, OneWorker, NoBlindText, NEW l \in Listings, Settled(l), ~GivenUp(l)
               PROVE  moderation[l] = Verdict(l)
    BY DEF SettledIsScored, Verdict
  <2>1. \A r \in Requests : ~Owes(r, l) /\ ~Scores(r, l)
    BY DEF Settled, Owes, Asks, Scores
  <2>2. ~(moderation[l] = "FLAGGED" /\ \E r \in Requests : Reviews(r, l))
    BY DEF Settled, GivenUp, Reviews
  <2>3. QED
    BY <2>1, <2>2 DEF IInv, ScoreInv, ScoreAt, Settled
<1>2. QED
  BY <1>1, InductiveInvariant, PTL

\* The history of a listing at rest is complete, for any number of workers.
THEOREM RecordSafety == Spec => []SettledIsRecorded
<1>1. IInv => SettledIsRecorded
  <2> SUFFICES ASSUME IInv, NEW l \in Listings, Settled(l)
               PROVE  moderation[l] \in events[l] \cup {"PENDING"}
    BY DEF SettledIsRecorded
  <2>1. \A r \in Requests : ~MayRecord(r, l)
    BY DEF Settled, MayRecord
  <2>2. moderation[l] # Absent
    BY DEF IInv, StageInv, Settled
  <2>3. QED
    BY <2>1, <2>2 DEF IInv, RecordInv
<1>2. QED
  BY <1>1, InductiveInvariant, PTL

\* What was rejected or flagged is not public, whatever overlaps.
THEOREM AdverseSafety == Spec => []AdverseIsNotPublic
<1>1. IInv /\ AdverseIsNotPublic /\ [Next]_vars => AdverseIsNotPublic'
  BY AdverseStep DEF IInv
<1>2. QED
  BY InitInv, InductiveInvariant, <1>1, PTL DEF Spec

\* No request and no manual review publishes.
THEOREM ApprovalPublishes == Spec => OnlyApprovalPublishes
<1>1. IInv /\ [Next]_vars => [PublishedByApproval]_vars
  BY ApprovalStep DEF IInv, PublishedByApproval
<1>2. QED
  BY InductiveInvariant, <1>1, PTL DEF Spec, OnlyApprovalPublishes

\* One request or job at a time, and nothing hidden behind an empty field, nothing is
\* public that would not be approved.
THEOREM SerialSafety == Spec => SerialPublicIsScored
<1> DEFINE SInv == TypeOK /\ StageInv /\ SerialInv
<1>1. Init /\ OneAtATime => SInv
  <2>1. Init => PublicIsScored /\ Fresh
    BY DEF Init, PublicIsScored, Fresh, Absent
  <2>2. QED
    BY <2>1, InitInv DEF IInv, SerialInv
<1>2. SInv /\ [Next]_vars /\ OneAtATime' => SInv'
  BY TypeStep, StageStep, SerialStep
<1>3. SInv => (NoBlindEdit => PublicIsScored)
  BY DEF SerialInv
<1>4. QED
  BY <1>1, <1>2, <1>3, PTL DEF Spec, SerialPublicIsScored

\* Listings live as Publication says, for any listings, requests, workers, edits
\* and attempts: what is public was approved and is what is asked for.
THEOREM PublicationRefinement == Spec => ImplementsPublication
<1>1. Init => Public!Init
  <2> SUFFICES ASSUME Init PROVE Public!Init
    OBVIOUS
  <2>1. \A l \in Listings, s \in ListingStatus, r \in Requests : ~Wants(r, l, s)
    BY DEF Init, Wants, InRequest, Running
  <2>2. \A l \in Listings : {s \in ListingStatus : \E r \in Requests : Wants(r, l, s)} = {}
    BY <2>1
  <2>3. Wanted = [l \in Listings |-> {}]
    BY <2>2 DEF Wanted
  <2>4. QED
    BY <2>3 DEF Init, Public!Init, Absent
<1>2. TypeOK /\ StageInv /\ [Next]_vars => [NoBlindStatus => Public!Next]_(Public!vars)
  BY PublicStep
<1>3. IInv => TypeOK /\ StageInv
  BY DEF IInv
<1>4. QED
  BY <1>1, <1>2, <1>3, InductiveInvariant, PTL DEF Spec, ImplementsPublication

\* A worker that has a job has a verdict on what it has read.
VerdictInv == \A r \in Requests : job[r] \in Running => verdict[r] # "PENDING"

\* Every scoring ends in a verdict.
LEMMA VerdictStep == TypeOK /\ StageInv /\ VerdictInv /\ [Next]_vars => VerdictInv'
<1> SUFFICES ASSUME TypeOK, StageInv, VerdictInv, [Next]_vars PROVE VerdictInv'
  OBVIOUS
<1> USE DEF TypeOK, StageInv, VerdictInv, Running
<1>1. ASSUME NEW r \in Requests, NEW l \in Listings, NEW t \in Texts, NEW s \in ListingStatus, CreateRow(r, l, t, s) PROVE VerdictInv'
  BY <1>1 DEF CreateRow, Goto, queue
<1>2. ASSUME NEW r \in Requests, NEW l \in Listings, NEW e \in Edits, ReadForUpdate(r, l, e) PROVE VerdictInv'
  BY <1>2 DEF ReadForUpdate, Exists, Goto, rows, queue
<1>3. ASSUME NEW r \in Requests, NEW l \in Listings, NEW f \in BOOLEAN, ReadForImage(r, l, f) PROVE VerdictInv'
  BY <1>3 DEF ReadForImage, Exists, Goto, rows, queue
<1>4. ASSUME NEW r \in Requests, UpdateRow(r) PROVE VerdictInv'
  BY <1>4, UpdateEffect DEF rows, request, queue
<1>5. ASSUME NEW r \in Requests, HoldForImage(r) PROVE VerdictInv'
  BY <1>5 DEF HoldForImage, Goto, queue
<1>6. ASSUME NEW r \in Requests, StoreImage(r) PROVE VerdictInv'
  BY <1>6 DEF StoreImage, Goto, queue
<1>7. ASSUME NEW r \in Requests, Enqueue(r) PROVE VerdictInv'
  BY <1>7 DEF Enqueue, Goto, End, rows
<1>8. ASSUME NEW r \in Requests, NEW w \in Workers, ReadListing(r, w) PROVE VerdictInv'
  BY <1>8 DEF ReadListing, JobGoto, Verdict
<1>9. ASSUME NEW r \in Requests, ApplyDecision(r) PROVE VerdictInv'
  BY <1>9 DEF ApplyDecision, DecidedStatus, JobGoto, request
<1>10. ASSUME NEW r \in Requests, RecordDecision(r) PROVE VerdictInv'
  BY <1>10 DEF RecordDecision, Leave, JobGoto, request
<1>11. ASSUME NEW r \in Requests, FlagForManualReview(r) PROVE VerdictInv'
  BY <1>11 DEF FlagForManualReview, JobGoto, request
<1>12. ASSUME NEW r \in Requests, RecordFlag(r) PROVE VerdictInv'
  BY <1>12 DEF RecordFlag, JobGoto, request
<1>13. ASSUME NEW r \in Requests, FailRequest(r) PROVE VerdictInv'
  BY <1>13 DEF FailRequest, Goto, End, rows, queue
<1>14. ASSUME NEW r \in Requests, FailAttempt(r) PROVE VerdictInv'
  BY <1>14, SetBack DEF rows, request, queue
<1>15. ASSUME NEW r \in Requests, Stall(r) PROVE VerdictInv'
  BY <1>15, SetBack DEF rows, request, queue
<1>16. ASSUME NEW r \in Requests, LoseHandler(r) PROVE VerdictInv'
  BY <1>16 DEF LoseHandler, JobGoto, GivingUp
<1>17. ASSUME NEW l \in Listings, SoftDelete(l) PROVE VerdictInv'
  BY <1>17 DEF SoftDelete, Exists, request, queue
<1>18. CASE UNCHANGED vars
  BY <1>18 DEF vars, rows, request, queue
<1> HIDE DEF TypeOK, StageInv, VerdictInv, Running
<1>19. QED
  BY <1>1, <1>2, <1>3, <1>4, <1>5, <1>6, <1>7, <1>8, <1>9, <1>10, <1>11,
     <1>12, <1>13, <1>14, <1>15, <1>16, <1>17, <1>18 DEF Next, Call,
     RequestStep, JobStep, Fault

\* A listing that a step makes wait, or leaves waiting, has somebody to see to it.
LEMMA SeenStep ==
    TypeOK /\ StageInv /\ VerdictInv /\ PendingIsSeenTo /\ [Next]_vars => PendingIsSeenTo'
<1> SUFFICES ASSUME TypeOK, StageInv, VerdictInv, PendingIsSeenTo, [Next]_vars,
                    NEW x \in Listings, moderation'[x] = "PENDING"
             PROVE  \E k \in Requests : SeesTo(k, x)'
  BY DEF PendingIsSeenTo
<1> DEFINE Seen == \E k \in Requests : SeesTo(k, x)'
<1>0. moderation[x] = "PENDING" => \E k \in Requests : SeesTo(k, x)
  BY DEF PendingIsSeenTo
<1> USE DEF TypeOK, StageInv, VerdictInv, SeesTo, Running
<1>1. ASSUME NEW r \in Requests, NEW l \in Listings, NEW t \in Texts, NEW s \in ListingStatus, CreateRow(r, l, t, s) PROVE Seen
  BY <1>0, <1>1 DEF CreateRow, Goto, queue
<1>2. ASSUME NEW r \in Requests, NEW l \in Listings, NEW e \in Edits, ReadForUpdate(r, l, e) PROVE Seen
  BY <1>0, <1>2 DEF ReadForUpdate, Exists, Goto, rows, queue
<1>3. ASSUME NEW r \in Requests, NEW l \in Listings, NEW f \in BOOLEAN, ReadForImage(r, l, f) PROVE Seen
  BY <1>0, <1>3 DEF ReadForImage, Exists, Goto, rows, queue
<1>4. ASSUME NEW r \in Requests, UpdateRow(r) PROVE Seen
  <2>1. CASE RequiresRemoderation(edit[r]) /\ x = on[r]
    BY <1>4, <2>1, UpdateEffect DEF UpdateRow, NeedsScan, Goto
  <2>2. CASE ~(RequiresRemoderation(edit[r]) /\ x = on[r])
    <3>1. moderation[x] = "PENDING"
      BY <1>4, <2>2 DEF UpdateRow
    <3>2. QED
      BY <1>0, <1>4, <3>1, UpdateEffect DEF queue
  <2>3. QED
    BY <2>1, <2>2
<1>5. ASSUME NEW r \in Requests, HoldForImage(r) PROVE Seen
  BY <1>0, <1>5 DEF HoldForImage, Goto, queue
<1>6. ASSUME NEW r \in Requests, StoreImage(r) PROVE Seen
  BY <1>0, <1>6 DEF StoreImage, Goto, queue
<1>7. ASSUME NEW r \in Requests, Enqueue(r) PROVE Seen
  BY <1>0, <1>7 DEF Enqueue, Goto, End, rows
<1>8. ASSUME NEW r \in Requests, NEW w \in Workers, ReadListing(r, w) PROVE Seen
  BY <1>0, <1>8 DEF ReadListing, JobGoto, rows, request
<1>9. ASSUME NEW r \in Requests, ApplyDecision(r) PROVE Seen
  BY <1>0, <1>9 DEF ApplyDecision, DecidedStatus, JobGoto, request
<1>10. ASSUME NEW r \in Requests, RecordDecision(r) PROVE Seen
  BY <1>0, <1>10 DEF RecordDecision, Leave, JobGoto, request
<1>11. ASSUME NEW r \in Requests, FlagForManualReview(r) PROVE Seen
  BY <1>0, <1>11 DEF FlagForManualReview, JobGoto, request
<1>12. ASSUME NEW r \in Requests, RecordFlag(r) PROVE Seen
  BY <1>0, <1>12 DEF RecordFlag, JobGoto, request
<1>13. ASSUME NEW r \in Requests, FailRequest(r) PROVE Seen
  BY <1>0, <1>13 DEF FailRequest, Goto, End, rows, queue
<1>14. ASSUME NEW r \in Requests, FailAttempt(r) PROVE Seen
  BY <1>0, <1>14, SetBack DEF rows, request
<1>15. ASSUME NEW r \in Requests, Stall(r) PROVE Seen
  BY <1>0, <1>15, SetBack DEF rows, request
<1>16. ASSUME NEW r \in Requests, LoseHandler(r) PROVE Seen
  BY <1>0, <1>16 DEF LoseHandler, JobGoto, rows, request, GivingUp
<1>17. ASSUME NEW l \in Listings, SoftDelete(l) PROVE Seen
  BY <1>0, <1>17 DEF SoftDelete, Exists, request, queue
<1>18. CASE UNCHANGED vars
  BY <1>0, <1>18 DEF vars, rows, request, queue
<1> HIDE DEF TypeOK, StageInv, VerdictInv, SeesTo, Running
<1>19. QED
  BY <1>1, <1>2, <1>3, <1>4, <1>5, <1>6, <1>7, <1>8, <1>9, <1>10, <1>11,
     <1>12, <1>13, <1>14, <1>15, <1>16, <1>17, <1>18 DEF Next, Call,
     RequestStep, JobStep, Fault

\* No listing is left waiting with nobody to see to it, for any number of
\* requests and workers: what EventuallyDecided needs besides progress.
THEOREM NoneIsForgotten == Spec => []PendingIsSeenTo
<1>1. Init => VerdictInv /\ PendingIsSeenTo
  BY DEF Init, VerdictInv, PendingIsSeenTo, Running, Absent
<1>2. IInv => TypeOK /\ StageInv
  BY DEF IInv
<1>3. QED
  BY <1>1, <1>2, VerdictStep, SeenStep, InductiveInvariant, PTL DEF Spec

\* How far a request and its job are from their end is a number; a job in the queue
\* has a run left.
LEMMA LeftTypes ==
    ASSUME TypeOK, NEW r \in Requests
    PROVE  RequestLeft(r) \in Nat /\ RunsLeft(r) \in Nat \ {0} /\ JobLeft(r) \in Nat
<1>1. attempts[r] \in Nat /\ attempts[r] <= MaxAttempts - 1 /\ MaxAttempts \in Nat
  BY ListingAssumption DEF TypeOK
<1>2. RunsLeft(r) \in Nat \ {0}
  BY <1>1 DEF RunsLeft
<1>3. RequestLeft(r) \in Nat
  BY DEF RequestLeft
<1>4. JobLeft(r) \in Nat
  BY <1>2 DEF JobLeft
<1>5. QED
  BY <1>2, <1>3, <1>4

\* A request that nothing happens to is as far from its end as before.
LEMMA LeftKept ==
    ASSUME NEW k \in Requests, rpc'[k] = rpc[k], job'[k] = job[k], attempts'[k] = attempts[k],
           k \in stalled' <=> k \in stalled
    PROVE  UNCHANGED <<RequestLeft(k), JobLeft(k)>>
BY DEF RequestLeft, JobLeft, RunsLeft

Progress ==
    \/ UNCHANGED <<request, queue>>
    \/ \E r \in Requests :
          /\ Nearer(r)
          /\ \A k \in Requests \ {r} : UNCHANGED <<RequestLeft(k), JobLeft(k)>>

\* Whatever is done to a request or a job brings it nearer to its end.
LEMMA ProgressStep == ASSUME TypeOK, StageInv, [Next]_vars PROVE Progress
<1> USE DEF TypeOK
<1>1. ASSUME NEW r \in Requests, NEW l \in Listings, NEW t \in Texts, NEW s \in ListingStatus, CreateRow(r, l, t, s) PROVE Progress
  <2>1. RequestLeft(r)' < RequestLeft(r)
    BY <1>1 DEF CreateRow, Goto, queue, RequestLeft
  <2>2. QED
    BY <1>1, <2>1, LeftKept DEF CreateRow, Goto, queue, Nearer, Progress
<1>2. ASSUME NEW r \in Requests, NEW l \in Listings, NEW e \in Edits, ReadForUpdate(r, l, e) PROVE Progress
  <2>1. RequestLeft(r)' < RequestLeft(r)
    BY <1>2 DEF ReadForUpdate, Exists, Goto, rows, queue, RequestLeft
  <2>2. QED
    BY <1>2, <2>1, LeftKept DEF ReadForUpdate, Exists, Goto, rows, queue, Nearer, Progress
<1>3. ASSUME NEW r \in Requests, NEW l \in Listings, NEW f \in BOOLEAN, ReadForImage(r, l, f) PROVE Progress
  <2>1. RequestLeft(r)' < RequestLeft(r)
    BY <1>3 DEF ReadForImage, Exists, Goto, rows, queue, RequestLeft
  <2>2. QED
    BY <1>3, <2>1, LeftKept DEF ReadForImage, Exists, Goto, rows, queue, Nearer, Progress
<1>4. ASSUME NEW r \in Requests, UpdateRow(r) PROVE Progress
  <2>1. RequestLeft(r)' < RequestLeft(r)
    BY <1>4, UpdateEffect DEF RequestLeft
  <2>2. QED
    BY <1>4, <2>1, UpdateEffect, LeftKept DEF queue, Nearer, Progress
<1>5. ASSUME NEW r \in Requests, HoldForImage(r) PROVE Progress
  <2>1. RequestLeft(r)' < RequestLeft(r)
    BY <1>5 DEF HoldForImage, Goto, queue, RequestLeft
  <2>2. QED
    BY <1>5, <2>1, LeftKept DEF HoldForImage, Goto, queue, Nearer, Progress
<1>6. ASSUME NEW r \in Requests, StoreImage(r) PROVE Progress
  <2>1. RequestLeft(r)' < RequestLeft(r)
    BY <1>6 DEF StoreImage, Goto, queue, RequestLeft
  <2>2. QED
    BY <1>6, <2>1, LeftKept DEF StoreImage, Goto, queue, Nearer, Progress
<1>7. ASSUME NEW r \in Requests, Enqueue(r) PROVE Progress
  <2>1. RequestLeft(r)' < RequestLeft(r)
    BY <1>7 DEF Enqueue, Goto, End, RequestLeft
  <2>2. QED
    BY <1>7, <2>1, LeftKept DEF Enqueue, Goto, End, rows, Nearer, Progress
<1>8. ASSUME NEW r \in Requests, NEW w \in Workers, ReadListing(r, w) PROVE Progress
  <2>1. JobLeft(r)' < JobLeft(r)
    BY <1>8, LeftTypes DEF ReadListing, JobGoto, rows, request, JobLeft, RunsLeft
  <2>2. QED
    BY <1>8, <2>1, LeftKept DEF ReadListing, JobGoto, rows, request, RequestLeft, Nearer, Progress
<1>9. ASSUME NEW r \in Requests, ApplyDecision(r) PROVE Progress
  <2>1. JobLeft(r)' < JobLeft(r)
    BY <1>9, LeftTypes DEF ApplyDecision, DecidedStatus, JobGoto, request, JobLeft, RunsLeft
  <2>2. QED
    BY <1>9, <2>1, LeftKept DEF ApplyDecision, DecidedStatus, JobGoto, request, RequestLeft, Nearer, Progress
<1>10. ASSUME NEW r \in Requests, RecordDecision(r) PROVE Progress
  <2>1. JobLeft(r)' < JobLeft(r)
    BY <1>10, LeftTypes DEF RecordDecision, Leave, JobGoto, request, JobLeft, RunsLeft
  <2>2. QED
    BY <1>10, <2>1, LeftKept DEF RecordDecision, Leave, JobGoto, request, RequestLeft, Nearer, Progress
<1>11. ASSUME NEW r \in Requests, FlagForManualReview(r) PROVE Progress
  <2>1. JobLeft(r)' < JobLeft(r)
    BY <1>11, LeftTypes DEF FlagForManualReview, JobGoto, request, JobLeft, RunsLeft
  <2>2. QED
    BY <1>11, <2>1, LeftKept DEF FlagForManualReview, JobGoto, request, RequestLeft, Nearer, Progress
<1>12. ASSUME NEW r \in Requests, RecordFlag(r) PROVE Progress
  <2>1. JobLeft(r)' < JobLeft(r)
    BY <1>12, LeftTypes DEF RecordFlag, JobGoto, request, JobLeft, RunsLeft
  <2>2. QED
    BY <1>12, <2>1, LeftKept DEF RecordFlag, JobGoto, request, RequestLeft, Nearer, Progress
<1>13. ASSUME NEW r \in Requests, FailRequest(r) PROVE Progress
  <2>1. RequestLeft(r)' < RequestLeft(r)
    BY <1>13 DEF FailRequest, Goto, End, InRequest, RequestLeft
  <2>2. QED
    BY <1>13, <2>1, LeftKept DEF FailRequest, Goto, End, queue, Nearer, Progress
<1>14. ASSUME NEW r \in Requests, FailAttempt(r) PROVE Progress
  <2>1. JobLeft(r)' < JobLeft(r)
    <3>1. CASE LastAttempt(r)
      BY <1>14, <3>1, LeftTypes DEF FailAttempt, Leave, JobGoto, Running, JobLeft
    <3>2. CASE ~LastAttempt(r)
      <4>1. attempts[r] \in Nat /\ MaxAttempts \in Nat
        BY ListingAssumption
      <4>2. RunsLeft(r)' = RunsLeft(r) - 1
        BY <1>14, <3>2, <4>1 DEF FailAttempt, Requeue, RunsLeft
      <4>3. job'[r] = "waiting"
        BY <1>14, <3>2 DEF FailAttempt, Requeue, JobGoto
      <4>4. JobLeft(r)' = 4 * (RunsLeft(r) - 1) + 3
        BY <4>2, <4>3 DEF JobLeft
      <4>5. JobLeft(r) >= 4 * RunsLeft(r) + 1
        BY <1>14, LeftTypes DEF FailAttempt, Running, JobLeft
      <4>6. QED
        BY <4>4, <4>5, LeftTypes
    <3>3. QED
      BY <3>1, <3>2
  <2>2. \A k \in Requests : k # r => attempts'[k] = attempts[k] /\ (k \in stalled' <=> k \in stalled)
    BY <1>14 DEF FailAttempt, Leave
  <2>3. QED
    BY <1>14, <2>1, <2>2, SetBack, LeftKept DEF request, RequestLeft, Nearer, Progress
<1>15. ASSUME NEW r \in Requests, Stall(r) PROVE Progress
  <2>1. JobLeft(r)' < JobLeft(r)
    <3>1. CASE r \in stalled
      BY <1>15, <3>1, LeftTypes DEF Stall, Leave, JobGoto, Running, JobLeft
    <3>2. CASE r \notin stalled
      <4>1. attempts[r] \in Nat /\ MaxAttempts \in Nat
        BY ListingAssumption
      <4>2. RunsLeft(r)' = RunsLeft(r) - 1
        BY <1>15, <3>2, <4>1 DEF Stall, Requeue, RunsLeft
      <4>3. job'[r] = "waiting"
        BY <1>15, <3>2 DEF Stall, Requeue, JobGoto
      <4>4. JobLeft(r)' = 4 * (RunsLeft(r) - 1) + 3
        BY <4>2, <4>3 DEF JobLeft
      <4>5. JobLeft(r) >= 4 * RunsLeft(r) + 1
        BY <1>15, LeftTypes DEF Stall, Running, JobLeft
      <4>6. QED
        BY <4>4, <4>5, LeftTypes
    <3>3. QED
      BY <3>1, <3>2
  <2>2. \A k \in Requests : k # r => attempts'[k] = attempts[k] /\ (k \in stalled' <=> k \in stalled)
    BY <1>15 DEF Stall, Leave
  <2>3. QED
    BY <1>15, <2>1, <2>2, SetBack, LeftKept DEF request, RequestLeft, Nearer, Progress
<1>16. ASSUME NEW r \in Requests, LoseHandler(r) PROVE Progress
  <2>1. JobLeft(r)' < JobLeft(r)
    BY <1>16, LeftTypes DEF LoseHandler, GivingUp, JobGoto, rows, request, JobLeft, RunsLeft
  <2>2. QED
    BY <1>16, <2>1, LeftKept DEF LoseHandler, GivingUp, JobGoto, rows, request, RequestLeft, Nearer, Progress
<1>17. ASSUME NEW l \in Listings, SoftDelete(l) PROVE Progress
  BY <1>17 DEF SoftDelete, Progress
<1>18. CASE UNCHANGED vars
  BY <1>18 DEF vars, Progress
<1> HIDE DEF TypeOK
<1>19. QED
  BY <1>1, <1>2, <1>3, <1>4, <1>5, <1>6, <1>7, <1>8, <1>9, <1>10, <1>11,
     <1>12, <1>13, <1>14, <1>15, <1>16, <1>17, <1>18 DEF Next, Call,
     RequestStep, JobStep, Fault

\* Attempts, stalls and reviews run out, for any MaxAttempts: with fairness, which
\* TLC checks, whatever has begun comes to an end.
THEOREM WorkEnds == Spec => WorkRunsOut
<1>1. IInv /\ [Next]_vars => [Progress]_vars
  BY ProgressStep DEF IInv
<1>2. QED
  BY <1>1, InductiveInvariant, PTL DEF Spec, WorkRunsOut, Progress

================================================================================
