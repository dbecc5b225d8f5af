--------------------------- MODULE ListingModeration ---------------------------
(***************************************************************************)
(* Listings and the queue that moderates them: ListingsService             *)
(* (listings.service.ts) and ModerationQueueService                        *)
(* (moderation-queue.service.ts) of apps/backend/src/modules/listings.     *)
(*                                                                         *)
(* A request writes the listing and then enqueues a job; nothing ties the  *)
(* two together, and no two of its statements share a transaction.  A      *)
(* worker reads the listing, has apps/moderation score it, and applies the *)
(* decision, by which time the listing may have changed.  A request        *)
(* enqueues at most one job, so a job goes by the name of its request.     *)
(* BullMQ (external) runs waiting jobs in any order here: delayed retries  *)
(* let any job overtake another.                                           *)
(***************************************************************************)
EXTENDS Naturals

CONSTANTS
    Listings,
    Requests,       \* calls of create, update and attachImage, each made once
    Workers,        \* the queue's concurrency: jobs that can be active at once
    Texts,          \* what a seller may write, by what the scoring makes of it
    Edits,          \* the UpdateListingDto bodies tried
    MaxAttempts,    \* MODERATION_MAX_ATTEMPTS
    NoListing,      \* the listing of a request not made yet
    NoWorker        \* the worker of a job that is not active

Absent == "ABSENT"  \* no such row, or a field that is not given

ListingStatus == {"DRAFT", "PUBLISHED", "PAUSED"}
ListingModerationStatus == {"PENDING", "APPROVED", "REJECTED", "FLAGGED"}

\* first is the first of title, description, priceCents and metadata that is given
\* (neither undefined nor null), which may be an empty text or a price of 0, and text
\* what the listing says afterwards, if that changes; the DTO's validators run nowhere.
\* variants are not scored: only that they are given matters
UpdateListingDto ==
    [first : {Absent, "", "given"}, text : Texts \cup {Absent}, location : {Absent, "", "given"},
     status : ListingStatus \cup {Absent}, variants : BOOLEAN]

StatusOnly(s) ==
    [first |-> Absent, text |-> Absent, location |-> Absent, status |-> s, variants |-> FALSE]
NoEdit == StatusOnly(Absent)

ASSUME ListingAssumption ==
    /\ Texts \subseteq {"clean", "sensitive", "banned"}
    /\ Edits \subseteq UpdateListingDto
    /\ MaxAttempts \in Nat \ {0}
    /\ NoListing \notin Listings
    /\ NoWorker \notin Workers

VARIABLES
    status,         \* Listing.status
    moderation,     \* Listing.moderationStatus
    text,           \* title, description, price and metadata
    flaggedImage,   \* has an image of a flagged MIME type
    deleted,        \* Listing.deletedAt is set
    events,         \* the statuses of the ListingModerationEvent rows
    rpc,            \* where each request is
    on,             \* the listing it is about
    edit,           \* the body of an update; of a create, its status
    image,          \* the file uploaded is of a flagged MIME type
    seen,           \* the Listing.status it has read
    desired,        \* desiredStatus of its job
    job,            \* the state of its job
    worker,         \* the worker that runs the job
    verdict,        \* the decision on what the job has read
    attempts,       \* job.attemptsMade
    stalled         \* jobs that have lost a worker once

rows    == <<status, moderation, text, flaggedImage, deleted, events>>
request == <<rpc, on, edit, image, seen>>
queue   == <<desired, job, worker, verdict, attempts, stalled>>
vars    == <<rows, request, queue>>

Running == {"scoring", "recording"}  \* a worker has the job
GivingUp == {"flagging", "flagRecording"}  \* the 'failed' handler has it
JobState == {"none", "waiting", "completed", "gaveUp", "lost"} \cup Running \cup GivingUp
InRequest == {"updating", "attaching", "storing", "enqueuing"}

TypeOK ==
    /\ status \in [Listings -> ListingStatus \cup {Absent}]
    /\ moderation \in [Listings -> ListingModerationStatus \cup {Absent}]
    /\ text \in [Listings -> Texts \cup {Absent}]
    /\ flaggedImage \in [Listings -> BOOLEAN]
    /\ deleted \in [Listings -> BOOLEAN]
    /\ events \in [Listings -> SUBSET ListingModerationStatus]
    /\ rpc \in [Requests -> {"idle", "done", "failed"} \cup InRequest]
    /\ on \in [Requests -> Listings \cup {NoListing}]
    /\ edit \in [Requests -> UpdateListingDto]
    /\ image \in [Requests -> BOOLEAN]
    /\ seen \in [Requests -> ListingStatus \cup {Absent}]
    /\ desired \in [Requests -> ListingStatus \cup {Absent}]
    /\ job \in [Requests -> JobState]
    /\ worker \in [Requests -> Workers \cup {NoWorker}]
    /\ verdict \in [Requests -> ListingModerationStatus]
    /\ attempts \in [Requests -> 0 .. MaxAttempts - 1]
    /\ stalled \subseteq Requests

Init ==
    /\ status = [l \in Listings |-> Absent]
    /\ moderation = [l \in Listings |-> Absent]
    /\ text = [l \in Listings |-> Absent]
    /\ flaggedImage = [l \in Listings |-> FALSE]
    /\ deleted = [l \in Listings |-> FALSE]
    /\ events = [l \in Listings |-> {}]
    /\ rpc = [r \in Requests |-> "idle"]
    /\ on = [r \in Requests |-> NoListing]
    /\ edit = [r \in Requests |-> NoEdit]
    /\ image = [r \in Requests |-> FALSE]
    /\ seen = [r \in Requests |-> Absent]
    /\ desired = [r \in Requests |-> Absent]
    /\ job = [r \in Requests |-> "none"]
    /\ worker = [r \in Requests |-> NoWorker]
    /\ verdict = [r \in Requests |-> "PENDING"]
    /\ attempts = [r \in Requests |-> 0]
    /\ stalled = {}

--------------------------------------------------------------------------------
(* ListingsService.                                                        *)

Goto(r, l) == rpc' = [rpc EXCEPT ![r] = l]

\* A request ends and its locals with it
End(r, l) ==
    /\ Goto(r, l)
    /\ edit' = [edit EXCEPT ![r] = NoEdit]
    /\ image' = [image EXCEPT ![r] = FALSE]
    /\ seen' = [seen EXCEPT ![r] = Absent]

\* ensureListingExists
Exists(l) == status[l] # Absent /\ ~deleted[l]

\* requiresRemoderation: the first field given decides, an empty one against, whatever
\* comes after it
RequiresRemoderation(e) ==
    \/ e.first = "given"
    \/ e.first = Absent /\ e.location = "given"
    \/ e.first = Absent /\ e.location = Absent /\ (e.status # Absent \/ e.variants)

\* update has a job enqueued
NeedsScan(e) == RequiresRemoderation(e) \/ e.variants

\* desiredStatus of update and attachImage: the status asked for, or the one read
Desired(r) == IF edit[r].status = Absent THEN seen[r] ELSE edit[r].status

\* mutants: a listing that is public already is not taken back; one that is to
\* become public is not held
HeldIfAsked(r) == RequiresRemoderation(edit[r]) /\ Desired(r) = "PUBLISHED" /\ seen[r] # "PUBLISHED"
HeldIfPublic(r) == RequiresRemoderation(edit[r]) /\ seen[r] = "PUBLISHED"

\* The update is public, or is to be, and waits for its scan
Held(r) == RequiresRemoderation(edit[r]) /\ "PUBLISHED" \in {Desired(r), seen[r]}

\* create up to its job: the row, and its variants
CreateRow(r, l, t, asked) ==
    /\ rpc[r] = "idle"
    /\ status[l] = Absent
    /\ status' = [status EXCEPT ![l] = IF asked = "PUBLISHED" THEN "PAUSED" ELSE asked]
    /\ moderation' = [moderation EXCEPT ![l] = "PENDING"]
    /\ text' = [text EXCEPT ![l] = t]
    /\ Goto(r, "enqueuing")
    /\ on' = [on EXCEPT ![r] = l]
    /\ edit' = [edit EXCEPT ![r] = StatusOnly(asked)]
    /\ UNCHANGED <<flaggedImage, deleted, events, image, seen, queue>>

\* update reads the listing
ReadForUpdate(r, l, e) ==
    /\ rpc[r] = "idle"
    /\ Exists(l)
    /\ Goto(r, "updating")
    /\ on' = [on EXCEPT ![r] = l]
    /\ edit' = [edit EXCEPT ![r] = e]
    /\ seen' = [seen EXCEPT ![r] = status[l]]
    /\ UNCHANGED <<rows, image, queue>>

\* update writes the row and replaces the variants
UpdateRow(r) ==
    /\ rpc[r] = "updating"
    /\ LET l == on[r]
           e == edit[r]
       IN  /\ status' = IF Held(r) THEN [status EXCEPT ![l] = "PAUSED"]
                        ELSE IF e.status # Absent THEN [status EXCEPT ![l] = e.status]
                        ELSE status
           /\ moderation' = IF RequiresRemoderation(e)
                            THEN [moderation EXCEPT ![l] = "PENDING"] ELSE moderation
           /\ text' = IF e.text # Absent THEN [text EXCEPT ![l] = e.text] ELSE text
           /\ IF NeedsScan(e)
              THEN Goto(r, "enqueuing") /\ UNCHANGED <<edit, image, seen>>
              ELSE End(r, "done")
    /\ UNCHANGED <<flaggedImage, deleted, events, on, queue>>

\* attachImage reads the listing
ReadForImage(r, l, flagged) ==
    /\ rpc[r] = "idle"
    /\ Exists(l)
    /\ Goto(r, "attaching")
    /\ on' = [on EXCEPT ![r] = l]
    /\ image' = [image EXCEPT ![r] = flagged]
    /\ seen' = [seen EXCEPT ![r] = status[l]]
    /\ UNCHANGED <<rows, edit, queue>>

\* attachImage takes the listing back to PENDING before it stores the file
HoldForImage(r) ==
    /\ rpc[r] = "attaching"
    /\ moderation' = [moderation EXCEPT ![on[r]] = "PENDING"]
    /\ status' = IF seen[r] = "PUBLISHED" THEN [status EXCEPT ![on[r]] = "PAUSED"] ELSE status
    /\ Goto(r, "storing")
    /\ UNCHANGED <<text, flaggedImage, deleted, events, on, edit, image, seen, queue>>

\* saveListingImage and listingImage.create
StoreImage(r) ==
    /\ rpc[r] = "storing"
    /\ flaggedImage' = [flaggedImage EXCEPT ![on[r]] = @ \/ image[r]]
    /\ Goto(r, "enqueuing")
    /\ UNCHANGED <<status, moderation, text, deleted, events, on, edit, image, seen, queue>>

\* mutant: only what is to be public is scanned
EnqueueIfPublic(r) ==
    /\ rpc[r] = "enqueuing"
    /\ End(r, "done")
    /\ job' = IF Desired(r) = "PUBLISHED" THEN [job EXCEPT ![r] = "waiting"] ELSE job
    /\ desired' = [desired EXCEPT ![r] = Desired(r)]
    /\ UNCHANGED <<rows, on, worker, verdict, attempts, stalled>>

\* enqueueListingScan, the last step of create, update and attachImage
Enqueue(r) ==
    /\ rpc[r] = "enqueuing"
    /\ End(r, "done")
    /\ job' = [job EXCEPT ![r] = "waiting"]
    /\ desired' = [desired EXCEPT ![r] = Desired(r)]
    /\ UNCHANGED <<rows, on, worker, verdict, attempts, stalled>>

\* A statement fails or the process ends: what is written stays, and once the
\* row is written nobody enqueues the job it needs
FailRequest(r) ==
    /\ rpc[r] \in InRequest
    /\ End(r, IF rpc[r] \in {"updating", "attaching"} THEN "done" ELSE "failed")
    /\ UNCHANGED <<rows, on, queue>>

\* softDelete
SoftDelete(l) ==
    /\ Exists(l)
    /\ deleted' = [deleted EXCEPT ![l] = TRUE]
    /\ UNCHANGED <<status, moderation, text, flaggedImage, events, request, queue>>

--------------------------------------------------------------------------------
(* ModerationQueueService.                                                 *)

JobGoto(r, s) == job' = [job EXCEPT ![r] = s]

\* A job leaves the queue: its data goes with it (removeOnComplete) or is not
\* read again
Leave(r, s) ==
    /\ JobGoto(r, s)
    /\ desired' = [desired EXCEPT ![r] = Absent]
    /\ worker' = [worker EXCEPT ![r] = NoWorker]
    /\ verdict' = [verdict EXCEPT ![r] = "PENDING"]
    /\ attempts' = [attempts EXCEPT ![r] = 0]
    /\ stalled' = stalled \ {r}

\* score_listing: what the text and the images make of a listing
Verdict(l) ==
    IF text[l] = "banned" THEN "REJECTED"
    ELSE IF text[l] = "sensitive" \/ flaggedImage[l] THEN "FLAGGED"
    ELSE "APPROVED"

\* mutant: a decision that does not approve leaves the status as it is
KeptUnlessApproved(v, asked, current) == IF v = "APPROVED" THEN asked ELSE current

\* The status applyDecision writes
DecidedStatus(v, asked, current) == IF v = "APPROVED" THEN asked ELSE "PAUSED"

\* processJob up to the POST; the answer depends on what is read here only.
\* A deleted listing is still found.
ReadListing(r, w) ==
    /\ job[r] = "waiting"
    /\ \A k \in Requests : worker[k] # w
    /\ JobGoto(r, "scoring")
    /\ worker' = [worker EXCEPT ![r] = w]
    /\ verdict' = [verdict EXCEPT ![r] = Verdict(on[r])]
    /\ UNCHANGED <<rows, request, desired, attempts, stalled>>

\* The answer has come; applyDecision updates the listing
ApplyDecision(r) ==
    /\ job[r] = "scoring"
    /\ moderation' = [moderation EXCEPT ![on[r]] = verdict[r]]
    /\ status' = [status EXCEPT ![on[r]] = DecidedStatus(verdict[r], desired[r], @)]
    /\ JobGoto(r, "recording")
    /\ UNCHANGED <<text, flaggedImage, deleted, events, request, desired, worker, verdict,
                   attempts, stalled>>

\* recordModerationEvent; the job is complete
RecordDecision(r) ==
    /\ job[r] = "recording"
    /\ events' = [events EXCEPT ![on[r]] = @ \cup {verdict[r]}]
    /\ Leave(r, "completed")
    /\ UNCHANGED <<status, moderation, text, flaggedImage, deleted, request>>

\* A job waits for a worker again and will read the listing again
Requeue(r) ==
    /\ JobGoto(r, "waiting")
    /\ worker' = [worker EXCEPT ![r] = NoWorker]
    /\ verdict' = [verdict EXCEPT ![r] = "PENDING"]
    /\ UNCHANGED desired

LastAttempt(r) == attempts[r] + 1 >= MaxAttempts

\* mutants: a decision that is applied counts as done; the last attempt is not
\* followed up
FailAppliedIsDone(r) ==
    /\ job[r] \in Running
    /\ Leave(r, IF job[r] = "recording" THEN "completed" ELSE "flagging")
    /\ UNCHANGED <<rows, request>>

FailWithoutFlag(r) ==
    /\ job[r] \in Running
    /\ Leave(r, "completed")
    /\ UNCHANGED <<rows, request>>

\* processJob throws: the POST times out or is refused, or a statement fails.  The
\* job runs again after a backoff, or goes to the 'failed' handler's last branch.
FailAttempt(r) ==
    /\ job[r] \in Running
    /\ \/ /\ LastAttempt(r)
          /\ Leave(r, "flagging")
       \/ /\ ~LastAttempt(r)
          /\ Requeue(r)
          /\ attempts' = [attempts EXCEPT ![r] = @ + 1]
          /\ UNCHANGED stalled
    /\ UNCHANGED <<rows, request>>

\* BullMQ: the worker's process ended.  A stalled job runs again once; the second
\* time it fails with attempts left, and the 'failed' handler only logs it.
Stall(r) ==
    /\ job[r] \in Running
    /\ \/ /\ r \in stalled
          /\ Leave(r, "lost")
       \/ /\ r \notin stalled
          /\ Requeue(r)
          /\ stalled' = stalled \cup {r}
          /\ UNCHANGED attempts
    /\ UNCHANGED <<rows, request>>

\* The 'failed' handler: deadLetterQueue.add, then the update of flagForManualReview
FlagForManualReview(r) ==
    /\ job[r] = "flagging"
    /\ moderation' = [moderation EXCEPT ![on[r]] = "FLAGGED"]
    /\ status' = [status EXCEPT ![on[r]] = "PAUSED"]
    /\ JobGoto(r, "flagRecording")
    /\ UNCHANGED <<text, flaggedImage, deleted, events, request, desired, worker, verdict,
                   attempts, stalled>>

\* its recordModerationEvent
RecordFlag(r) ==
    /\ job[r] = "flagRecording"
    /\ events' = [events EXCEPT ![on[r]] = @ \cup {"FLAGGED"}]
    /\ JobGoto(r, "gaveUp")
    /\ UNCHANGED <<status, moderation, text, flaggedImage, deleted, request, desired, worker,
                   verdict, attempts, stalled>>

\* The handler fails or its process ends: nothing runs it again
LoseHandler(r) ==
    /\ job[r] \in GivingUp
    /\ JobGoto(r, "lost")
    /\ UNCHANGED <<rows, request, desired, worker, verdict, attempts, stalled>>

--------------------------------------------------------------------------------
Call(r, l) ==
    \/ \E t \in Texts, s \in ListingStatus : CreateRow(r, l, t, s)
    \/ \E e \in Edits : ReadForUpdate(r, l, e)
    \/ \E f \in BOOLEAN : ReadForImage(r, l, f)

RequestStep(r) == UpdateRow(r) \/ HoldForImage(r) \/ StoreImage(r) \/ Enqueue(r)

JobStep(r) ==
    \/ \E w \in Workers : ReadListing(r, w)
    \/ ApplyDecision(r)
    \/ RecordDecision(r)
    \/ FlagForManualReview(r)
    \/ RecordFlag(r)

Fault(r) == FailRequest(r) \/ FailAttempt(r) \/ Stall(r) \/ LoseHandler(r)

Next ==
    \/ \E r \in Requests, l \in Listings : Call(r, l)
    \/ \E r \in Requests : RequestStep(r) \/ JobStep(r) \/ Fault(r)
    \/ \E l \in Listings : SoftDelete(l)

Spec == Init /\ [][Next]_vars

\* What has begun goes on; calls and failures are never assumed
FairSpec ==
    /\ Spec
    /\ \A r \in Requests : WF_vars(RequestStep(r)) /\ WF_vars(JobStep(r))

\* A request between its statements, or a job out of the queue
Busy(r) == rpc[r] \in InRequest \/ job[r] \in Running \cup GivingUp

\* One at a time: no call begins and no job is taken while another is under way
OneAtATime == \A p, r \in Requests : Busy(p) /\ Busy(r) => p = r
================================================================================
