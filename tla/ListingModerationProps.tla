------------------------- MODULE ListingModerationProps -------------------------
(***************************************************************************)
(* What moderation promises a buyer: what is public has been approved.     *)
(* Of updates that requiresRemoderation sees (NoBlindStatus, NoBlindText)  *)
(* it holds while requests and jobs do not overlap; with one worker it     *)
(* holds again as soon as the work is done; with two it does not.          *)
(***************************************************************************)
EXTENDS ListingModeration

\* No update that is tried slips a status, or what the listing says, past
\* requiresRemoderation behind a field that is empty or null
NoBlindStatus == \A e \in Edits : e.status # Absent => RequiresRemoderation(e)
NoBlindText   == \A e \in Edits : e.text # Absent => RequiresRemoderation(e)
NoBlindEdit   == NoBlindStatus /\ NoBlindText

--------------------------------------------------------------------------------
(* The invariants the safety of overlapping work rests on                  *)

\* A job belongs to a request that is over; a worker has one job
StageInv ==
    /\ \A l \in Listings : moderation[l] = Absent \/ text[l] = Absent => status[l] = Absent
    /\ \A r \in Requests :
          /\ job[r] # "none" => rpc[r] = "done"
          /\ rpc[r] # "idle" => on[r] \in Listings /\ status[on[r]] # Absent
          /\ rpc[r] = "updating" => edit[r] \in Edits
          /\ rpc[r] \in InRequest => Desired(r) # Absent
          /\ job[r] \in {"waiting"} \cup Running => desired[r] # Absent
          /\ worker[r] # NoWorker <=> job[r] \in Running
    /\ \A p, r \in Requests : worker[p] = worker[r] /\ worker[p] # NoWorker => p = r

\* r has still to record the status of l, or to bring about another one
MayRecord(r, l) ==
    /\ on[r] = l
    /\ \/ job[r] \in {"waiting", "scoring", "flagging", "lost"}
       \/ job[r] = "recording" /\ moderation[l] = verdict[r]
       \/ job[r] = "flagRecording" /\ moderation[l] = "FLAGGED"

RecordInv ==
    \A l \in Listings :
        \/ moderation[l] \in events[l] \cup {"PENDING", Absent}
        \/ \E r \in Requests : MayRecord(r, l)

OneWorker == \A v, w \in Workers : v = w

\* r is about to have l scanned, and the scan has not begun
Asks(r, l) ==
    /\ on[r] = l
    /\ rpc[r] \in {"storing", "enqueuing", "failed"} \/ job[r] = "waiting"

\* r owes l a scan or a manual review
Owes(r, l) == Asks(r, l) \/ (on[r] = l /\ job[r] \in {"flagging", "lost"})

\* A manual review of l was asked for
Reviews(r, l) == on[r] = l /\ job[r] \in {"flagRecording", "gaveUp"}

\* r is about to apply a verdict, on what l says now or on something older
Scores(r, l) == on[r] = l /\ job[r] = "scoring" /\ verdict[r] = Verdict(l)
ScoresLate(r, l) == on[r] = l /\ job[r] = "scoring" /\ verdict[r] # Verdict(l)

\* With one worker, a listing carries the right verdict, or is under manual
\* review, or somebody sees to it; a verdict that is out of date has a successor
ScoreAt(l) ==
    /\ \/ status[l] = Absent
       \/ moderation[l] = Verdict(l)
       \/ moderation[l] = "FLAGGED" /\ \E r \in Requests : Reviews(r, l)
       \/ \E r \in Requests : Owes(r, l) \/ Scores(r, l)
    /\ (\E r \in Requests : ScoresLate(r, l)) => \E r \in Requests : Asks(r, l)

ScoreInv == \A l \in Listings : ScoreAt(l)

IInv ==
    /\ TypeOK
    /\ StageInv
    /\ RecordInv
    /\ OneWorker /\ NoBlindText => ScoreInv

--------------------------------------------------------------------------------
(* What holds                                                              *)

\* No work on the listing is left or was lost
Settled(l) ==
    /\ status[l] # Absent
    /\ \A r \in Requests :
          on[r] = l => rpc[r] = "done" /\ job[r] \in {"none", "completed", "gaveUp"}

\* The last scan was given up
GivenUp(l) == moderation[l] = "FLAGGED" /\ \E r \in Requests : on[r] = l /\ job[r] = "gaveUp"

\* With one worker, and unless an update hides a text behind an empty field, a
\* listing that has come to rest carries the verdict on what it says now, or the flag
\* of a scan that was given up: no decision on an older text, however late, retried
\* or interrupted, has the last word.
SettledIsScored ==
    OneWorker /\ NoBlindText =>
        \A l \in Listings :
            Settled(l) => GivenUp(l) \/ moderation[l] =
                (IF text[l] = "banned" THEN "REJECTED"
                 ELSE IF text[l] = "sensitive" \/ flaggedImage[l] THEN "FLAGGED" ELSE "APPROVED")

\* Whatever overlaps, a listing that was rejected or flagged is not public: no
\* request publishes, and every adverse decision pauses in the same statement.
AdverseIsNotPublic ==
    NoBlindStatus =>
        \A l \in Listings : moderation[l] \in {"REJECTED", "FLAGGED"} => status[l] # "PUBLISHED"

\* A step that makes a listing public is a decision that approves it
PublishedByApproval ==
    NoBlindStatus =>
        \A l \in Listings :
            status[l] # "PUBLISHED" /\ status'[l] = "PUBLISHED" =>
                moderation'[l] = "APPROVED" /\ \E r \in Requests : job[r] = "scoring" /\ on[r] = l

\* A listing becomes public only by a decision that approves it, never by the
\* seller's request and never by giving up.
OnlyApprovalPublishes == [][PublishedByApproval]_vars

\* r is under way and asks for status s of l
Wants(r, l, s) ==
    /\ on[r] = l
    /\ \/ rpc[r] \in InRequest /\ Desired(r) = s
       \/ job[r] \in {"waiting"} \cup Running /\ desired[r] = s

Wanted == [l \in Listings |-> {s \in ListingStatus : \E r \in Requests : Wants(r, l, s)}]

Public == INSTANCE Publication WITH wanted <- Wanted

\* Through requests, scans, retries and reviews that overlap and fail anywhere, a
\* listing lives as Publication says: it becomes public only when approved, and
\* only if what is still under way asks for it; a refusal pauses; and a change that
\* requiresRemoderation sees leaves it pending and no more public than it was.
\* This is NoBlindStatus => Public!Spec, in a form TLC takes.
ImplementsPublication ==
    /\ NoBlindStatus => Public!Init
    /\ [][NoBlindStatus => Public!Next]_(Public!vars)

\* The history of a listing at rest holds the status it has come to, although
\* the two are written by two statements and either may fail.
SettledIsRecorded ==
    \A l \in Listings : Settled(l) => moderation[l] \in events[l] \cup {"PENDING"}

\* "All seller submissions are scored before they can be published": what the
\* public sees would be approved.
PublicIsScored ==
    \A l \in Listings :
        status[l] = "PUBLISHED" => text[l] = "clean" /\ ~flaggedImage[l]

\* What a request or a job has read is still so
Fresh ==
    \A r \in Requests :
        /\ rpc[r] \in {"updating", "attaching"} => seen[r] = status[on[r]]
        /\ rpc[r] = "storing" => status[on[r]] # "PUBLISHED"
        /\ job[r] = "scoring" => verdict[r] = Verdict(on[r])

SerialInv == OneAtATime /\ (NoBlindEdit => PublicIsScored) /\ Fresh

\* Of one request or job at a time, and of updates that hide neither a text nor a
\* status behind an empty field, it is true.
SerialPublicIsScored == []OneAtATime => [](NoBlindEdit => PublicIsScored)

\* A listing that waits for moderation gets a decision or a manual review, unless
\* the request or the job that was to bring it about was lost on the way.
EventuallyDecided ==
    \A l \in Listings :
        moderation[l] = "PENDING" ~>
            \/ moderation[l] # "PENDING"
            \/ \E r \in Requests : on[r] = l /\ (rpc[r] = "failed" \/ job[r] = "lost")

\* r is to bring l a decision or a manual review, or has failed to
SeesTo(r, l) ==
    /\ on[r] = l
    /\ \/ rpc[r] \in {"storing", "enqueuing", "failed"}
       \/ job[r] \in {"waiting", "scoring", "flagging", "lost"}

\* A listing waits for moderation only while a request or a job sees to it, or
\* after one was lost on the way: no listing is forgotten.
PendingIsSeenTo ==
    \A l \in Listings : moderation[l] = "PENDING" => \E r \in Requests : SeesTo(r, l)

\* The steps request r has at most before it, and its job
RequestLeft(r) ==
    CASE rpc[r] = "idle" -> 4
      [] rpc[r] \in {"updating", "attaching"} -> 3
      [] rpc[r] = "storing" -> 2
      [] rpc[r] = "enqueuing" -> 1
      [] OTHER -> 0
RunsLeft(r) == MaxAttempts - attempts[r] + (IF r \in stalled THEN 0 ELSE 1)
JobLeft(r) ==
    CASE job[r] = "waiting" -> 4 * RunsLeft(r) + 3
      [] job[r] = "scoring" -> 4 * RunsLeft(r) + 2
      [] job[r] = "recording" -> 4 * RunsLeft(r) + 1
      [] job[r] = "flagging" -> 2
      [] job[r] = "flagRecording" -> 1
      [] OTHER -> 0

\* r has come nearer to its end
Nearer(r) ==
    \/ RequestLeft(r)' < RequestLeft(r)
    \/ RequestLeft(r)' = RequestLeft(r) /\ JobLeft(r)' < JobLeft(r)

\* Every step of a request and its job, a failure included, brings them nearer to
\* their end and leaves the others where they are: retries and stalls run out.
WorkRunsOut ==
    [][\/ UNCHANGED <<request, queue>>
       \/ \E r \in Requests :
             /\ Nearer(r)
             /\ \A k \in Requests \ {r} : UNCHANGED <<RequestLeft(k), JobLeft(k)>>]_vars

--------------------------------------------------------------------------------
(* What does not                                                           *)

\* PublicIsScored, asked only of the listings no work is left on
SettledPublicIsScored ==
    \A l \in Listings :
        Settled(l) /\ status[l] = "PUBLISHED" => text[l] = "clean" /\ ~flaggedImage[l]

\* "A `flagged` response pauses the listing and requires manual review": a flagged
\* listing is not public.
FlaggedIsPaused == \A l \in Listings : moderation[l] = "FLAGGED" => status[l] # "PUBLISHED"

================================================================================
