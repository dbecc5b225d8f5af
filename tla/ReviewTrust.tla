------------------------------ MODULE ReviewTrust ------------------------------
(***************************************************************************)
(* The reviews of one seller, the rollup and the trust score computed from *)
(* them: ReviewsService (apps/backend/src/modules/reviews), which computes *)
(* both inside the transaction that changes a review, and the trust seeds  *)
(* of UsersService, whose calls have no transaction.                       *)
(*                                                                         *)
(* Transactions are READ COMMITTED: a statement sees the rows committed    *)
(* when it starts and its own transaction's writes, and holds the rows it  *)
(* writes until the end.  What the code adds up is kept as the set it adds *)
(* up: a rollup holds the reviews it counts, a score the seeds it sums.    *)
(***************************************************************************)
EXTENDS Integers, FiniteSets, FiniteSetsExt

CONSTANTS
    Reviews,    \* review ids
    Txns,       \* calls of create, update and remove, each made once
    Admins,     \* calls of createTrustSeed and deleteTrustSeed
    Calls,      \* what a review call may ask for
    Labels      \* the labels an admin gives a seed

ReviewStatus == {"PENDING", "PUBLISHED", "REJECTED"}
Comment == {"clean", "profane"}     \* profane: holds a word of profanityList
Rating == 0..5                      \* 0: none
Omitted == "omitted"                \* a field the request does not have
Aggregate == "review:aggregate"

Dto == [kind : {"create", "update", "remove"}, id : Reviews, rating : Rating,
        comment : Comment \cup {Omitted}, status : ReviewStatus \cup {Omitted}]

ASSUME CallsAssumption ==
    /\ Calls \subseteq Dto
    /\ \A c \in Calls : c.kind = "create" => c.rating # 0 /\ c.status = Omitted
ASSUME CallersAssumption == Txns \cap Admins = {}

Row == [rating : Rating, comment : Comment, status : ReviewStatus \cup {"ABSENT"}]
NoRow == [rating |-> 0, comment |-> "clean", status |-> "ABSENT"]
NoCall == [kind |-> "none"]

VARIABLES
    review,     \* committed Review rows
    flags,      \* committed ReviewFlag rows
    rollup,     \* committed SellerReviewRollup
    seeds,      \* committed TrustScoreSeed rows
    score,      \* the seeds summed in User.trustScore
    pc, call,   \* a review call, and where it is
    existing,   \* the row it read before its transaction
    written,    \* the row it writes
    dropped,    \* the flag rows it deletes
    counts,     \* what its aggregates have found
    seedOut, seedIn, \* the seed rows it replaces, and by which
    sum,        \* the seeds its recalculation has summed
    apc, asum,  \* an admin call, and the seeds it has summed
    overlap     \* whether the callers ever overlap: chosen at the start

tables == <<review, flags, rollup, seeds, score>>
txn    == <<pc, call, existing, written, dropped, counts, seedOut, seedIn, sum>>
admin  == <<apc, asum>>
vars   == <<tables, txn, admin, overlap>>

\* Math.round(average * 2), in integers
Rounded(published) ==
    LET n == Cardinality(published)
        s == MapThenSumSet(LAMBDA p : p[2], published)
    IN  (4 * s + n) \div (2 * n)

SeedValue == {1} \cup {Rounded(p) : p \in (SUBSET (Reviews \X Rating)) \ {{}}}
Seed == [id : Txns \cup Admins, label : Labels \cup {Aggregate}, value : SeedValue]
Flag == [review : Reviews, reason : {"auto_hold", "profanity"}, by : Txns]
Counts == [published : SUBSET (Reviews \X Rating), pending : SUBSET Reviews,
           flagged : SUBSET Flag, total : SUBSET Reviews]
Tally(published, pending, flagged, total) ==
    [published |-> published, pending |-> pending, flagged |-> flagged, total |-> total]
NoCounts == Tally({}, {}, {}, {})
Revalued(s, value) == [id |-> s.id, label |-> s.label, value |-> value]

HoldsReview == {"published", "pending", "flagged", "total", "upsert"}
HoldsRollup == {"seed", "replace", "sum", "commit"}
Open == {"flags", "review"} \cup HoldsReview \cup HoldsRollup

Init ==
    /\ review = [r \in Reviews |-> NoRow]
    /\ flags = {} /\ rollup = NoCounts /\ seeds = {} /\ score = {}
    /\ pc = [t \in Txns |-> "idle"]
    /\ call = [t \in Txns |-> NoCall]
    /\ existing = [t \in Txns |-> NoRow]
    /\ written = [t \in Txns |-> NoRow]
    /\ dropped = [t \in Txns |-> {}]
    /\ counts = [t \in Txns |-> NoCounts]
    /\ seedOut = [t \in Txns |-> {}]
    /\ seedIn = [t \in Txns |-> {}]
    /\ sum = [t \in Txns |-> {}]
    /\ apc = [a \in Admins |-> "idle"]
    /\ asum = [a \in Admins |-> {}]
    /\ overlap \in BOOLEAN

\* The calls that are under way, and whether another may start
Busy == {t \in Txns : pc[t] \in Open} \cup {a \in Admins : apc[a] \in {"sum", "write"}}
MayStart == overlap \/ Busy = {}

--------------------------------------------------------------------------------
\* ReviewModerationService.evaluate: why a review is held, and its status
Reasons(rating, comment) ==
    (IF rating <= 2 THEN {"auto_hold"} ELSE {})
        \cup (IF comment = "profane" THEN {"profanity"} ELSE {})
Judged(rating, comment) ==
    IF Reasons(rating, comment) = {} THEN "PUBLISHED" ELSE "PENDING"

\* The row a call writes, given the one it read
NewRow(c, old) ==
    LET rating  == IF c.rating # 0 THEN c.rating ELSE old.rating
        comment == IF c.comment # Omitted THEN c.comment ELSE old.comment
    IN  IF c.kind = "remove" THEN NoRow
        ELSE [rating |-> rating, comment |-> comment,
              status |-> IF c.status # Omitted THEN c.status ELSE Judged(rating, comment)]

\* mutant: only what is pending is flagged
NewFlagsIfPending(t) ==
    IF written[t].status # "PENDING" THEN {}
    ELSE {[review |-> call[t].id, reason |-> x, by |-> t] :
              x \in Reasons(written[t].rating, written[t].comment)}
\* The flags it creates
NewFlags(t) ==
    IF written[t] = NoRow THEN {}
    ELSE {[review |-> call[t].id, reason |-> x, by |-> t] :
              x \in Reasons(written[t].rating, written[t].comment)}

\* What t's statements see; deleting a review deletes its flags
ReviewsSeen(t) == [review EXCEPT ![call[t].id] = written[t]]
FlagsSeen(t) ==
    {f \in flags \ dropped[t] : f.review # call[t].id \/ written[t] # NoRow} \cup NewFlags(t)
SeedsSeen(t) == (seeds \ seedOut[t]) \cup seedIn[t]

\* The aggregates of refreshRollups
Published(rows) == {<<r, rows[r].rating>> : r \in {q \in Reviews : rows[q].status = "PUBLISHED"}}
Pending(rows)   == {r \in Reviews : rows[r].status = "PENDING"}
Total(rows)     == {r \in Reviews : rows[r] # NoRow}

AggregateSeeds == {s \in seeds : s.label = Aggregate}

--------------------------------------------------------------------------------
\* The row is looked up before the transaction; create looks up none.  An id is
\* new when it is created.
Start(t, c) ==
    LET found == review[c.id] # NoRow
    IN  /\ pc[t] = "idle" /\ MayStart
        /\ c.kind = "create" => ~found /\ \A u \in Txns : call[u] # NoCall => call[u].id # c.id
        /\ pc' = [pc EXCEPT ![t] = IF found THEN "flags"
                                   ELSE IF c.kind = "create" THEN "review" ELSE "done"]
        /\ call' = [call EXCEPT ![t] = c]
        /\ existing' = [existing EXCEPT ![t] = review[c.id]]
        /\ UNCHANGED <<tables, written, dropped, counts, seedOut, seedIn, sum, admin, overlap>>

\* reviewFlag.deleteMany takes the flags committed when it starts.  That it may
\* wait for them shows in WriteReview, where it would wait for the review as well.
DropFlags(t) ==
    /\ pc[t] = "flags"
    /\ dropped' = [dropped EXCEPT ![t] = {f \in flags : f.review = call[t].id}]
    /\ pc' = [pc EXCEPT ![t] = "review"]
    /\ UNCHANGED <<tables, call, existing, written, counts, seedOut, seedIn, sum, admin, overlap>>

\* No other transaction has written t's review
ReviewFree(t) ==
    \A u \in Txns \ {t} : pc[u] \in HoldsReview \cup HoldsRollup => call[u].id # call[t].id

\* mutant: the rollup waits for the reviews as well
RollupFreeAfterReviews == \A u \in Txns : pc[u] \notin HoldsReview \cup HoldsRollup
\* No transaction has written the rollup
RollupFree == \A u \in Txns : pc[u] \notin HoldsRollup

\* review.create, update or delete, and reviewFlag.createMany; the row is waited for
WriteReview(t) ==
    /\ pc[t] = "review"
    /\ call[t].kind = "create" \/ review[call[t].id] # NoRow
    /\ ReviewFree(t)
    /\ written' = [written EXCEPT ![t] = NewRow(call[t], existing[t])]
    /\ pc' = [pc EXCEPT ![t] = "published"]
    /\ UNCHANGED <<tables, call, existing, dropped, counts, seedOut, seedIn, sum, admin, overlap>>

\* The four aggregates are four statements: others may commit between them
CountReviews(t) ==
    LET rows == ReviewsSeen(t)
        c == counts[t]
    IN  /\ \/ /\ pc[t] = "published"
              /\ counts' = [counts EXCEPT ![t] = Tally(Published(rows), {}, {}, {})]
              /\ pc' = [pc EXCEPT ![t] = "pending"]
           \/ /\ pc[t] = "pending"
              /\ counts' = [counts EXCEPT ![t] = Tally(c.published, Pending(rows), {}, {})]
              /\ pc' = [pc EXCEPT ![t] = "flagged"]
           \/ /\ pc[t] = "flagged"
              /\ counts' = [counts EXCEPT ![t] = Tally(c.published, c.pending, FlagsSeen(t), {})]
              /\ pc' = [pc EXCEPT ![t] = "total"]
           \/ /\ pc[t] = "total"
              /\ counts' = [counts EXCEPT ![t] = Tally(c.published, c.pending, c.flagged, Total(rows))]
              /\ pc' = [pc EXCEPT ![t] = "upsert"]
        /\ UNCHANGED <<tables, call, existing, written, dropped, seedOut, seedIn, sum, admin, overlap>>

\* mutant: the rollup is not locked
UpsertUnlocked(t) ==
    /\ pc[t] = "upsert"
    /\ pc' = [pc EXCEPT ![t] = "seed"]
    /\ UNCHANGED <<tables, call, existing, written, dropped, counts, seedOut, seedIn, sum, admin, overlap>>
\* sellerReviewRollup.upsert waits for the transaction that holds the rollup
Upsert(t) ==
    /\ pc[t] = "upsert"
    /\ RollupFree
    /\ pc' = [pc EXCEPT ![t] = "seed"]
    /\ UNCHANGED <<tables, call, existing, written, dropped, counts, seedOut, seedIn, sum, admin, overlap>>

\* syncTrustSeed: the seed goes with the last published review; otherwise the
\* first one found gets the new value, or one is created
FindSeed(t) ==
    LET value == Rounded(counts[t].published)
        Plan(out, in, next) ==
            /\ seedOut' = [seedOut EXCEPT ![t] = out]
            /\ seedIn' = [seedIn EXCEPT ![t] = in]
            /\ pc' = [pc EXCEPT ![t] = next]
    IN  /\ pc[t] = "seed"
        /\ \/ counts[t].published = {} /\ Plan(AggregateSeeds, {}, "sum")
           \/ /\ counts[t].published # {} /\ AggregateSeeds = {}
              /\ Plan({}, {[id |-> t, label |-> Aggregate, value |-> value]}, "sum")
           \/ /\ counts[t].published # {}
              /\ \E s \in AggregateSeeds : Plan({s}, {Revalued(s, value)}, "replace")
        /\ UNCHANGED <<tables, call, existing, written, dropped, counts, sum, admin, overlap>>

\* trustScoreSeed.update of the seed that was found
ReplaceSeed(t) ==
    /\ pc[t] = "replace"
    /\ seedOut[t] \subseteq seeds
    /\ pc' = [pc EXCEPT ![t] = "sum"]
    /\ UNCHANGED <<tables, call, existing, written, dropped, counts, seedOut, seedIn, sum, admin, overlap>>

\* mutant: the sum is made outside the transaction
SumSeedsCommitted(t) ==
    /\ pc[t] = "sum"
    /\ sum' = [sum EXCEPT ![t] = seeds]
    /\ pc' = [pc EXCEPT ![t] = "commit"]
    /\ UNCHANGED <<tables, call, existing, written, dropped, counts, seedOut, seedIn, admin, overlap>>
\* recalculateTrustScore inside the transaction
SumSeeds(t) ==
    /\ pc[t] = "sum"
    /\ sum' = [sum EXCEPT ![t] = SeedsSeen(t)]
    /\ pc' = [pc EXCEPT ![t] = "commit"]
    /\ UNCHANGED <<tables, call, existing, written, dropped, counts, seedOut, seedIn, admin, overlap>>

\* What the transaction knew is forgotten at its end
End(t) ==
    /\ pc' = [pc EXCEPT ![t] = "done"]
    /\ existing' = [existing EXCEPT ![t] = NoRow]
    /\ written' = [written EXCEPT ![t] = NoRow]
    /\ dropped' = [dropped EXCEPT ![t] = {}]
    /\ counts' = [counts EXCEPT ![t] = NoCounts]
    /\ seedOut' = [seedOut EXCEPT ![t] = {}]
    /\ seedIn' = [seedIn EXCEPT ![t] = {}]
    /\ sum' = [sum EXCEPT ![t] = {}]
    /\ UNCHANGED call

\* user.update and the commit
Commit(t) ==
    /\ pc[t] = "commit"
    /\ review' = ReviewsSeen(t)
    /\ flags' = FlagsSeen(t)
    /\ rollup' = counts[t]
    /\ seeds' = SeedsSeen(t)
    /\ score' = sum[t]
    /\ End(t)
    /\ UNCHANGED <<admin, overlap>>

\* A statement fails or the transaction times out
Rollback(t) ==
    /\ pc[t] \in Open
    /\ End(t)
    /\ UNCHANGED <<tables, admin, overlap>>

\* The row it is to update or delete is gone
MustFail(t) ==
    /\ \/ pc[t] = "review" /\ call[t].kind # "create" /\ review[call[t].id] = NoRow
       \/ pc[t] = "replace" /\ ~ (seedOut[t] \subseteq seeds)
    /\ Rollback(t)

--------------------------------------------------------------------------------
(* UsersService: three statements, no transaction                          *)

\* trustScoreSeed.create
CreateTrustSeed(a, label) ==
    /\ apc[a] = "idle" /\ MayStart
    /\ seeds' = seeds \cup {[id |-> a, label |-> label, value |-> 1]}
    /\ apc' = [apc EXCEPT ![a] = "sum"]
    /\ UNCHANGED <<review, flags, rollup, score, txn, asum, overlap>>

\* mutant: nothing is recalculated
DeleteTrustSeedOnly(a, s) ==
    /\ apc[a] = "idle" /\ MayStart
    /\ \A t \in Txns : pc[t] \in {"sum", "commit"} => s \notin seedOut[t]
    /\ seeds' = seeds \ {s}
    /\ apc' = [apc EXCEPT ![a] = "done"]
    /\ UNCHANGED <<review, flags, rollup, score, txn, asum, overlap>>
\* trustScoreSeed.delete waits for a transaction that has written the row
DeleteTrustSeed(a, s) ==
    /\ apc[a] = "idle" /\ MayStart
    /\ \A t \in Txns : pc[t] \in {"sum", "commit"} => s \notin seedOut[t]
    /\ seeds' = seeds \ {s}
    /\ apc' = [apc EXCEPT ![a] = "sum"]
    /\ UNCHANGED <<review, flags, rollup, score, txn, asum, overlap>>

AdminSum(a) ==
    /\ apc[a] = "sum"
    /\ asum' = [asum EXCEPT ![a] = seeds]
    /\ apc' = [apc EXCEPT ![a] = "write"]
    /\ UNCHANGED <<tables, txn, overlap>>

AdminWrite(a) ==
    /\ apc[a] = "write"
    /\ score' = asum[a]
    /\ apc' = [apc EXCEPT ![a] = "done"]
    /\ UNCHANGED <<review, flags, rollup, seeds, txn, asum, overlap>>

\* The recalculation fails: the seed stays changed
AdminFail(a) ==
    /\ apc[a] \in {"sum", "write"}
    /\ apc' = [apc EXCEPT ![a] = "failed"]
    /\ UNCHANGED <<tables, txn, asum, overlap>>

TxnStep(t) ==
    \/ DropFlags(t) \/ WriteReview(t) \/ CountReviews(t) \/ Upsert(t) \/ FindSeed(t)
    \/ ReplaceSeed(t) \/ SumSeeds(t) \/ Commit(t) \/ MustFail(t)
AdminStep(a) == AdminSum(a) \/ AdminWrite(a)

Next ==
    \/ \E t \in Txns : (\E c \in Calls : Start(t, c)) \/ TxnStep(t) \/ Rollback(t)
    \/ \E a \in Admins :
          \/ \E l \in Labels : CreateTrustSeed(a, l)
          \/ \E s \in seeds : DeleteTrustSeed(a, s)
          \/ AdminStep(a) \/ AdminFail(a)

Spec == Init /\ [][Next]_vars
================================================================================
