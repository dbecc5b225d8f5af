--------------------------- MODULE ReviewTrustProps ---------------------------
(***************************************************************************)
(* What ReviewTrust promises when review calls and admin calls overlap,    *)
(* and what more it promises when they do not.                             *)
(***************************************************************************)
EXTENDS ReviewTrust

TypeOK ==
    /\ review \in [Reviews -> Row]
    /\ flags \subseteq Flag
    /\ rollup \in Counts
    /\ seeds \subseteq Seed /\ score \subseteq Seed
    /\ pc \in [Txns -> {"idle", "done"} \cup Open]
    /\ call \in [Txns -> Dto \cup {NoCall}]
    /\ existing \in [Txns -> Row] /\ written \in [Txns -> Row]
    /\ dropped \in [Txns -> SUBSET Flag]
    /\ counts \in [Txns -> Counts]
    /\ seedOut \in [Txns -> SUBSET Seed] /\ seedIn \in [Txns -> SUBSET Seed]
    /\ sum \in [Txns -> SUBSET Seed]
    /\ apc \in [Admins -> {"idle", "sum", "write", "done", "failed"}]
    /\ asum \in [Admins -> SUBSET Seed]
    /\ overlap \in BOOLEAN
    /\ \A t \in Txns : pc[t] \in Open => call[t] \in Dto

--------------------------------------------------------------------------------
(* Under any overlap                                                       *)

\* A review that evaluate holds has a flag for each reason, whatever updates of
\* it overlapped: deleteMany never takes the flags of the row that is written last.
HeldIsFlagged ==
    \A r \in Reviews : review[r] # NoRow =>
        Reasons(review[r].rating, review[r].comment) \subseteq
            {f.reason : f \in {g \in flags : g.review = r}}

\* Reviews create one trust seed at most.  Nothing in the schema keeps the label
\* unique; the look-up before the insert is safe only because upsert holds the
\* rollup until the commit.
OneReviewSeed ==
    \A s1, s2 \in seeds : s1.id \in Txns /\ s2.id \in Txns => s1 = s2

NoAdmin == \A a \in Admins : apc[a] = "idle"

\* While no admin interferes the seed and the score follow the rollup, even
\* where the rollup has missed a review.
ScoreFollowsRollup ==
    NoAdmin =>
        /\ {s.value : s \in AggregateSeeds} =
              IF rollup.published = {} THEN {} ELSE {Rounded(rollup.published)}
        /\ score = seeds

--------------------------------------------------------------------------------
(* One call at a time                                                      *)

\* The rollup counts exactly the reviews and flags there are, and the score sums
\* exactly the seeds, but for an admin call that is under way or has failed
Consistent ==
    /\ rollup = [published |-> Published(review), pending |-> Pending(review),
                 flagged |-> flags, total |-> Total(review)]
    /\ (\A a \in Admins : apc[a] \in {"idle", "done"}) => score = seeds

\* When callers do not overlap, everything that is derived agrees with the
\* reviews and the seeds at every moment another caller can see.
SerialConsistent == ~overlap => Consistent

--------------------------------------------------------------------------------
(* The invariant these rest on                                             *)

\* A review and the rollup have one writer each
LocksInv ==
    /\ \A t, u \in Txns : pc[t] \in HoldsRollup /\ pc[u] \in HoldsRollup => t = u
    /\ ~overlap => \A x, y \in Busy : x = y

\* A call drops only the flags of its review; reviews label their seeds alike
RowsInv ==
    /\ \A t \in Txns : \A f \in dropped[t] : pc[t] # "idle" /\ f.review = call[t].id
    /\ \A s \in seeds : s.id \in Txns => s.label = Aggregate
    /\ NoAdmin => \A s \in seeds : s.id \in Txns

\* What a transaction will do to the seeds fits the seeds there are: nobody but an
\* admin changes them while it holds the rollup
PlanInv ==
    \A t \in Txns : pc[t] \in {"replace", "sum", "commit"} =>
        \/ /\ pc[t] # "replace" /\ counts[t].published = {} /\ seedIn[t] = {}
           /\ NoAdmin => seedOut[t] = seeds
        \/ /\ pc[t] # "replace" /\ counts[t].published # {} /\ seedOut[t] = {}
           /\ seedIn[t] = {[id |-> t, label |-> Aggregate, value |-> Rounded(counts[t].published)]}
           /\ \A s \in seeds : s.id \notin Txns
        \/ /\ counts[t].published # {}
           /\ \E s \in Seed :
                 /\ s.label = Aggregate /\ seedOut[t] = {s}
                 /\ seedIn[t] = {Revalued(s, Rounded(counts[t].published))}
                 /\ pc[t] # "replace" => s \in seeds
                 /\ NoAdmin => seeds = {s}

\* What was summed is still so where nobody could have changed it
SumInv ==
    /\ \A t \in Txns : pc[t] = "commit" /\ (NoAdmin \/ ~overlap) => sum[t] = SeedsSeen(t)
    /\ \A a \in Admins : apc[a] = "write" /\ ~overlap => asum[a] = seeds

\* So is what was counted, when calls do not overlap
CountInv ==
    ~overlap => \A t \in Txns :
        /\ pc[t] \in {"pending", "flagged", "total", "upsert"} \cup HoldsRollup =>
               counts[t].published = Published(ReviewsSeen(t))
        /\ pc[t] \in {"flagged", "total", "upsert"} \cup HoldsRollup =>
               counts[t].pending = Pending(ReviewsSeen(t))
        /\ pc[t] \in {"total", "upsert"} \cup HoldsRollup =>
               counts[t].flagged = FlagsSeen(t)
        /\ pc[t] \in {"upsert"} \cup HoldsRollup =>
               counts[t].total = Total(ReviewsSeen(t))

IInv ==
    /\ TypeOK /\ LocksInv /\ RowsInv /\ PlanInv /\ SumInv /\ CountInv
    /\ HeldIsFlagged /\ OneReviewSeed /\ ScoreFollowsRollup /\ SerialConsistent

--------------------------------------------------------------------------------
\* No lock an open transaction needs for its next statement is held by another: its
\* other statements wait for nobody, and end it when the row they are for is gone.
CanGoOn(t) ==
    /\ pc[t] \in Open
    /\ pc[t] = "review" => ReviewFree(t)
    /\ pc[t] = "upsert" => RollupFree

\* Transactions that wait for each other's rows do not wait in a circle: while one
\* is open, one can go on, and each goes on a bounded number of times.
NoCircularWait == (\E t \in Txns : pc[t] \in Open) => \E t \in Txns : CanGoOn(t)

\* Who waits for whom: t cannot make its statement before u's transaction ends,
\* because u has written t's review, or the rollup.
WaitsFor(t, u) ==
    \/ pc[t] = "review" /\ u # t /\ call[u].id = call[t].id
       /\ pc[u] \in HoldsReview \cup HoldsRollup
    \/ pc[t] = "upsert" /\ pc[u] \in HoldsRollup

\* The statements of a transaction in their order
Place(p) ==
    CASE p = "flags" -> 1 [] p = "review" -> 2 [] p = "published" -> 3 [] p = "pending" -> 4
      [] p = "flagged" -> 5 [] p = "total" -> 6 [] p = "upsert" -> 7 [] p = "seed" -> 8
      [] p = "replace" -> 9 [] p = "sum" -> 10 [] p = "commit" -> 11 [] OTHER -> 12

\* Who is waited for is further on, and some open transaction waits for nobody.
WaitsGoForward ==
    /\ \A t, u \in Txns : WaitsFor(t, u) => Place(pc[t]) < Place(pc[u])
    /\ (\E t \in Txns : pc[t] \in Open) =>
          \E t \in Txns : pc[t] \in Open /\ \A u \in Txns : ~WaitsFor(t, u)

\* A step of an open transaction brings it further, and none of its statements is made
\* while it waits: only giving up.
StepsGoForward ==
    \A t \in Txns :
        pc[t] \in Open /\ pc'[t] # pc[t] =>
            /\ Place(pc[t]) < Place(pc'[t])
            /\ pc'[t] # "done" => \A u \in Txns : ~WaitsFor(t, u)
================================================================================
