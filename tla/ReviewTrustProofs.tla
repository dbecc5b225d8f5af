--------------------------- MODULE ReviewTrustProofs ---------------------------
(***************************************************************************)
(* The safety of ReviewTrust for every set of reviews, callers and seeds.  *)
(***************************************************************************)
EXTENDS ReviewTrustProps, TLAPS

\* There is nothing at the beginning.
LEMMA InitIInv == Init => IInv
<1> SUFFICES ASSUME Init PROVE IInv
  OBVIOUS
<1>1. NoRow \in Row /\ NoCounts \in Counts
  BY DEF NoRow, Row, Rating, Comment, ReviewStatus, NoCounts, Tally, Counts
<1>2. TypeOK
  BY <1>1 DEF Init, TypeOK, Open, HoldsReview, HoldsRollup
<1>3. LocksInv /\ RowsInv /\ PlanInv /\ SumInv /\ CountInv
  BY DEF Init, LocksInv, RowsInv, PlanInv, SumInv, CountInv, Busy, Open, HoldsReview, HoldsRollup
<1>4. HeldIsFlagged /\ OneReviewSeed
  BY DEF Init, HeldIsFlagged, OneReviewSeed
<1>5. ScoreFollowsRollup
  BY DEF Init, ScoreFollowsRollup, AggregateSeeds, NoCounts, Tally
<1>6. SerialConsistent
  <2>1. Published(review) = {} /\ Pending(review) = {} /\ Total(review) = {}
    BY DEF Init, Published, Pending, Total, NoRow
  <2>2. QED
    BY <2>1 DEF Init, SerialConsistent, Consistent, NoCounts, Tally
<1>7. QED
  BY <1>2, <1>3, <1>4, <1>5, <1>6 DEF IInv

--------------------------------------------------------------------------------
(* Types                                                                   *)

\* What a call writes is a row.
LEMMA NewRowType ==
    ASSUME NEW c \in Dto, NEW old \in Row
    PROVE  NewRow(c, old) \in Row
<1>1. Judged(IF c.rating # 0 THEN c.rating ELSE old.rating,
             IF c.comment # Omitted THEN c.comment ELSE old.comment) \in ReviewStatus
  BY DEF Judged, ReviewStatus
<1>2. (IF c.rating # 0 THEN c.rating ELSE old.rating) \in Rating
  BY DEF Dto, Row
<1>3. (IF c.comment # Omitted THEN c.comment ELSE old.comment) \in Comment
  BY DEF Dto, Row
<1>4. NoRow \in Row
  BY DEF NoRow, Row, Rating, Comment
<1>5. QED
  BY <1>1, <1>2, <1>3, <1>4 DEF NewRow, Dto, Row

\* The reviews, flags and seeds a transaction sees are reviews, flags and seeds.
LEMMA SeenTypes ==
    ASSUME TypeOK, NEW t \in Txns, call[t] \in Dto
    PROVE  /\ ReviewsSeen(t) \in [Reviews -> Row]
           /\ FlagsSeen(t) \subseteq Flag
           /\ SeedsSeen(t) \subseteq Seed
           /\ Published(ReviewsSeen(t)) \subseteq Reviews \X Rating
           /\ Pending(ReviewsSeen(t)) \subseteq Reviews
           /\ Total(ReviewsSeen(t)) \subseteq Reviews
<1>1. call[t].id \in Reviews
  BY DEF Dto
<1>2. ReviewsSeen(t) \in [Reviews -> Row]
  BY <1>1 DEF ReviewsSeen, TypeOK
<1>3. NewFlags(t) \subseteq Flag
  <2>1. \A x, y : Reasons(x, y) \subseteq {"auto_hold", "profanity"}
    BY DEF Reasons
  <2>2. QED
    BY <1>1, <2>1 DEF NewFlags, Flag
<1>4. FlagsSeen(t) \subseteq Flag
  BY <1>3 DEF FlagsSeen, TypeOK
<1>5. SeedsSeen(t) \subseteq Seed
  BY DEF SeedsSeen, TypeOK
<1>6. \A r \in Reviews : ReviewsSeen(t)[r].rating \in Rating
  BY <1>2 DEF Row
<1>7. QED
  BY <1>2, <1>4, <1>5, <1>6 DEF Published, Pending, Total

\* The value of a seed that a review gets.
LEMMA RoundedType ==
    ASSUME NEW p \in SUBSET (Reviews \X Rating), p # {}
    PROVE  Rounded(p) \in SeedValue
<1>1. p \in (SUBSET (Reviews \X Rating)) \ {{}}
  OBVIOUS
<1>2. QED
  BY <1>1, Zenon DEF SeedValue

\* Every step keeps the types.
LEMMA NextType == IInv /\ [Next]_vars => TypeOK'
<1> SUFFICES ASSUME IInv, [Next]_vars PROVE TypeOK'
  OBVIOUS
<1> USE DEF IInv, TypeOK
<1>1. ASSUME NEW t \in Txns, NEW c \in Calls, Start(t, c) PROVE TypeOK'
  <2>1. c \in Dto /\ c.id \in Reviews
    BY CallsAssumption DEF Dto
  <2>2. QED
    BY <1>1, <2>1 DEF Start, tables, admin, Open
<1>2. ASSUME NEW t \in Txns, DropFlags(t) PROVE TypeOK'
  BY <1>2 DEF DropFlags, tables, admin, Open
<1>3. ASSUME NEW t \in Txns, WriteReview(t) PROVE TypeOK'
  <2>1. NewRow(call[t], existing[t]) \in Row
    BY <1>3, NewRowType DEF WriteReview, Open
  <2>2. QED
    BY <1>3, <2>1 DEF WriteReview, tables, admin, Open, HoldsReview
<1>4. ASSUME NEW t \in Txns, CountReviews(t) PROVE TypeOK'
  <2>1. pc[t] \in Open
    BY <1>4 DEF CountReviews, Open, HoldsReview
  <2>2. /\ Published(ReviewsSeen(t)) \subseteq Reviews \X Rating
        /\ Pending(ReviewsSeen(t)) \subseteq Reviews
        /\ Total(ReviewsSeen(t)) \subseteq Reviews
        /\ FlagsSeen(t) \subseteq Flag
    BY <2>1, SeenTypes
  <2>3. counts' \in [Txns -> Counts]
    BY <1>4, <2>2 DEF CountReviews, Counts, Tally
  <2>4. /\ pc' \in [Txns -> {"idle", "done"} \cup Open]
        /\ \A u \in Txns : pc'[u] \in Open => pc[u] \in Open
    BY <1>4, <2>1 DEF CountReviews, Open, HoldsReview
  <2>5. QED
    BY <1>4, <2>3, <2>4 DEF CountReviews, tables, admin
<1>5. ASSUME NEW t \in Txns, Upsert(t) PROVE TypeOK'
  BY <1>5 DEF Upsert, tables, admin, Open, HoldsReview, HoldsRollup
<1>6. ASSUME NEW t \in Txns, FindSeed(t) PROVE TypeOK'
  <2>1. pc[t] \in Open /\ counts[t] \in Counts
    BY <1>6 DEF FindSeed, Open, HoldsRollup
  <2>2. \A l \in {Aggregate} : counts[t].published # {} =>
            [id |-> t, label |-> l, value |-> Rounded(counts[t].published)] \in Seed
    BY <2>1, RoundedType DEF Seed, Counts
  <2>3. \A s \in AggregateSeeds : counts[t].published # {} =>
            /\ s \in Seed
            /\ Revalued(s, Rounded(counts[t].published)) \in Seed
    BY <2>1, RoundedType DEF Seed, Counts, Revalued, AggregateSeeds
  <2>4. seedOut' \in [Txns -> SUBSET Seed] /\ seedIn' \in [Txns -> SUBSET Seed]
    BY <1>6, <2>2, <2>3 DEF FindSeed, AggregateSeeds
  <2>5. /\ pc' \in [Txns -> {"idle", "done"} \cup Open]
        /\ \A u \in Txns : pc'[u] \in Open => pc[u] \in Open
    BY <1>6, <2>1 DEF FindSeed, Open, HoldsRollup
  <2>6. QED
    BY <1>6, <2>4, <2>5 DEF FindSeed, tables, admin
<1>7. ASSUME NEW t \in Txns, ReplaceSeed(t) PROVE TypeOK'
  BY <1>7 DEF ReplaceSeed, tables, admin, Open, HoldsRollup
<1>8. ASSUME NEW t \in Txns, SumSeeds(t) PROVE TypeOK'
  BY <1>8 DEF SumSeeds, SeedsSeen, tables, admin, Open, HoldsRollup
<1>9. ASSUME NEW t \in Txns, End(t)
      PROVE  /\ pc' \in [Txns -> {"idle", "done"} \cup Open]
             /\ call' \in [Txns -> Dto \cup {NoCall}]
             /\ existing' \in [Txns -> Row] /\ written' \in [Txns -> Row]
             /\ dropped' \in [Txns -> SUBSET Flag]
             /\ counts' \in [Txns -> Counts]
             /\ seedOut' \in [Txns -> SUBSET Seed] /\ seedIn' \in [Txns -> SUBSET Seed]
             /\ sum' \in [Txns -> SUBSET Seed]
             /\ \A u \in Txns : pc'[u] \in Open => call'[u] \in Dto
  <2>1. NoRow \in Row /\ NoCounts \in Counts
    BY DEF NoRow, Row, Rating, Comment, ReviewStatus, NoCounts, Tally, Counts
  <2>2. QED
    BY <1>9, <2>1 DEF End, Open, HoldsReview, HoldsRollup
<1>10. ASSUME NEW t \in Txns, Commit(t) PROVE TypeOK'
  <2>1. /\ ReviewsSeen(t) \in [Reviews -> Row] /\ FlagsSeen(t) \subseteq Flag
        /\ SeedsSeen(t) \subseteq Seed
    BY <1>10, SeenTypes DEF Commit, Open, HoldsRollup
  <2>2. QED
    BY <1>9, <1>10, <2>1 DEF Commit, admin
<1>11. ASSUME NEW t \in Txns, Rollback(t) PROVE TypeOK'
  BY <1>9, <1>11 DEF Rollback, tables, admin
<1>12. ASSUME NEW a \in Admins, NEW l \in Labels, CreateTrustSeed(a, l) PROVE TypeOK'
  <2>1. [id |-> a, label |-> l, value |-> 1] \in Seed
    BY DEF Seed, SeedValue
  <2>2. QED
    BY <1>12, <2>1 DEF CreateTrustSeed, txn
<1>13. ASSUME NEW a \in Admins, NEW s \in seeds, DeleteTrustSeed(a, s) PROVE TypeOK'
  BY <1>13 DEF DeleteTrustSeed, txn
<1>14. ASSUME NEW a \in Admins, AdminStep(a) \/ AdminFail(a) PROVE TypeOK'
  BY <1>14 DEF AdminStep, AdminSum, AdminWrite, AdminFail, tables, txn
<1>15. CASE UNCHANGED vars
  BY <1>15 DEF vars, tables, txn, admin
<1>16. QED
  BY <1>1, <1>2, <1>3, <1>4, <1>5, <1>6, <1>7, <1>8, <1>10, <1>11, <1>12, <1>13, <1>14, <1>15
     DEF Next, TxnStep, MustFail

--------------------------------------------------------------------------------
(* What a step does to the tables and to one transaction                   *)

\* The tables change when a transaction commits or an admin's statement does; the
\* seeds, by an admin's insert or delete.
LEMMA TablesEffect ==
    ASSUME [Next]_vars
    PROVE  \/ UNCHANGED tables
           \/ \E t \in Txns : Commit(t)
           \/ \E a \in Admins : /\ \/ \E l \in Labels : CreateTrustSeed(a, l)
                                   \/ \E s \in seeds : DeleteTrustSeed(a, s)
                                   \/ AdminWrite(a)
                                /\ UNCHANGED <<review, flags, rollup>>
<1> DEFINE Goal == \/ UNCHANGED tables
                   \/ \E t \in Txns : Commit(t)
                   \/ \E a \in Admins : /\ \/ \E l \in Labels : CreateTrustSeed(a, l)
                                           \/ \E s \in seeds : DeleteTrustSeed(a, s)
                                           \/ AdminWrite(a)
                                        /\ UNCHANGED <<review, flags, rollup>>
<1>1. ASSUME NEW t \in Txns, TxnStep(t) \/ Rollback(t) \/ \E c \in Calls : Start(t, c) PROVE Goal
  BY <1>1 DEF TxnStep, DropFlags, WriteReview, CountReviews, Upsert, FindSeed, ReplaceSeed, SumSeeds, MustFail,
     Rollback, Start
<1>2. ASSUME NEW a \in Admins, NEW l \in Labels, CreateTrustSeed(a, l) PROVE Goal
  <2>1. UNCHANGED <<review, flags, rollup>>
    BY <1>2 DEF CreateTrustSeed
  <2>2. QED
    BY <1>2, <2>1
<1>3. ASSUME NEW a \in Admins, NEW s \in seeds, DeleteTrustSeed(a, s) PROVE Goal
  <2>1. UNCHANGED <<review, flags, rollup>>
    BY <1>3 DEF DeleteTrustSeed
  <2>2. QED
    BY <1>3, <2>1
<1>4. ASSUME NEW a \in Admins, AdminStep(a) \/ AdminFail(a) PROVE Goal
  <2>1. CASE AdminWrite(a)
    <3>1. UNCHANGED <<review, flags, rollup>>
      BY <2>1 DEF AdminWrite
    <3>2. QED
      BY <2>1, <3>1
  <2>2. CASE ~AdminWrite(a)
    BY <1>4, <2>2 DEF AdminStep, AdminSum, AdminFail
  <2>3. QED
    BY <2>1, <2>2
<1>5. CASE UNCHANGED vars
  BY <1>5 DEF vars
<1>6. QED
  BY <1>1, <1>2, <1>3, <1>4, <1>5 DEF Next

\* What a transaction knows of its review.
Known(t) == <<call[t], written[t], dropped[t]>>

\* A transaction that has written its review and goes on keeps what it knows, but
\* for what the step is about.
LEMMA TxnEffect ==
    ASSUME TypeOK, [Next]_vars, NEW t \in Txns, pc'[t] \in HoldsReview \cup HoldsRollup
    PROVE  \/ pc'[t] = pc[t] /\ UNCHANGED <<Known(t), counts[t], seedOut[t], seedIn[t], sum[t]>>
           \/ WriteReview(t) /\ pc'[t] = "published"
           \/ CountReviews(t) /\ pc[t] \in HoldsReview /\ UNCHANGED Known(t)
           \/ Upsert(t) /\ pc'[t] = "seed" /\ UNCHANGED <<Known(t), counts[t]>>
           \/ FindSeed(t) /\ UNCHANGED <<Known(t), counts[t]>>
           \/ ReplaceSeed(t) /\ pc'[t] = "sum" /\ UNCHANGED <<Known(t), counts[t], seedOut[t], seedIn[t]>>
           \/ SumSeeds(t) /\ pc'[t] = "commit" /\ UNCHANGED <<Known(t), counts[t], seedOut[t], seedIn[t]>>
<1> DEFINE Goal ==
           \/ pc'[t] = pc[t] /\ UNCHANGED <<Known(t), counts[t], seedOut[t], seedIn[t], sum[t]>>
           \/ WriteReview(t) /\ pc'[t] = "published"
           \/ CountReviews(t) /\ pc[t] \in HoldsReview /\ UNCHANGED Known(t)
           \/ Upsert(t) /\ pc'[t] = "seed" /\ UNCHANGED <<Known(t), counts[t]>>
           \/ FindSeed(t) /\ UNCHANGED <<Known(t), counts[t]>>
           \/ ReplaceSeed(t) /\ pc'[t] = "sum" /\ UNCHANGED <<Known(t), counts[t], seedOut[t], seedIn[t]>>
           \/ SumSeeds(t) /\ pc'[t] = "commit" /\ UNCHANGED <<Known(t), counts[t], seedOut[t], seedIn[t]>>
<1> USE DEF TypeOK
<1>1. ASSUME pc'[t] = pc[t], call'[t] = call[t], written'[t] = written[t], dropped'[t] = dropped[t],
             counts'[t] = counts[t], seedOut'[t] = seedOut[t], seedIn'[t] = seedIn[t], sum'[t] = sum[t]
      PROVE  Goal
  BY <1>1 DEF Known
<1>2. ASSUME NEW u \in Txns, NEW c \in Calls, Start(u, c) PROVE Goal
  <2>1. CASE u = t
    BY <1>2, <2>1 DEF Start, HoldsReview, HoldsRollup
  <2>2. CASE u # t
    BY <1>1, <1>2, <2>2 DEF Start
  <2>3. QED
    BY <2>1, <2>2
<1>3. ASSUME NEW u \in Txns, TxnStep(u) \/ Rollback(u), u # t PROVE Goal
  BY <1>1, <1>3 DEF TxnStep, DropFlags, WriteReview, CountReviews, Upsert, FindSeed, ReplaceSeed, SumSeeds, Commit,
     MustFail, Rollback, End
<1>4. CASE DropFlags(t) \/ Commit(t) \/ MustFail(t) \/ Rollback(t)
  BY <1>4 DEF DropFlags, Commit, MustFail, Rollback, End, HoldsReview, HoldsRollup
<1>5. CASE WriteReview(t)
  BY <1>5 DEF WriteReview
<1>6. CASE CountReviews(t)
  BY <1>6 DEF CountReviews, Known, HoldsReview
<1>7. CASE Upsert(t)
  BY <1>7 DEF Upsert, Known
<1>8. CASE FindSeed(t)
  BY <1>8 DEF FindSeed, Known
<1>9. CASE ReplaceSeed(t)
  BY <1>9 DEF ReplaceSeed, Known
<1>10. CASE SumSeeds(t)
  BY <1>10 DEF SumSeeds, Known
<1>11. ASSUME UNCHANGED txn PROVE Goal
  BY <1>1, <1>11 DEF txn
<1>12. ASSUME NEW a \in Admins, \/ \E l \in Labels : CreateTrustSeed(a, l)
                                \/ \E s \in seeds : DeleteTrustSeed(a, s)
                                \/ AdminStep(a) \/ AdminFail(a)
       PROVE  Goal
  BY <1>11, <1>12 DEF CreateTrustSeed, DeleteTrustSeed, AdminStep, AdminSum, AdminWrite, AdminFail
<1>13. CASE UNCHANGED vars
  BY <1>11, <1>13 DEF vars
<1>14. QED
  BY <1>2, <1>3, <1>4, <1>5, <1>6, <1>7, <1>8, <1>9, <1>10, <1>12, <1>13 DEF Next, TxnStep

\* An admin call goes on from where it was, or starts.
LEMMA AdminEffect ==
    ASSUME TypeOK, [Next]_vars, NEW a \in Admins
    PROVE  \/ apc'[a] = apc[a] /\ asum'[a] = asum[a]
           \/ /\ apc[a] = "idle" /\ apc'[a] = "sum" /\ MayStart
              /\ (\E l \in Labels : CreateTrustSeed(a, l)) \/ \E s \in seeds : DeleteTrustSeed(a, s)
           \/ AdminSum(a) /\ apc'[a] = "write"
           \/ AdminWrite(a) /\ apc'[a] = "done"
           \/ AdminFail(a) /\ apc'[a] = "failed"
<1> DEFINE Goal ==
           \/ apc'[a] = apc[a] /\ asum'[a] = asum[a]
           \/ /\ apc[a] = "idle" /\ apc'[a] = "sum" /\ MayStart
              /\ (\E l \in Labels : CreateTrustSeed(a, l)) \/ \E s \in seeds : DeleteTrustSeed(a, s)
           \/ AdminSum(a) /\ apc'[a] = "write"
           \/ AdminWrite(a) /\ apc'[a] = "done"
           \/ AdminFail(a) /\ apc'[a] = "failed"
<1> USE DEF TypeOK
<1>1. ASSUME NEW t \in Txns, TxnStep(t) \/ Rollback(t) \/ \E c \in Calls : Start(t, c) PROVE Goal
  BY <1>1 DEF TxnStep, DropFlags, WriteReview, CountReviews, Upsert, FindSeed, ReplaceSeed, SumSeeds, Commit,
     MustFail, Rollback, End, Start, admin
<1>2. ASSUME NEW b \in Admins, b # a, \/ \E l \in Labels : CreateTrustSeed(b, l)
                                      \/ \E s \in seeds : DeleteTrustSeed(b, s)
                                      \/ AdminStep(b) \/ AdminFail(b)
      PROVE  Goal
  BY <1>2 DEF CreateTrustSeed, DeleteTrustSeed, AdminStep, AdminSum, AdminWrite, AdminFail
<1>3. ASSUME NEW l \in Labels, CreateTrustSeed(a, l) PROVE Goal
  <2>1. apc[a] = "idle" /\ apc'[a] = "sum" /\ MayStart
    BY <1>3 DEF CreateTrustSeed
  <2>2. QED
    BY <1>3, <2>1
<1>4. ASSUME NEW s \in seeds, DeleteTrustSeed(a, s) PROVE Goal
  <2>1. apc[a] = "idle" /\ apc'[a] = "sum" /\ MayStart
    BY <1>4 DEF DeleteTrustSeed
  <2>2. QED
    BY <1>4, <2>1
<1>5. CASE AdminStep(a) \/ AdminFail(a)
  BY <1>5 DEF AdminStep, AdminSum, AdminWrite, AdminFail
<1>6. CASE UNCHANGED vars
  BY <1>6 DEF vars, admin
<1>7. QED
  BY <1>1, <1>2, <1>3, <1>4, <1>5, <1>6 DEF Next

--------------------------------------------------------------------------------
(* Who holds what                                                          *)

\* An admin call that has started stays started; the callers stay as they were chosen.
LEMMA AdminsStay ==
    ASSUME TypeOK, [Next]_vars
    PROVE  overlap' = overlap /\ (NoAdmin' => NoAdmin)
<1>1. overlap' = overlap
  BY DEF Next, TxnStep, DropFlags, WriteReview, CountReviews, Upsert, FindSeed, ReplaceSeed, SumSeeds, Commit,
     MustFail, Rollback, Start, CreateTrustSeed, DeleteTrustSeed, AdminStep, AdminSum, AdminWrite, AdminFail, vars
<1>2. \A a \in Admins : apc'[a] = "idle" => apc[a] = "idle"
  BY AdminEffect
<1>3. QED
  BY <1>1, <1>2 DEF NoAdmin

\* A call is under way when it was before, or when it may start and starts.
LEMMA BusyEffect ==
    ASSUME TypeOK, [Next]_vars
    PROVE  Busy' \subseteq Busy \/ (MayStart /\ \E x : Busy' \subseteq Busy \cup {x})
<1> DEFINE Goal == Busy' \subseteq Busy \/ (MayStart /\ \E x : Busy' \subseteq Busy \cup {x})
<1> USE DEF TypeOK
<1>1. ASSUME NEW t \in Txns, NEW c \in Calls, Start(t, c) PROVE Goal
  <2>1. MayStart /\ apc' = apc /\ \A u \in Txns \ {t} : pc'[u] = pc[u]
    BY <1>1 DEF Start, admin
  <2>2. Busy' \subseteq Busy \cup {t}
    BY <2>1 DEF Busy
  <2>3. QED
    BY <2>1, <2>2
<1>2. ASSUME NEW t \in Txns, TxnStep(t) \/ Rollback(t) PROVE Goal
  <2>1. apc' = apc
    BY <1>2 DEF TxnStep, DropFlags, WriteReview, CountReviews, Upsert, FindSeed, ReplaceSeed, SumSeeds, Commit,
       MustFail, Rollback, admin
  <2>2. pc[t] \in Open /\ \A u \in Txns \ {t} : pc'[u] = pc[u]
    BY <1>2 DEF TxnStep, DropFlags, WriteReview, CountReviews, Upsert, FindSeed, ReplaceSeed, SumSeeds, Commit,
       MustFail, Rollback, End, Open, HoldsReview, HoldsRollup
  <2>3. QED
    BY <2>1, <2>2 DEF Busy
<1>3. ASSUME NEW a \in Admins, NEW l \in Labels, CreateTrustSeed(a, l) PROVE Goal
  <2>1. MayStart /\ pc' = pc /\ \A b \in Admins \ {a} : apc'[b] = apc[b]
    BY <1>3 DEF CreateTrustSeed, txn
  <2>2. Busy' \subseteq Busy \cup {a}
    BY <2>1 DEF Busy
  <2>3. QED
    BY <2>1, <2>2
<1>4. ASSUME NEW a \in Admins, NEW s \in seeds, DeleteTrustSeed(a, s) PROVE Goal
  <2>1. MayStart /\ pc' = pc /\ \A b \in Admins \ {a} : apc'[b] = apc[b]
    BY <1>4 DEF DeleteTrustSeed, txn
  <2>2. Busy' \subseteq Busy \cup {a}
    BY <2>1 DEF Busy
  <2>3. QED
    BY <2>1, <2>2
<1>5. ASSUME NEW a \in Admins, AdminStep(a) \/ AdminFail(a) PROVE Goal
  BY <1>5 DEF AdminStep, AdminSum, AdminWrite, AdminFail, txn, Busy
<1>6. CASE UNCHANGED vars
  BY <1>6 DEF vars, txn, admin, Busy
<1>7. QED
  BY <1>1, <1>2, <1>3, <1>4, <1>5, <1>6 DEF Next

\* The rollup's row has one holder: only upsert takes it, and it waits for the
\* holder.
LEMMA NextLocks ==
    ASSUME TypeOK, LocksInv, [Next]_vars
    PROVE  LocksInv'
<1>1. ASSUME NEW t \in Txns, pc'[t] \in HoldsRollup
      PROVE  pc[t] \in HoldsRollup \/ Upsert(t)
  BY <1>1, TxnEffect DEF CountReviews, FindSeed, ReplaceSeed, SumSeeds, HoldsReview, HoldsRollup, TypeOK
<1>2. ASSUME NEW t \in Txns, NEW u \in Txns, pc'[t] \in HoldsRollup, pc'[u] \in HoldsRollup
      PROVE  t = u
  <2>1. CASE pc[t] \in HoldsRollup /\ pc[u] \in HoldsRollup
    BY <2>1 DEF LocksInv
  <2>2. ASSUME NEW v \in Txns, NEW w \in Txns, Upsert(v), pc'[w] \in HoldsRollup
        PROVE  w = v
    BY <2>2 DEF Upsert, RollupFree, TypeOK
  <2>3. QED
    BY <1>1, <1>2, <2>1, <2>2
<1>3. ASSUME ~overlap', NEW x \in Busy', NEW y \in Busy'
      PROVE  x = y
  <2>1. ~overlap
    BY <1>3, AdminsStay
  <2>2. CASE Busy' \subseteq Busy
    BY <1>3, <2>1, <2>2 DEF LocksInv
  <2>3. CASE MayStart /\ \E z : Busy' \subseteq Busy \cup {z}
    BY <1>3, <2>1, <2>3 DEF MayStart
  <2>4. QED
    BY <2>2, <2>3, BusyEffect
<1>4. QED
  BY <1>2, <1>3 DEF LocksInv

\* Without overlap a call is alone while it is under way.
LEMMA Alone ==
    ASSUME LocksInv, ~overlap, NEW t \in Txns, pc[t] \in Open
    PROVE  /\ ~MayStart
           /\ \A u \in Txns : pc[u] \in Open => u = t
           /\ \A a \in Admins : apc[a] \notin {"sum", "write"}
<1>1. t \in Busy
  BY DEF Busy
<1>2. \A a \in Admins : a # t
  BY CallersAssumption
<1>3. QED
  BY <1>1, <1>2 DEF LocksInv, Busy, MayStart

--------------------------------------------------------------------------------
(* The seeds                                                               *)

\* What a commit does to the seeds.
LEMMA CommitSeeds ==
    ASSUME TypeOK, PlanInv, NEW t \in Txns, Commit(t)
    PROVE  \/ /\ counts[t].published = {} /\ seeds' \subseteq seeds
              /\ NoAdmin => seeds' = {}
           \/ /\ counts[t].published # {}
              /\ seeds' = seeds \cup {[id |-> t, label |-> Aggregate,
                                       value |-> Rounded(counts[t].published)]}
              /\ \A s \in seeds : s.id \notin Txns
           \/ /\ counts[t].published # {}
              /\ \E s \in seeds :
                    /\ s.label = Aggregate
                    /\ seeds' = (seeds \ {s}) \cup {Revalued(s, Rounded(counts[t].published))}
                    /\ NoAdmin => seeds = {s}
  BY DEF PlanInv, Commit, SeedsSeen

\* A seed of a review transaction is the aggregate one, and there is one at most.
LEMMA NextSeeds ==
    ASSUME TypeOK, PlanInv, RowsInv, OneReviewSeed, [Next]_vars
    PROVE  /\ OneReviewSeed'
           /\ \A s \in seeds' : s.id \in Txns => s.label = Aggregate
           /\ NoAdmin' => \A s \in seeds' : s.id \in Txns
<1> DEFINE Goal == /\ OneReviewSeed'
                   /\ \A s \in seeds' : s.id \in Txns => s.label = Aggregate
                   /\ NoAdmin' => \A s \in seeds' : s.id \in Txns
<1>1. NoAdmin' => NoAdmin
  BY AdminsStay
<1>2. ASSUME NEW t \in Txns, Commit(t) PROVE Goal
  <2>1. CASE seeds' \subseteq seeds
    BY <1>1, <2>1 DEF OneReviewSeed, RowsInv
  <2>2. CASE /\ seeds' = seeds \cup {[id |-> t, label |-> Aggregate,
                                      value |-> Rounded(counts[t].published)]}
             /\ \A s \in seeds : s.id \notin Txns
    BY <1>1, <2>2 DEF OneReviewSeed, RowsInv
  <2>3. ASSUME NEW s \in seeds, s.label = Aggregate,
               seeds' = (seeds \ {s}) \cup {Revalued(s, Rounded(counts[t].published))}
        PROVE  Goal
    <3>1. /\ Revalued(s, Rounded(counts[t].published)).id = s.id
          /\ Revalued(s, Rounded(counts[t].published)).label = Aggregate
      BY <2>3 DEF Revalued
    <3>2. OneReviewSeed'
      BY <2>3, <3>1 DEF OneReviewSeed
    <3>3. QED
      BY <1>1, <2>3, <3>1, <3>2 DEF RowsInv
  <2>4. QED
    BY <1>2, <2>1, <2>2, <2>3, CommitSeeds
<1>3. ASSUME NEW a \in Admins, NEW l \in Labels, CreateTrustSeed(a, l) PROVE Goal
  <2>1. seeds' = seeds \cup {[id |-> a, label |-> l, value |-> 1]} /\ ~NoAdmin'
    BY <1>3 DEF CreateTrustSeed, NoAdmin, TypeOK
  <2>2. a \notin Txns
    BY CallersAssumption
  <2>3. QED
    BY <2>1, <2>2 DEF OneReviewSeed, RowsInv
<1>4. ASSUME NEW a \in Admins, NEW s \in seeds, DeleteTrustSeed(a, s) PROVE Goal
  BY <1>1, <1>4 DEF DeleteTrustSeed, OneReviewSeed, RowsInv
<1>5. CASE seeds' = seeds
  BY <1>1, <1>5 DEF OneReviewSeed, RowsInv
<1>6. QED
  BY <1>2, <1>3, <1>4, <1>5, TablesEffect DEF tables, AdminWrite

\* A call drops only the flags of its review, and none before it starts.
LEMMA NextDropped ==
    ASSUME TypeOK, RowsInv, [Next]_vars
    PROVE  \A t \in Txns : \A f \in dropped'[t] : pc'[t] # "idle" /\ f.review = call'[t].id
<1> DEFINE Goal == \A t \in Txns : \A f \in dropped'[t] : pc'[t] # "idle" /\ f.review = call'[t].id
<1> USE DEF TypeOK, RowsInv
<1>1. ASSUME NEW t \in Txns, NEW c \in Calls, Start(t, c) PROVE Goal
  BY <1>1 DEF Start
<1>2. ASSUME NEW t \in Txns, DropFlags(t) PROVE Goal
  BY <1>2 DEF DropFlags
<1>3. ASSUME NEW t \in Txns, WriteReview(t) \/ CountReviews(t) \/ Upsert(t) \/ FindSeed(t) \/ ReplaceSeed(t)
                             \/ SumSeeds(t)
      PROVE  Goal
  BY <1>3 DEF WriteReview, CountReviews, Upsert, FindSeed, ReplaceSeed, SumSeeds
<1>4. ASSUME NEW t \in Txns, Commit(t) \/ MustFail(t) \/ Rollback(t) PROVE Goal
  BY <1>4 DEF Commit, MustFail, Rollback, End
<1>5. CASE UNCHANGED txn
  BY <1>5 DEF txn
<1>6. QED
  BY <1>1, <1>2, <1>3, <1>4, <1>5
     DEF Next, TxnStep, CreateTrustSeed, DeleteTrustSeed, AdminStep, AdminSum, AdminWrite, AdminFail, vars

\* Only an admin changes the seeds while a transaction holds the rollup, and none
\* that the transaction replaces.
LEMMA HeldSeeds ==
    ASSUME TypeOK, LocksInv, [Next]_vars, NEW t \in Txns, pc[t] \in HoldsRollup, pc'[t] \in HoldsRollup
    PROVE  \/ seeds' = seeds
           \/ /\ ~NoAdmin' /\ MayStart
              /\ \A s \in seeds' : s \in seeds \/ s.id \notin Txns
              /\ pc[t] \in {"sum", "commit"} => \A s \in seeds : s \in seeds' \/ s \notin seedOut[t]
<1> DEFINE Goal == \/ seeds' = seeds
                   \/ /\ ~NoAdmin' /\ MayStart
                      /\ \A s \in seeds' : s \in seeds \/ s.id \notin Txns
                      /\ pc[t] \in {"sum", "commit"} => \A s \in seeds : s \in seeds' \/ s \notin seedOut[t]
<1>1. ASSUME NEW u \in Txns, Commit(u) PROVE FALSE
  <2>1. pc[u] \in HoldsRollup /\ pc'[u] = "done"
    BY <1>1 DEF Commit, End, HoldsRollup, TypeOK
  <2>2. u = t
    BY <2>1 DEF LocksInv
  <2>3. QED
    BY <2>1, <2>2 DEF HoldsRollup
<1>2. ASSUME NEW a \in Admins, NEW l \in Labels, CreateTrustSeed(a, l) PROVE Goal
  <2>1. /\ seeds' = seeds \cup {[id |-> a, label |-> l, value |-> 1]}
        /\ ~NoAdmin' /\ MayStart
    BY <1>2 DEF CreateTrustSeed, NoAdmin, TypeOK
  <2>2. a \notin Txns
    BY CallersAssumption
  <2>3. QED
    BY <2>1, <2>2
<1>3. ASSUME NEW a \in Admins, NEW s \in seeds, DeleteTrustSeed(a, s) PROVE Goal
  <2>1. /\ seeds' = seeds \ {s} /\ ~NoAdmin' /\ MayStart
        /\ pc[t] \in {"sum", "commit"} => s \notin seedOut[t]
    BY <1>3 DEF DeleteTrustSeed, NoAdmin, TypeOK
  <2>2. QED
    BY <2>1
<1>4. QED
  BY <1>1, <1>2, <1>3, TablesEffect DEF tables, AdminWrite

\* What the next step of a plan needs is kept.
LEMMA NextPlan ==
    ASSUME TypeOK, LocksInv, RowsInv, PlanInv, OneReviewSeed, [Next]_vars
    PROVE  PlanInv'
<1> SUFFICES ASSUME NEW t \in Txns, pc'[t] \in {"replace", "sum", "commit"}
             PROVE  \/ /\ pc'[t] # "replace" /\ counts'[t].published = {} /\ seedIn'[t] = {}
                       /\ NoAdmin' => seedOut'[t] = seeds'
                    \/ /\ pc'[t] # "replace" /\ counts'[t].published # {} /\ seedOut'[t] = {}
                       /\ seedIn'[t] = {[id |-> t, label |-> Aggregate,
                                         value |-> Rounded(counts'[t].published)]}
                       /\ \A s \in seeds' : s.id \notin Txns
                    \/ /\ counts'[t].published # {}
                       /\ \E s \in Seed :
                             /\ s.label = Aggregate /\ seedOut'[t] = {s}
                             /\ seedIn'[t] = {Revalued(s, Rounded(counts'[t].published))}
                             /\ pc'[t] # "replace" => s \in seeds'
                             /\ NoAdmin' => seeds' = {s}
  BY Zenon DEF PlanInv
<1> DEFINE Kept == counts'[t] = counts[t] /\ seedOut'[t] = seedOut[t] /\ seedIn'[t] = seedIn[t]
<1>1. NoAdmin' => NoAdmin
  BY AdminsStay
<1>2. pc'[t] \in HoldsReview \cup HoldsRollup /\ pc'[t] \notin HoldsReview /\ pc'[t] # "seed"
  BY DEF HoldsReview, HoldsRollup
<1>3. CASE FindSeed(t)
  <2>1. pc[t] = "seed" /\ pc[t] \in HoldsRollup /\ pc'[t] \in HoldsRollup /\ counts'[t] = counts[t]
    BY <1>2, <1>3 DEF FindSeed, HoldsRollup
  <2>2. UNCHANGED seeds
    BY <1>3 DEF FindSeed, tables
  <2>3. NoAdmin => AggregateSeeds = seeds
    BY DEF RowsInv, AggregateSeeds
  <2>4. CASE counts[t].published = {} /\ seedOut'[t] = AggregateSeeds /\ seedIn'[t] = {} /\ pc'[t] = "sum"
    BY <1>1, <2>1, <2>2, <2>3, <2>4
  <2>5. CASE /\ counts[t].published # {} /\ AggregateSeeds = {} /\ seedOut'[t] = {} /\ pc'[t] = "sum"
             /\ seedIn'[t] = {[id |-> t, label |-> Aggregate, value |-> Rounded(counts[t].published)]}
    BY <2>1, <2>2, <2>5 DEF RowsInv, AggregateSeeds
  <2>6. ASSUME counts[t].published # {}, NEW s \in AggregateSeeds, seedOut'[t] = {s}, pc'[t] = "replace",
               seedIn'[t] = {Revalued(s, Rounded(counts[t].published))}
        PROVE  /\ s \in Seed /\ s.label = Aggregate /\ (NoAdmin' => seeds' = {s})
               /\ counts'[t].published # {} 
               /\ seedIn'[t] = {Revalued(s, Rounded(counts'[t].published))}
    <3>1. NoAdmin => seeds = {s}
      BY <2>6 DEF RowsInv, OneReviewSeed, AggregateSeeds
    <3>2. QED
      BY <1>1, <2>1, <2>2, <2>6, <3>1 DEF AggregateSeeds, TypeOK
  <2>7. \/ counts[t].published = {} /\ seedOut'[t] = AggregateSeeds /\ seedIn'[t] = {} /\ pc'[t] = "sum"
        \/ /\ counts[t].published # {} /\ AggregateSeeds = {} /\ seedOut'[t] = {} /\ pc'[t] = "sum"
           /\ seedIn'[t] = {[id |-> t, label |-> Aggregate, value |-> Rounded(counts[t].published)]}
        \/ /\ counts[t].published # {} /\ pc'[t] = "replace"
           /\ \E s \in AggregateSeeds :
                 seedOut'[t] = {s} /\ seedIn'[t] = {Revalued(s, Rounded(counts[t].published))}
    BY <1>3 DEF FindSeed, TypeOK
  <2>8. QED
    BY <2>4, <2>5, <2>6, <2>7
<1>4. CASE ~FindSeed(t)
  <2>1. /\ Kept /\ pc[t] \in {"replace", "sum", "commit"}
        /\ (pc'[t] = "replace") = (pc[t] = "replace") \/ ReplaceSeed(t)
        /\ pc[t] = "replace" => pc'[t] = "replace" \/ ReplaceSeed(t)
        /\ pc[t] # "replace" => pc[t] \in {"sum", "commit"} /\ pc'[t] # "replace"
    BY <1>2, <1>4, TxnEffect DEF CountReviews, WriteReview, Upsert, ReplaceSeed, SumSeeds, Known, TypeOK, HoldsReview
  <2>2. pc[t] \in HoldsRollup /\ pc'[t] \in HoldsRollup
    BY <2>1 DEF HoldsRollup
  <2>3. \/ seeds' = seeds
        \/ /\ ~NoAdmin'
           /\ \A s \in seeds' : s \in seeds \/ s.id \notin Txns
           /\ pc[t] # "replace" => \A s \in seeds : s \in seeds' \/ s \notin seedOut[t]
    BY <2>1, <2>2, HeldSeeds
  <2>4. ReplaceSeed(t) => pc[t] = "replace" /\ seeds' = seeds /\ seedOut[t] \subseteq seeds
    BY DEF ReplaceSeed, tables
  <2>5. CASE /\ pc[t] # "replace" /\ counts[t].published = {} /\ seedIn[t] = {}
             /\ NoAdmin => seedOut[t] = seeds
    BY <1>1, <2>1, <2>3, <2>5
  <2>6. CASE /\ pc[t] # "replace" /\ counts[t].published # {} /\ seedOut[t] = {}
             /\ seedIn[t] = {[id |-> t, label |-> Aggregate, value |-> Rounded(counts[t].published)]}
             /\ \A s \in seeds : s.id \notin Txns
    BY <2>1, <2>3, <2>6
  <2>7. ASSUME counts[t].published # {}, NEW s \in Seed, s.label = Aggregate, seedOut[t] = {s},
               seedIn[t] = {Revalued(s, Rounded(counts[t].published))},
               pc[t] # "replace" => s \in seeds, NoAdmin => seeds = {s}
        PROVE  /\ counts'[t].published # {} /\ seedOut'[t] = {s}
               /\ seedIn'[t] = {Revalued(s, Rounded(counts'[t].published))}
               /\ pc'[t] # "replace" => s \in seeds'
               /\ NoAdmin' => seeds' = {s}
    BY <1>1, <2>1, <2>3, <2>4, <2>7
  <2>8. QED
    BY <2>1, <2>5, <2>6, <2>7 DEF PlanInv
<1>5. QED
  BY <1>3, <1>4

--------------------------------------------------------------------------------
(* What was summed and counted                                             *)

\* A sum stays what its seeds are while nobody could have changed them.
LEMMA NextSum ==
    ASSUME TypeOK, LocksInv, SumInv, [Next]_vars
    PROVE  SumInv'
<1>1. overlap' = overlap /\ (NoAdmin' => NoAdmin)
  BY AdminsStay
<1>2. ASSUME NEW t \in Txns, pc'[t] = "commit", NoAdmin' \/ ~overlap'
      PROVE  sum'[t] = (SeedsSeen(t))'
  <2>1. CASE SumSeeds(t)
    BY <2>1 DEF SumSeeds, SeedsSeen, tables, TypeOK
  <2>2. CASE ~SumSeeds(t)
    <3>1. pc'[t] \in HoldsReview \cup HoldsRollup /\ pc'[t] \notin HoldsReview
      BY <1>2 DEF HoldsReview, HoldsRollup
    <3>2. pc[t] = "commit" /\ UNCHANGED <<seedOut[t], seedIn[t], sum[t]>>
      BY <1>2, <2>2, <3>1, TxnEffect DEF CountReviews, WriteReview, FindSeed, HoldsReview, TypeOK
    <3>3. pc[t] \in HoldsRollup /\ pc'[t] \in HoldsRollup /\ pc[t] \in Open
      BY <1>2, <3>2 DEF HoldsRollup, Open
    <3>4. seeds' = seeds
      BY <1>1, <1>2, <3>3, HeldSeeds, Alone
    <3>5. sum[t] = SeedsSeen(t)
      BY <1>1, <1>2, <3>2 DEF SumInv
    <3>6. QED
      BY <3>2, <3>4, <3>5 DEF SeedsSeen
  <2>3. QED
    BY <2>1, <2>2
<1>3. ASSUME NEW a \in Admins, apc'[a] = "write", ~overlap'
      PROVE  asum'[a] = seeds'
  <2>1. CASE AdminSum(a)
    BY <2>1 DEF AdminSum, tables, TypeOK
  <2>2. CASE ~AdminSum(a)
    <3>1. apc[a] = "write" /\ asum'[a] = asum[a]
      BY <1>3, <2>2, AdminEffect
    <3>2. a \in Busy
      BY <3>1 DEF Busy
    <3>3. ~MayStart
      BY <1>1, <1>3, <3>2 DEF MayStart
    <3>4. ASSUME NEW t \in Txns, Commit(t) PROVE FALSE
      <4>1. t \in Busy /\ t # a
        BY <3>4, CallersAssumption DEF Commit, Busy, Open, HoldsRollup
      <4>2. QED
        BY <1>1, <1>3, <3>2, <4>1 DEF LocksInv
    <3>5. seeds' = seeds
      BY <3>3, <3>4, TablesEffect DEF tables, CreateTrustSeed, DeleteTrustSeed, AdminWrite
    <3>6. QED
      BY <1>1, <1>3, <3>1, <3>5 DEF SumInv
  <2>3. QED
    BY <2>1, <2>2
<1>4. QED
  BY <1>2, <1>3 DEF SumInv

\* Without overlap a transaction finds the reviews and flags as they were.
LEMMA AloneReviews ==
    ASSUME TypeOK, LocksInv, [Next]_vars, ~overlap, NEW t \in Txns, pc[t] \in Open, pc'[t] \in Open
    PROVE  UNCHANGED <<review, flags>>
<1>1. ASSUME NEW u \in Txns, Commit(u) PROVE FALSE
  <2>1. u = t
    BY <1>1, Alone DEF Commit, Open, HoldsRollup
  <2>2. QED
    BY <1>1, <2>1 DEF Commit, End, Open, HoldsReview, HoldsRollup, TypeOK
<1>2. QED
  BY <1>1, TablesEffect DEF tables

\* What has been counted is still so.
LEMMA NextCount ==
    ASSUME TypeOK, LocksInv, CountInv, [Next]_vars
    PROVE  CountInv'
<1> SUFFICES ASSUME ~overlap', NEW t \in Txns, pc'[t] \in HoldsReview \cup HoldsRollup
             PROVE  (/\ pc[t] \in {"pending", "flagged", "total", "upsert"} \cup HoldsRollup =>
                            counts[t].published = Published(ReviewsSeen(t))
                     /\ pc[t] \in {"flagged", "total", "upsert"} \cup HoldsRollup =>
                            counts[t].pending = Pending(ReviewsSeen(t))
                     /\ pc[t] \in {"total", "upsert"} \cup HoldsRollup =>
                            counts[t].flagged = FlagsSeen(t)
                     /\ pc[t] \in {"upsert"} \cup HoldsRollup =>
                            counts[t].total = Total(ReviewsSeen(t)))'
  BY DEF CountInv, HoldsReview
<1> DEFINE Counted ==
       /\ pc[t] \in {"pending", "flagged", "total", "upsert"} \cup HoldsRollup =>
              counts[t].published = Published(ReviewsSeen(t))
       /\ pc[t] \in {"flagged", "total", "upsert"} \cup HoldsRollup =>
              counts[t].pending = Pending(ReviewsSeen(t))
       /\ pc[t] \in {"total", "upsert"} \cup HoldsRollup =>
              counts[t].flagged = FlagsSeen(t)
       /\ pc[t] \in {"upsert"} \cup HoldsRollup =>
              counts[t].total = Total(ReviewsSeen(t))
<1> SUFFICES Counted'
  OBVIOUS
<1>1. ~overlap
  BY AdminsStay
<1>2. Counted
  BY <1>1 DEF CountInv
<1>3. CASE WriteReview(t)
  BY <1>3 DEF WriteReview, HoldsRollup, TypeOK
<1>4. CASE ~WriteReview(t)
  <2>1. pc[t] \in HoldsReview \cup HoldsRollup /\ UNCHANGED Known(t)
    BY <1>4, TxnEffect DEF CountReviews, Upsert, RollupFree, FindSeed, ReplaceSeed, SumSeeds, HoldsReview, HoldsRollup, TypeOK
  <2>2. UNCHANGED <<review, flags>>
    BY <1>1, <2>1, AloneReviews DEF Open
  <2>3. ReviewsSeen(t)' = ReviewsSeen(t)
    BY <2>1, <2>2 DEF ReviewsSeen, Known
  <2>4. FlagsSeen(t)' = FlagsSeen(t)
    BY <2>1, <2>2 DEF FlagsSeen, NewFlags, Known
  <2>5. /\ Published(ReviewsSeen(t))' = Published(ReviewsSeen(t))
        /\ Pending(ReviewsSeen(t))' = Pending(ReviewsSeen(t))
        /\ Total(ReviewsSeen(t))' = Total(ReviewsSeen(t))
    BY <2>3 DEF Published, Pending, Total
  <2>6. CASE CountReviews(t)
    BY <1>2, <2>4, <2>5, <2>6 DEF CountReviews, Tally, HoldsRollup, TypeOK
  <2>7. CASE ~CountReviews(t)
    <3>1. counts'[t] = counts[t] /\ (pc'[t] = pc[t] \/ pc[t] \in {"upsert"} \cup HoldsRollup)
      BY <1>4, <2>7, TxnEffect DEF Upsert, RollupFree, FindSeed, ReplaceSeed, SumSeeds, HoldsRollup
    <3>2. QED
      BY <1>2, <2>4, <2>5, <3>1
  <2>8. QED
    BY <2>6, <2>7
<1>5. QED
  BY <1>3, <1>4

--------------------------------------------------------------------------------
(* What the tables promise                                                 *)

\* A review that evaluate holds keeps the flags it was held for.
LEMMA NextFlagged ==
    ASSUME TypeOK, RowsInv, HeldIsFlagged, [Next]_vars
    PROVE  HeldIsFlagged'
<1>1. ASSUME NEW t \in Txns, Commit(t) PROVE HeldIsFlagged'
  <2>1. /\ review' = ReviewsSeen(t) /\ flags' = FlagsSeen(t)
    BY <1>1 DEF Commit
  <2>2. ASSUME NEW r \in Reviews, review'[r] # NoRow
        PROVE  Reasons(review'[r].rating, review'[r].comment) \subseteq
                   {f.reason : f \in {g \in flags' : g.review = r}}
    <3>1. CASE r = call[t].id
      <4>1. review'[r] = written[t]
        BY <2>1, <3>1 DEF ReviewsSeen, TypeOK
      <4>2. ASSUME NEW x \in Reasons(written[t].rating, written[t].comment)
            PROVE  \E f \in flags' : f.review = r /\ f.reason = x
        <5>1. [review |-> call[t].id, reason |-> x, by |-> t] \in NewFlags(t)
          BY <2>2, <4>1 DEF NewFlags
        <5>2. QED
          BY <2>1, <3>1, <5>1 DEF FlagsSeen
      <4>3. QED
        BY <4>1, <4>2
    <3>2. CASE r # call[t].id
      <4>1. review'[r] = review[r]
        BY <2>1, <3>2 DEF ReviewsSeen, TypeOK
      <4>2. \A g \in flags : g.review = r => g \in flags'
        BY <2>1, <3>2 DEF FlagsSeen, RowsInv
      <4>3. QED
        BY <2>2, <4>1, <4>2 DEF HeldIsFlagged
    <3>3. QED
      BY <3>1, <3>2
  <2>3. QED
    BY <2>2 DEF HeldIsFlagged
<1>2. CASE UNCHANGED <<review, flags>>
  BY <1>2 DEF HeldIsFlagged
<1>3. QED
  BY <1>1, <1>2, TablesEffect DEF tables

\* A single seed has a single value.
LEMMA OneValue ==
    ASSUME NEW x, x.label = Aggregate
    PROVE  {s.value : s \in {q \in {x} : q.label = Aggregate}} = {x.value}
<1>1. {q \in {x} : q.label = Aggregate} = {x}
  OBVIOUS
<1>2. QED
  BY <1>1, Zenon

\* Where no admin interferes, the aggregate seed and the score are those of the
\* rollup.
LEMMA NextScore ==
    ASSUME TypeOK, PlanInv, RowsInv, SumInv, ScoreFollowsRollup, [Next]_vars
    PROVE  ScoreFollowsRollup'
<1> SUFFICES ASSUME NoAdmin'
             PROVE  /\ {s.value : s \in {q \in seeds' : q.label = Aggregate}} =
                          IF rollup'.published = {} THEN {} ELSE {Rounded(rollup'.published)}
                    /\ score' = seeds'
  BY Zenon DEF ScoreFollowsRollup, AggregateSeeds
<1>1. NoAdmin
  BY AdminsStay
<1>2. ASSUME NEW t \in Txns, Commit(t)
      PROVE  /\ {s.value : s \in {q \in seeds' : q.label = Aggregate}} =
                   IF counts[t].published = {} THEN {} ELSE {Rounded(counts[t].published)}
             /\ score' = seeds'
  <2>1. score' = seeds'
    BY <1>1, <1>2 DEF Commit, SumInv
  <2>2. CASE counts[t].published = {} /\ seeds' = {}
    BY <2>1, <2>2
  <2>3. CASE /\ counts[t].published # {}
             /\ seeds' = {[id |-> t, label |-> Aggregate, value |-> Rounded(counts[t].published)]}
    <3> DEFINE x == [id |-> t, label |-> Aggregate, value |-> Rounded(counts[t].published)]
    <3>1. x.label = Aggregate /\ x.value = Rounded(counts[t].published)
      OBVIOUS
    <3> HIDE DEF x
    <3>2. {s.value : s \in {q \in {x} : q.label = Aggregate}} = {Rounded(counts[t].published)}
      BY <3>1, OneValue
    <3>3. seeds' = {x}
      BY <2>3 DEF x
    <3>4. QED
      BY <2>1, <2>3, <3>2, <3>3
  <2>4. ASSUME counts[t].published # {}, NEW s \in seeds, s.label = Aggregate,
               seeds' = {Revalued(s, Rounded(counts[t].published))}
        PROVE  {x.value : x \in {q \in seeds' : q.label = Aggregate}} = {Rounded(counts[t].published)}
    <3>1. /\ Revalued(s, Rounded(counts[t].published)).label = Aggregate
          /\ Revalued(s, Rounded(counts[t].published)).value = Rounded(counts[t].published)
      BY <2>4 DEF Revalued
    <3>2. QED
      BY <2>4, <3>1, OneValue
  <2>5. \A s \in seeds : s.id \in Txns
    BY <1>1 DEF RowsInv
  <2>6. QED
    BY <1>1, <1>2, <2>1, <2>2, <2>3, <2>4, <2>5, CommitSeeds
<1>3. \A t \in Txns : Commit(t) => rollup' = counts[t]
  BY DEF Commit
<1>4. CASE UNCHANGED tables
  BY <1>1, <1>4 DEF ScoreFollowsRollup, AggregateSeeds, tables
<1>5. ASSUME NEW a \in Admins, (\E l \in Labels : CreateTrustSeed(a, l))
                               \/ (\E s \in seeds : DeleteTrustSeed(a, s)) \/ AdminWrite(a)
      PROVE  FALSE
  BY <1>1, <1>5 DEF CreateTrustSeed, DeleteTrustSeed, AdminWrite, NoAdmin, TypeOK
<1>6. QED
  BY <1>2, <1>3, <1>4, <1>5, TablesEffect

\* Alone, what a transaction counted and summed is still so when it commits.
LEMMA NextSerial ==
    ASSUME TypeOK, LocksInv, SumInv, CountInv, SerialConsistent, [Next]_vars
    PROVE  SerialConsistent'
<1> SUFFICES ASSUME ~overlap' PROVE Consistent'
  BY DEF SerialConsistent
<1>1. ~overlap
  BY AdminsStay
<1>2. Consistent
  BY <1>1 DEF SerialConsistent
<1>3. ASSUME NEW t \in Txns, Commit(t) PROVE Consistent'
  <2>1. pc[t] = "commit" /\ pc[t] \in HoldsRollup /\ pc[t] \in Open
    BY <1>3 DEF Commit, HoldsRollup, Open
  <2>2. counts[t] = [published |-> Published(review'), pending |-> Pending(review'),
                     flagged |-> flags', total |-> Total(review')]
    <3>1. /\ counts[t].published = Published(ReviewsSeen(t)) /\ counts[t].pending = Pending(ReviewsSeen(t))
          /\ counts[t].flagged = FlagsSeen(t) /\ counts[t].total = Total(ReviewsSeen(t))
      BY <1>1, <2>1 DEF CountInv
    <3>2. counts[t] = [published |-> counts[t].published, pending |-> counts[t].pending,
                       flagged |-> counts[t].flagged, total |-> counts[t].total]
      BY DEF TypeOK, Counts
    <3>3. review' = ReviewsSeen(t) /\ flags' = FlagsSeen(t)
      BY <1>3 DEF Commit
    <3>4. QED
      BY <3>1, <3>2, <3>3
  <2>3. score' = seeds'
    BY <1>1, <1>3, <2>1 DEF Commit, SumInv
  <2>4. rollup' = counts[t]
    BY <1>3 DEF Commit
  <2>5. QED
    BY <2>2, <2>3, <2>4, Zenon DEF Consistent, Published, Pending, Total
<1>4. ASSUME NEW a \in Admins, AdminWrite(a), UNCHANGED <<review, flags, rollup>> PROVE Consistent'
  <2>1. score' = seeds'
    BY <1>1, <1>4 DEF AdminWrite, SumInv
  <2>2. QED
    BY <1>2, <1>4, <2>1 DEF Consistent, Published, Pending, Total
<1>5. ASSUME NEW a \in Admins, apc'[a] = "sum", UNCHANGED <<review, flags, rollup>> PROVE Consistent'
  BY <1>2, <1>5 DEF Consistent, Published, Pending, Total
<1>6. CASE UNCHANGED tables /\ \A a \in Admins : ~AdminWrite(a)
  <2>1. \A a \in Admins : apc'[a] \in {"idle", "done"} => apc[a] \in {"idle", "done"}
    BY <1>6, AdminEffect
  <2>2. QED
    BY <1>2, <1>6, <2>1 DEF Consistent, Published, Pending, Total, tables
<1>7. QED
  BY <1>3, <1>4, <1>5, <1>6, TablesEffect DEF CreateTrustSeed, DeleteTrustSeed, AdminWrite, tables, TypeOK

--------------------------------------------------------------------------------
(* The theorems                                                            *)

\* Every step keeps all of what is known of reviews, rollup, seeds and score.
LEMMA NextIInv == IInv /\ [Next]_vars => IInv'
<1> SUFFICES ASSUME IInv, [Next]_vars PROVE IInv'
  OBVIOUS
<1>1. TypeOK'
  BY NextType
<1>2. LocksInv'
  BY NextLocks DEF IInv
<1>3. RowsInv' /\ OneReviewSeed'
  BY NextDropped, NextSeeds DEF IInv, RowsInv
<1>4. PlanInv'
  BY NextPlan DEF IInv
<1>5. SumInv' /\ CountInv'
  BY NextSum, NextCount DEF IInv
<1>6. HeldIsFlagged'
  BY NextFlagged DEF IInv
<1>7. ScoreFollowsRollup' /\ SerialConsistent'
  BY NextScore, NextSerial DEF IInv
<1>8. QED
  BY <1>1, <1>2, <1>3, <1>4, <1>5, <1>6, <1>7 DEF IInv

\* The invariant holds of every state the calls reach.
THEOREM Invariance == Spec => []IInv
<1>1. Init => IInv
  BY InitIInv
<1>2. IInv /\ [Next]_vars => IInv'
  BY NextIInv
<1>3. QED
  BY <1>1, <1>2, PTL DEF Spec

\* The tables and the transactions keep their types.
THEOREM TypeCorrectness == Spec => []TypeOK
<1>1. IInv => TypeOK
  BY DEF IInv
<1>2. QED
  BY <1>1, Invariance, PTL

\* A review evaluate holds has a flag for each reason, whatever updates overlapped.
THEOREM HeldReviewsAreFlagged == Spec => []HeldIsFlagged
<1>1. IInv => HeldIsFlagged
  BY DEF IInv
<1>2. QED
  BY <1>1, Invariance, PTL

\* Reviews create one trust seed at most, however many first reviews overlap.
THEOREM SingleReviewSeed == Spec => []OneReviewSeed
<1>1. IInv => OneReviewSeed
  BY DEF IInv
<1>2. QED
  BY <1>1, Invariance, PTL

\* The trust score follows the rollup until an admin changes the seeds.
THEOREM ScoreIsRollups == Spec => []ScoreFollowsRollup
<1>1. IInv => ScoreFollowsRollup
  BY DEF IInv
<1>2. QED
  BY <1>1, Invariance, PTL

\* Calls that do not overlap leave rollup and score consistent with the tables.
THEOREM SerialConsistency == Spec => []SerialConsistent
<1>1. IInv => SerialConsistent
  BY DEF IInv
<1>2. QED
  BY <1>1, Invariance, PTL

\* The locks are taken in one order, the review before the rollup, so whoever is waited
\* for waits for fewer: the holder of a review for the rollup at most, its holder for
\* nobody.
LEMMA LockOrder == WaitsGoForward
<1> USE DEF Open, HoldsReview, HoldsRollup
<1>1. ASSUME NEW t \in Txns, NEW u \in Txns, WaitsFor(t, u)
      PROVE  Place(pc[t]) < Place(pc[u])
  BY <1>1 DEF WaitsFor, Place
<1>2. ASSUME NEW t \in Txns, pc[t] \in Open
      PROVE  \E v \in Txns : pc[v] \in Open /\ \A u \in Txns : ~WaitsFor(v, u)
  <2>1. CASE \E v \in Txns : pc[v] \in HoldsRollup
    BY <2>1 DEF WaitsFor
  <2>2. CASE ~ \E v \in Txns : pc[v] \in HoldsRollup
    <3>1. CASE \E v \in Txns : pc[v] \in HoldsReview
      BY <2>2, <3>1 DEF WaitsFor
    <3>2. CASE ~ \E v \in Txns : pc[v] \in HoldsReview
      BY <1>2, <2>2, <3>2 DEF WaitsFor
    <3>3. QED
      BY <3>1, <3>2
  <2>3. QED
    BY <2>1, <2>2
<1>3. QED
  BY <1>1, <1>2 DEF WaitsGoForward

\* Transactions of reviews never wait in a circle.
THEOREM NobodyWaitsInACircle == Spec => []WaitsGoForward
BY LockOrder, PTL

\* While transactions are open, one of them needs no lock that another holds.
THEOREM SomeTransactionGoesOn == Spec => []NoCircularWait
<1>1. ASSUME NEW t \in Txns, pc[t] \in Open, \A u \in Txns : ~WaitsFor(t, u)
      PROVE  CanGoOn(t)
  BY <1>1 DEF CanGoOn, WaitsFor, ReviewFree, RollupFree
<1>2. NoCircularWait
  BY <1>1, LockOrder DEF NoCircularWait, WaitsGoForward
<1>3. QED
  BY <1>2, PTL

\* An open transaction makes its statements in order, each once and none while it waits,
\* so with fairness it ends.
THEOREM TransactionsGoForward == Spec => [][StepsGoForward]_vars
<1>1. ASSUME IInv, Next PROVE StepsGoForward
  <2> SUFFICES ASSUME NEW t \in Txns, pc[t] \in Open, pc'[t] # pc[t]
               PROVE  /\ Place(pc[t]) < Place(pc'[t])
                      /\ pc'[t] # "done" => \A u \in Txns : ~WaitsFor(t, u)
    BY DEF StepsGoForward
  <2> TypeOK
    BY <1>1 DEF IInv
  <2> USE DEF TypeOK, Open, HoldsReview, HoldsRollup
  <2>1. CASE DropFlags(t)
    BY <2>1 DEF DropFlags, Place, WaitsFor
  <2>2. CASE WriteReview(t)
    BY <2>2 DEF WriteReview, ReviewFree, Place, WaitsFor
  <2>3. CASE CountReviews(t)
    BY <2>3 DEF CountReviews, Place, WaitsFor
  <2>4. CASE Upsert(t)
    BY <2>4 DEF Upsert, RollupFree, Place, WaitsFor
  <2>5. CASE FindSeed(t) \/ ReplaceSeed(t) \/ SumSeeds(t)
    BY <2>5 DEF FindSeed, ReplaceSeed, SumSeeds, Place, WaitsFor
  <2>6. CASE Commit(t) \/ Rollback(t) \/ MustFail(t)
    BY <2>6 DEF Commit, MustFail, Rollback, End, Place
  <2>7. ASSUME NEW u \in Txns, u # t, (\E c \in Calls : Start(u, c)) \/ TxnStep(u) \/ Rollback(u)
        PROVE  pc'[t] = pc[t]
    BY <2>7 DEF Start, TxnStep, DropFlags, WriteReview, CountReviews, Upsert, FindSeed,
       ReplaceSeed, SumSeeds, Commit, MustFail, Rollback, End
  <2>8. ASSUME NEW c \in Calls, Start(t, c) PROVE FALSE
    BY <2>8 DEF Start
  <2>9. ASSUME NEW a \in Admins,
               \/ \E l \in Labels : CreateTrustSeed(a, l)
               \/ \E s \in seeds : DeleteTrustSeed(a, s)
               \/ AdminStep(a) \/ AdminFail(a)
        PROVE  pc'[t] = pc[t]
    BY <2>9 DEF CreateTrustSeed, DeleteTrustSeed, AdminStep, AdminSum, AdminWrite, AdminFail, txn
  <2>10. QED
    BY <1>1, <2>1, <2>2, <2>3, <2>4, <2>5, <2>6, <2>7, <2>8, <2>9 DEF Next, TxnStep
<1>2. QED
  BY <1>1, Invariance, PTL DEF Spec
================================================================================
