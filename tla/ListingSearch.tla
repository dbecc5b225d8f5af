----------------------------- MODULE ListingSearch -----------------------------
(***************************************************************************)
(* ListingSearchService over the Listing rows and the CacheService in      *)
(* front of them (apps/backend/src/modules/listings, src/common).          *)
(*                                                                         *)
(* A search reads the cache, counts, finds a page, reads the rows of the   *)
(* page if there is a keyword, and stores the answer.  The two statements  *)
(* of its transaction see what is committed when each begins, so listings  *)
(* may change between any two steps.  A call that has ended may be made    *)
(* again.  Time passes in ticks.                                            *)
(***************************************************************************)
EXTENDS Integers, FiniteSets, Sequences, SequencesExt

CONSTANTS
    Listings, Calls,
    Rows,       \* what a listing may be written as
    Tables,     \* the listings there are at the start
    Asks,       \* the parameters of a search
    Operators,  \* keywords that to_tsquery does not parse
    PAGE_SIZE, CACHE_TTL,
    MAX_WRITES  \* how often the listings change

Omitted == "any"    \* a parameter left out
NoBound == -1   \* a price or a date left out
Unsaved == [deleted |-> TRUE]

\* What a search reads of a listing; a title is known by its place in the alphabet
Row == [deleted : BOOLEAN, status : STRING, moderationStatus : STRING, sellerId : STRING,
        priceCents : Int, title : Int, createdAt : Int,
        words : SUBSET STRING, tags : SUBSET STRING, categories : SUBSET STRING]
Table == [Listings -> Row \cup {Unsaved}]

ASSUME RowsAssumption == Rows \subseteq {r \in Row : ~r.deleted} /\ Tables \subseteq Table
ASSUME SizesAssumption ==
    /\ IsFiniteSet(Listings) /\ Asks # {}
    /\ \A a \in Asks : a.page \in Nat \ {0}
    /\ PAGE_SIZE \in Nat \ {0} /\ CACHE_TTL \in Nat /\ MAX_WRITES \in Nat

VARIABLES
    history,    \* every state of the Listing table, oldest first
    cache,      \* the answer stored under each key, and its age
    pc, ask,    \* a call, and where it is
    total, ids, \* what it has counted and found
    answer,
    from        \* the state of the table it began to read

db == history[Len(history)]
call == <<pc, ask, total, ids, from, answer>>
vars == <<history, cache, call>>

NoAnswer == [data |-> <<>>, total |-> 0, page |-> 0, pageCount |-> 0, from |-> 1, to |-> 1]
NoEntry == [answer |-> NoAnswer, age |-> CACHE_TTL]
NoAsk == CHOOSE a \in Asks : TRUE

--------------------------------------------------------------------------------
(* Which listings, in what order                                           *)

Within(x, low, high) == (low # NoBound => x >= low) /\ (high # NoBound => x <= high)

\* tags and categories by any assignment
Asked(a, row) ==
    /\ a.status \in {Omitted, row.status}
    /\ a.moderationStatus \in {Omitted, row.moderationStatus}
    /\ a.sellerIds # {} => row.sellerId \in a.sellerIds
    /\ Within(row.priceCents, a.minPriceCents, a.maxPriceCents)
    /\ Within(row.createdAt, a.createdAfter, a.createdBefore)
    /\ a.tags # {} => row.tags \cap a.tags # {}
    /\ a.categories # {} => row.categories \cap a.categories # {}
\* mutant: deleted listings are still found
WhereWithDeleted(a, row) == row # Unsaved /\ Asked(a, row)
Where(a, row) == ~row.deleted /\ Asked(a, row)

\* buildSqlConditions filters the rows that the listing is joined to, so that only
\* the labels asked for are left to be aggregated
Joined(labels, asked) == IF asked = {} THEN labels ELSE labels \cap asked
Document(a, row) == row.words \cup Joined(row.tags, a.tags) \cup Joined(row.categories, a.categories)
\* The same filter written once more in SQL
SqlConditions(a, row) == Where(a, row)
Matches(a, row) ==
    IF a.keyword = Omitted THEN Where(a, row)
    ELSE SqlConditions(a, row) /\ a.keyword \in Document(a, row)

\* Words of the listing itself weigh more than its labels
Rank(a, row) == IF a.keyword = Omitted THEN 0 ELSE IF a.keyword \in row.words THEN 2 ELSE 1
\* buildPrismaOrder, or buildOrderByClause after the rank
SortKey(a, row) ==
    CASE a.sort = "price_asc"  -> <<-Rank(a, row), row.priceCents, -row.createdAt>>
      [] a.sort = "price_desc" -> <<-Rank(a, row), -row.priceCents, -row.createdAt>>
      [] a.sort = "date_old"   -> <<-Rank(a, row), row.createdAt, 0>>
      [] a.sort = "title"      -> <<-Rank(a, row), row.title, IF a.keyword = Omitted THEN -row.createdAt ELSE 0>>
      [] OTHER                 -> <<-Rank(a, row), -row.createdAt, 0>>
Less(s, t) == \E i \in 1..3 : s[i] < t[i] /\ \A j \in 1..(i - 1) : s[j] = t[j]
Before(a, rows, l, m) == Less(SortKey(a, rows[l]), SortKey(a, rows[m]))

Matching(a, rows) == {l \in Listings : Matches(a, rows[l])}
\* Every order the database may return them in: ties are its own choice
Sorted(a, rows) ==
    {s \in SetToSeqs(Matching(a, rows)) :
        \A i, j \in DOMAIN s : i < j => ~Before(a, rows, s[j], s[i])}
Offset(a) == (a.page - 1) * PAGE_SIZE
Page(a, s) == SubSeq(s, Offset(a) + 1, Min({Offset(a) + PAGE_SIZE, Len(s)}))
\* Math.ceil
PageCount(n) == (n + PAGE_SIZE - 1) \div PAGE_SIZE

--------------------------------------------------------------------------------
(* ListingsService changes a listing                                       *)

Init ==
    /\ \E rows \in Tables : history = <<rows>>
    /\ cache = [a \in Asks |-> NoEntry]
    /\ pc = [c \in Calls |-> "idle"]
    /\ ask = [c \in Calls |-> NoAsk]
    /\ total = [c \in Calls |-> 0]
    /\ ids = [c \in Calls |-> <<>>]
    /\ answer = [c \in Calls |-> NoAnswer]
    /\ from = [c \in Calls |-> 1]

Commit(l, row) ==
    /\ Len(history) <= MAX_WRITES
    /\ history' = Append(history, [db EXCEPT ![l] = row])
    /\ UNCHANGED <<cache, call>>

Create(l) ==
    /\ db[l] = Unsaved
    /\ \E r \in Rows, t \in 0..Len(history) :
          /\ \A m \in Listings : db[m] # Unsaved => db[m].createdAt <= t
          /\ Commit(l, [r EXCEPT !.createdAt = t])

\* A seller's update, or a moderation decision
Update(l) ==
    /\ ~db[l].deleted
    /\ \E r \in Rows :
          /\ r.sellerId = db[l].sellerId /\ r.tags = db[l].tags /\ r.categories = db[l].categories
          /\ Commit(l, [r EXCEPT !.createdAt = db[l].createdAt])

SoftDelete(l) == ~db[l].deleted /\ Commit(l, [db[l] EXCEPT !.deleted = TRUE])

--------------------------------------------------------------------------------
(* CacheService                                                            *)

\* mutant: the page is left out of the key
BuildCacheKeyOfFilter(a) == [a EXCEPT !.page = 1]
BuildCacheKey(a) == a
\* mutant: an entry never expires
AgedInVain(e) == e
\* get deletes an entry past its time when it is asked for; it answers nobody until then
Aged(e) == IF e.age >= CACHE_TTL THEN NoEntry ELSE [e EXCEPT !.age = @ + 1]

Tick ==
    /\ cache' = [k \in Asks |-> Aged(cache[k])]
    /\ UNCHANGED <<history, call>>

--------------------------------------------------------------------------------
(* search                                                                  *)

Goto(c, label) == pc' = [pc EXCEPT ![c] = label]

Hit(c, a) ==
    /\ pc[c] = "idle" /\ cache[BuildCacheKey(a)] # NoEntry
    /\ answer' = [answer EXCEPT ![c] = cache[BuildCacheKey(a)].answer]
    /\ ask' = [ask EXCEPT ![c] = a]
    /\ Goto(c, "answer")
    /\ UNCHANGED <<history, cache, total, ids, from>>

\* Bounds the wrong way round are refused, and nothing changes.  The bounds come as
\* texts, which are in another order than the numbers: any pair may pass, and what the
\* database then makes of it is an answer or a failure
Miss(c, a) ==
    /\ pc[c] = "idle" /\ cache[BuildCacheKey(a)] = NoEntry
    /\ ask' = [ask EXCEPT ![c] = a]
    /\ Goto(c, "count")
    /\ UNCHANGED <<history, cache, total, ids, from, answer>>

Count(c) ==
    /\ pc[c] = "count" /\ ask[c].keyword \notin Operators
    /\ total' = [total EXCEPT ![c] = Cardinality(Matching(ask[c], db))]
    /\ from' = [from EXCEPT ![c] = Len(history)]
    /\ Goto(c, "find")
    /\ UNCHANGED <<history, cache, ask, ids, answer>>

\* The rows are those of the moment; the answer is stored and returned
Respond(c, page) ==
    LET a == [data |-> [i \in DOMAIN page |-> [id |-> page[i], row |-> db[page[i]]]],
              total |-> total[c], page |-> ask[c].page, pageCount |-> PageCount(total[c]),
              from |-> from[c], to |-> Len(history)]
    IN  /\ cache' = [cache EXCEPT ![BuildCacheKey(ask[c])] = [answer |-> a, age |-> 0]]
        /\ answer' = [answer EXCEPT ![c] = a]
        /\ Goto(c, "answer")
        /\ UNCHANGED <<history, ask, total, from>>

\* With a keyword only the ids of the page are found
Find(c) ==
    /\ pc[c] = "find"
    /\ \E s \in Sorted(ask[c], db) :
          LET page == Page(ask[c], s)
          IN  \/ /\ ask[c].keyword = Omitted \/ page = <<>>
                 /\ Respond(c, page)
                 /\ UNCHANGED ids
              \/ /\ ask[c].keyword # Omitted /\ page # <<>>
                 /\ ids' = [ids EXCEPT ![c] = page]
                 /\ Goto(c, "load")
                 /\ UNCHANGED <<history, cache, ask, total, from, answer>>

\* The rows are read by id, whether or not they still match
Load(c) == pc[c] = "load" /\ Respond(c, ids[c]) /\ UNCHANGED ids

\* What a call knew is forgotten
Forget(c) ==
    /\ Goto(c, "idle")
    /\ ask' = [ask EXCEPT ![c] = NoAsk]
    /\ total' = [total EXCEPT ![c] = 0]
    /\ ids' = [ids EXCEPT ![c] = <<>>]
    /\ from' = [from EXCEPT ![c] = 1]
    /\ answer' = [answer EXCEPT ![c] = NoAnswer]
    /\ UNCHANGED <<history, cache>>
Deliver(c) == pc[c] = "answer" /\ Forget(c)
Fail(c) == pc[c] \in {"count", "find", "load"} /\ Forget(c)

--------------------------------------------------------------------------------

Step(c) == Count(c) \/ Find(c) \/ Load(c) \/ Deliver(c) \/ Fail(c)
Next ==
    \/ \E l \in Listings : Create(l) \/ Update(l) \/ SoftDelete(l)
    \/ Tick
    \/ \E c \in Calls, a \in Asks : Hit(c, a) \/ Miss(c, a)
    \/ \E c \in Calls : Step(c)
Spec == Init /\ [][Next]_vars
\* Time passes, and a statement ends or fails
FairSpec == Spec /\ WF_vars(Tick) /\ \A c \in Calls : WF_vars(Step(c))
================================================================================
