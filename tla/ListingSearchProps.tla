--------------------------- MODULE ListingSearchProps ---------------------------
(***************************************************************************)
(* What ListingSearch promises of its answers.                             *)
(***************************************************************************)
EXTENDS ListingSearch

Answer == [data : Seq([id : Listings, row : Row]), total : Nat, page : Nat, pageCount : Nat,
           from : Nat, to : Nat]
IsAnswer(h, a) ==
    /\ a \in Answer /\ Len(a.data) <= PAGE_SIZE
    /\ 1 <= a.from /\ a.from <= a.to /\ a.to <= Len(h)

\* An answer is a page of the rows of some listings
TypeOK ==
    /\ history \in Seq(Table) /\ Len(history) \in 1..(MAX_WRITES + 1)
    /\ cache \in [Asks -> [answer : Answer, age : 0..CACHE_TTL]]
    /\ \A k \in Asks : IsAnswer(history, cache[k].answer)
    /\ pc \in [Calls -> {"idle", "count", "find", "load", "answer"}]
    /\ ask \in [Calls -> Asks]
    /\ total \in [Calls -> Nat]
    /\ ids \in [Calls -> Seq(Listings)]
    /\ answer \in [Calls -> Answer]
    /\ \A c \in Calls : IsAnswer(history, answer[c])
    /\ from \in [Calls -> 1..Len(history)]

Answered == {c \in Calls : pc[c] = "answer"}

WasThere(h, q, a) ==
    /\ \A i \in DOMAIN a.data :
          \E v, w \in a.from..a.to :
              LET l == a.data[i].id
                  was == h[v][l]
              IN  /\ ~was.deleted
                  /\ Within(was.priceCents, q.minPriceCents, q.maxPriceCents)
                  /\ a.data[i].row = h[w][l]
                  /\ v <= w /\ (q.keyword = Omitted => v = w)
    /\ a.page < a.pageCount =>
          \E v \in a.from..a.to : Cardinality(Matching(q, h[v])) > a.page * PAGE_SIZE

\* Each listing shown was on the market, at a price asked for, while the answer was
\* computed, and is shown as it was then or, with a keyword, as it was a little
\* later; a cached answer shows nothing else.  A next page, which the explorer offers
\* while page < pageCount, had a listing on it at some moment of that time.
ShownWasThere == \A c \in Answered : WasThere(history, ask[c], answer[c])

\* The matching listings before one, and whether no two of them tie
Ahead(q, rows, l) == {m \in Matching(q, rows) : Before(q, rows, m, l)}
NoTies(q, rows) ==
    \A l, m \in Matching(q, rows) : l # m => l \in Ahead(q, rows, m) \/ m \in Ahead(q, rows, l)

IsExact(h, q, a) ==
    a.from = a.to /\ NoTies(q, h[a.to]) =>
        /\ {a.data[i].id : i \in DOMAIN a.data}
             = {l \in Matching(q, h[a.to]) : Cardinality(Ahead(q, h[a.to], l)) \div PAGE_SIZE + 1 = q.page}
        /\ a.total = Cardinality(Matching(q, h[a.to]))

\* If nothing changed while an answer was computed and no two listings tie, it shows
\* exactly the matching listings with the right number of others before them: pages of
\* one state of the table share no listing and miss none.
QuietAnswersAreExact == \A c \in Answered : IsExact(history, ask[c], answer[c])

\* Once the listings stop changing, an outdated answer is not served for ever: no search
\* keeps storing it and no entry outlives its time.
Converges == <>[](\A c \in Answered : answer[c].from = Len(history))

\* An entry that began before the last change, and a search that did
Outdated(k) == cache[k] # NoEntry /\ cache[k].answer.from < Len(history)
Behind(c) == pc[c] \in {"find", "load"} /\ from[c] < Len(history)

\* Why it is not: while the listings stay as they are no search falls behind, no entry
\* becomes outdated but by one that was behind and now is not, and none is made younger.
OutdatedRunsOut ==
    [][history' = history =>
          /\ \A c \in Calls : Behind(c)' => Behind(c)
          /\ \A k \in Asks : Outdated(k)' =>
                \/ \E c \in Calls : Behind(c) /\ ~Behind(c)' /\ ask[c] = k
                \/ /\ Outdated(k) /\ cache'[k].answer = cache[k].answer
                   /\ cache'[k].age = cache[k].age + (IF Tick THEN 1 ELSE 0)]_vars

--------------------------------------------------------------------------------
(* The invariant these rest on                                             *)

\* A listing that has been created stays in the table, be it as deleted
SavedInv ==
    \A v, w \in DOMAIN history : \A l \in Listings :
        v <= w /\ history[v][l] # Unsaved => history[w][l] # Unsaved

\* Every entry answers its key
CacheInv ==
    \A k \in Asks : cache[k] # NoEntry =>
        WasThere(history, k, cache[k].answer) /\ IsExact(history, k, cache[k].answer)

\* What a call has counted and found is of some moment since it began to read
IsPage(q, rows, page) == \E s \in Sorted(q, rows) : page = Page(q, s)
CallInv ==
    \A c \in Calls :
        /\ pc[c] \in {"find", "load"} => total[c] = Cardinality(Matching(ask[c], history[from[c]]))
        /\ pc[c] = "load" =>
              /\ ask[c].keyword # Omitted
              /\ \E v \in from[c]..Len(history) : IsPage(ask[c], history[v], ids[c])

SearchInv == TypeOK /\ SavedInv /\ CacheInv /\ CallInv /\ ShownWasThere /\ QuietAnswersAreExact
================================================================================
