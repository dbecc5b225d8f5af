-------------------------- MODULE ListingSearchProofs --------------------------
(***************************************************************************)
(* What ListingSearch promises of its answers, for every set of listings,  *)
(* searches and calls, any page size and any time to live.                 *)
(***************************************************************************)
EXTENDS ListingSearchProps, FiniteSetTheorems, SequenceTheorems, TLAPS

\* What Math.ceil and the floor of a place in the order come to.
LEMMA Quotient ==
    ASSUME NEW n \in Nat, NEW p \in Nat \ {0}
    PROVE  /\ n \div p \in Nat
           /\ (n \div p) * p <= n /\ n < (n \div p) * p + p
  BY SMT

\* The quotient is the page a place in the order falls on.
LEMMA QuotientIs ==
    ASSUME NEW n \in Nat, NEW p \in Nat \ {0}, NEW q \in Nat
    PROVE  n \div p = q <=> q * p <= n /\ n < q * p + p
  BY Quotient, SMT

\* A row that is found is a row that is there, in the price range asked for.
LEMMA Found ==
    ASSUME NEW q, NEW rows \in Table, NEW l \in Matching(q, rows)
    PROVE  /\ l \in Listings /\ rows[l] \in Row /\ ~rows[l].deleted
           /\ Within(rows[l].priceCents, q.minPriceCents, q.maxPriceCents)
<1>1. l \in Listings /\ Where(q, rows[l])
  BY DEF Matching, Matches, SqlConditions
<1>2. QED
  BY <1>1 DEF Where, Asked, Table, Unsaved

\* A search finds finitely many.
LEMMA FiniteMatching ==
    ASSUME NEW q, NEW rows
    PROVE  IsFiniteSet(Matching(q, rows)) /\ Cardinality(Matching(q, rows)) \in Nat
  BY SizesAssumption, FS_Subset, FS_CardinalityType DEF Matching

\* Sort keys are compared number by number, so that nothing comes before itself.
LEMMA Irreflexive ==
    ASSUME NEW q, NEW rows \in Table, NEW l \in Matching(q, rows)
    PROVE  ~Before(q, rows, l, l)
<1>1. rows[l] \in Row
  BY Found
<1>2. Rank(q, rows[l]) \in Int
  BY DEF Rank
<1>3. SortKey(q, rows[l]) \in Int \X Int \X Int
  BY <1>1, <1>2 DEF SortKey, Row
<1>4. \A s \in Int \X Int \X Int : ~Less(s, s)
  BY DEF Less
<1>5. QED
  BY <1>3, <1>4 DEF Before

\* A result lists every matching listing, each once.
LEMMA Listed ==
    ASSUME NEW q, NEW rows, NEW s \in Sorted(q, rows)
    PROVE  /\ s \in Seq(Listings) /\ Len(s) = Cardinality(Matching(q, rows))
           /\ DOMAIN s = 1..Len(s)
           /\ {s[i] : i \in DOMAIN s} = Matching(q, rows)
           /\ \A i, j \in DOMAIN s : i # j => s[i] # s[j]
<1> DEFINE S == Matching(q, rows)
           n == Cardinality(S)
<1>1. IsFiniteSet(S) /\ n \in Nat /\ S \subseteq Listings
  BY FiniteMatching DEF Matching
<1>2. s \in [1..n -> S] /\ \A i, j \in 1..n : i # j => s[i] # s[j]
  BY DEF Sorted, SetToSeqs
<1>3. s \in Injection(1..n, S)
  BY <1>2 DEF Injection, IsInjective
<1>4. Cardinality(1..n) = n
  BY <1>1, FS_Interval
<1>5. s \in Surjection(1..n, S)
  BY <1>1, <1>3, <1>4, FS_Injection
<1>6. {s[i] : i \in 1..n} = S
  BY <1>2, <1>5 DEF Surjection
<1> HIDE DEF S, n
<1>7. s \in Seq(S) /\ Len(s) = n /\ DOMAIN s = 1..n
  BY <1>1, <1>2
<1>8. s \in Seq(Listings)
  BY <1>1, <1>7
<1>9. QED
  BY <1>2, <1>6, <1>7, <1>8 DEF S, n

\* If no two tie, a listing has as many before it as its place in the result says.
LEMMA Place ==
    ASSUME NEW q, NEW rows \in Table, NoTies(q, rows), NEW s \in Sorted(q, rows), NEW i \in DOMAIN s
    PROVE  Cardinality(Ahead(q, rows, s[i])) = i - 1
<1> DEFINE T == Ahead(q, rows, s[i])
<1>1. /\ DOMAIN s = 1..Len(s) /\ Len(s) \in Nat
      /\ \A j \in DOMAIN s : s[j] \in Matching(q, rows)
      /\ \A l \in Matching(q, rows) : \E j \in DOMAIN s : l = s[j]
      /\ \A j, k \in DOMAIN s : j # k => s[j] # s[k]
  BY Listed, FiniteMatching
<1>2. \A j, k \in DOMAIN s : j < k => ~Before(q, rows, s[k], s[j])
  BY DEF Sorted
<1>3. \A j \in DOMAIN s : j < i => s[j] \in T
  <2> SUFFICES ASSUME NEW j \in DOMAIN s, j < i PROVE s[j] \in T
    OBVIOUS
  <2>1. s[j] # s[i] /\ ~Before(q, rows, s[i], s[j])
    BY <1>1, <1>2
  <2>2. s[j] \in Ahead(q, rows, s[i]) \/ s[i] \in Ahead(q, rows, s[j])
    BY <1>1, <2>1 DEF NoTies
  <2>3. QED
    BY <2>1, <2>2 DEF Ahead
<1>4. \A l \in T : \E j \in 1..(i - 1) : l = s[j]
  <2> SUFFICES ASSUME NEW l \in T PROVE \E j \in 1..(i - 1) : l = s[j]
    OBVIOUS
  <2>1. l \in Matching(q, rows) /\ Before(q, rows, l, s[i])
    BY DEF Ahead
  <2>2. PICK j \in DOMAIN s : l = s[j]
    BY <1>1, <2>1
  <2>3. j # i
    BY <2>1, <2>2, Irreflexive
  <2>4. ~(i < j)
    BY <1>2, <2>1, <2>2
  <2>5. QED
    BY <1>1, <2>2, <2>3, <2>4
<1> DEFINE f == [j \in 1..(i - 1) |-> s[j]]
<1> HIDE DEF T
<1>5. f \in [1..(i - 1) -> T]
  BY <1>1, <1>3
<1>6. f \in Injection(1..(i - 1), T)
  <2>1. \A j, k \in 1..(i - 1) : f[j] = f[k] => j = k
    BY <1>1
  <2>2. QED
    BY <1>5, <2>1 DEF Injection, IsInjective
<1>7. f \in Surjection(1..(i - 1), T)
  <2>1. \A l \in T : \E j \in 1..(i - 1) : f[j] = l
    BY <1>4
  <2>2. QED
    BY <1>5, <2>1 DEF Surjection
<1>8. i - 1 \in Nat /\ Cardinality(1..(i - 1)) = i - 1 /\ IsFiniteSet(1..(i - 1))
  <2>1. i \in 1..Len(s) /\ Len(s) \in Nat
    BY <1>1
  <2>2. i - 1 \in Nat /\ 1 \in Int /\ i - 1 \in Int
    BY <2>1
  <2>3. IsFiniteSet(1..(i - 1)) /\ Cardinality(1..(i - 1)) = IF 1 > i - 1 THEN 0 ELSE (i - 1) - 1 + 1
    BY <2>2, FS_Interval
  <2>4. QED
    BY <2>2, <2>3
<1> HIDE DEF f
<1>9. Cardinality(T) = i - 1
  BY <1>6, <1>7, <1>8, FS_Surjection
<1>10. QED
  BY <1>9 DEF T

\* A page is the part of a result from its offset on, and no longer than it should be.
LEMMA PageIsPart ==
    ASSUME NEW q, q.page \in Nat \ {0}, NEW s \in Seq(Listings)
    PROVE  /\ Offset(q) \in Nat
           /\ Page(q, s) \in Seq(Listings)
           /\ Len(Page(q, s)) <= PAGE_SIZE
           /\ \A i \in DOMAIN Page(q, s) :
                 /\ Offset(q) + i \in DOMAIN s /\ i \in 1..PAGE_SIZE
                 /\ Page(q, s)[i] = s[Offset(q) + i]
           /\ \A k \in DOMAIN s :
                 k > Offset(q) /\ k <= Offset(q) + PAGE_SIZE =>
                     k - Offset(q) \in DOMAIN Page(q, s)
<1> DEFINE o == Offset(q)
           m == Min({o + PAGE_SIZE, Len(s)})
           page == Page(q, s)
<1>1. o \in Nat /\ PAGE_SIZE \in Nat \ {0}
  BY SizesAssumption DEF Offset
<1>2. Len(s) \in Nat /\ DOMAIN s = 1..Len(s)
  OBVIOUS
<1>3. /\ m \in Int /\ m <= o + PAGE_SIZE /\ m <= Len(s)
      /\ \A k \in Int : k <= o + PAGE_SIZE /\ k <= Len(s) => k <= m
  <2>1. \E x \in {o + PAGE_SIZE, Len(s)} : \A y \in {o + PAGE_SIZE, Len(s)} : x <= y
    BY <1>1, <1>2
  <2>2. m \in {o + PAGE_SIZE, Len(s)} /\ \A y \in {o + PAGE_SIZE, Len(s)} : m <= y
    BY <2>1 DEF Min
  <2> HIDE DEF m, o
  <2>3. m = o + PAGE_SIZE \/ m = Len(s)
    BY <2>2
  <2>4. m <= o + PAGE_SIZE /\ m <= Len(s)
    BY <2>2
  <2>5. QED
    BY <1>1, <1>2, <2>3, <2>4
<1>4. page = SubSeq(s, o + 1, m)
  BY DEF Page
<1> HIDE DEF o, m, page
<1>5. \A i \in (o + 1)..m : s[i] \in Listings
  BY <1>1, <1>2, <1>3
<1>6. /\ page \in Seq(Listings)
      /\ Len(page) = IF o + 1 <= m THEN m - o ELSE 0
      /\ \A i \in 1..(m - o) : page[i] = s[o + i]
  <2>1. o + 1 \in Int
    BY <1>1
  <2>2. /\ SubSeq(s, o + 1, m) \in Seq(Listings)
        /\ Len(SubSeq(s, o + 1, m)) = IF o + 1 <= m THEN m - (o + 1) + 1 ELSE 0
        /\ \A i \in 1..(m - (o + 1) + 1) : SubSeq(s, o + 1, m)[i] = s[(o + 1) + i - 1]
    BY <1>3, <1>5, <2>1, SubSeqProperties
  <2>3. m - (o + 1) + 1 = m - o /\ \A i \in 1..(m - o) : (o + 1) + i - 1 = o + i
    BY <1>1, <1>3
  <2>4. QED
    BY <1>4, <2>2, <2>3
<1>7. DOMAIN page = 1..Len(page)
  BY <1>6
<1>8. \A i \in DOMAIN page : o + i \in DOMAIN s /\ i \in 1..PAGE_SIZE /\ page[i] = s[o + i]
  BY <1>1, <1>2, <1>3, <1>6, <1>7
<1>9. \A k \in DOMAIN s : k > o /\ k <= o + PAGE_SIZE => k - o \in DOMAIN page
  BY <1>1, <1>2, <1>3, <1>6, <1>7
<1>10. Len(page) <= PAGE_SIZE
  BY <1>1, <1>3, <1>6
<1>11. QED
  BY <1>1, <1>6, <1>8, <1>9, <1>10 DEF o, page

\* If no two tie, a page shows the listings with the right number of others before them.
LEMMA PageIsExact ==
    ASSUME NEW q, q.page \in Nat \ {0}, NEW rows \in Table, NoTies(q, rows), NEW s \in Sorted(q, rows)
    PROVE  {Page(q, s)[i] : i \in DOMAIN Page(q, s)}
             = {l \in Matching(q, rows) : Cardinality(Ahead(q, rows, l)) \div PAGE_SIZE + 1 = q.page}
<1> DEFINE o == Offset(q)
           page == Page(q, s)
           M == Matching(q, rows)
<1>1. /\ s \in Seq(Listings) /\ DOMAIN s = 1..Len(s) /\ Len(s) \in Nat
      /\ {s[k] : k \in DOMAIN s} = M
  BY Listed, FiniteMatching
<1>2. /\ o \in Nat
      /\ \A i \in DOMAIN page : o + i \in DOMAIN s /\ i \in 1..PAGE_SIZE /\ page[i] = s[o + i]
      /\ \A k \in DOMAIN s : k > o /\ k <= o + PAGE_SIZE => k - o \in DOMAIN page
  BY <1>1, PageIsPart
<1>3. DOMAIN page \subseteq Int
  BY <1>2
<1>4. \A k \in DOMAIN s :
          Cardinality(Ahead(q, rows, s[k])) \div PAGE_SIZE + 1 = q.page
            <=> k > o /\ k <= o + PAGE_SIZE
  <2> SUFFICES ASSUME NEW k \in DOMAIN s
      PROVE  Cardinality(Ahead(q, rows, s[k])) \div PAGE_SIZE + 1 = q.page
               <=> k > o /\ k <= o + PAGE_SIZE
    OBVIOUS
  <2>1. Cardinality(Ahead(q, rows, s[k])) = k - 1 /\ k - 1 \in Nat
    BY <1>1, Place
  <2>2. PAGE_SIZE \in Nat \ {0} /\ q.page - 1 \in Nat
    BY SizesAssumption
  <2>3. (k - 1) \div PAGE_SIZE = q.page - 1
          <=> (q.page - 1) * PAGE_SIZE <= k - 1 /\ k - 1 < (q.page - 1) * PAGE_SIZE + PAGE_SIZE
    BY <2>1, <2>2, QuotientIs
  <2>4. (k - 1) \div PAGE_SIZE \in Nat
    BY <2>1, <2>2, Quotient
  <2>5. o = (q.page - 1) * PAGE_SIZE
    BY DEF Offset
  <2> HIDE DEF o
  <2>6. (k - 1) \div PAGE_SIZE = q.page - 1 <=> k > o /\ k <= o + PAGE_SIZE
    BY <1>1, <1>2, <2>2, <2>3, <2>5
  <2>7. QED
    BY <2>1, <2>2, <2>4, <2>6
<1> HIDE DEF o, page
<1>5. \A i \in DOMAIN page : \E k \in DOMAIN s : k > o /\ k <= o + PAGE_SIZE /\ page[i] = s[k]
  BY <1>2, SizesAssumption
<1>6. \A k \in DOMAIN s : k > o /\ k <= o + PAGE_SIZE => \E i \in DOMAIN page : page[i] = s[k]
  <2> SUFFICES ASSUME NEW k \in DOMAIN s, k > o, k <= o + PAGE_SIZE
      PROVE  \E i \in DOMAIN page : page[i] = s[k]
    OBVIOUS
  <2>1. k - o \in DOMAIN page /\ o + (k - o) = k
    BY <1>1, <1>2
  <2>2. QED
    BY <1>2, <2>1
<1>7. {page[i] : i \in DOMAIN page} = {l \in M : Cardinality(Ahead(q, rows, l)) \div PAGE_SIZE + 1 = q.page}
  <2>1. ASSUME NEW i \in DOMAIN page
        PROVE  page[i] \in M /\ Cardinality(Ahead(q, rows, page[i])) \div PAGE_SIZE + 1 = q.page
    BY <1>1, <1>4, <1>5
  <2>2. ASSUME NEW l \in M, Cardinality(Ahead(q, rows, l)) \div PAGE_SIZE + 1 = q.page
        PROVE  \E i \in DOMAIN page : page[i] = l
    <3>1. PICK k \in DOMAIN s : l = s[k]
      BY <1>1
    <3>2. QED
      BY <1>4, <1>6, <2>2, <3>1
  <2>3. QED
    BY <2>1, <2>2
<1>8. QED
  BY <1>7 DEF page

--------------------------------------------------------------------------------

\* The next page is offered only if a listing was counted for it.
LEMMA NextPage ==
    ASSUME NEW n \in Nat, NEW p \in Nat, p < PageCount(n)
    PROVE  n > p * PAGE_SIZE
<1> DEFINE d == PageCount(n)
<1>1. PAGE_SIZE \in Nat \ {0} /\ n + PAGE_SIZE - 1 \in Nat
  BY SizesAssumption
<1>2. d \in Nat /\ d * PAGE_SIZE <= n + PAGE_SIZE - 1
  BY <1>1, Quotient DEF PageCount
<1> HIDE DEF d
<1>3. p + 1 <= d
  BY <1>2 DEF d
<1>4. (p + 1) * PAGE_SIZE <= d * PAGE_SIZE
  BY <1>1, <1>2, <1>3
<1>5. (p + 1) * PAGE_SIZE = p * PAGE_SIZE + PAGE_SIZE
  BY <1>1
<1>6. p * PAGE_SIZE \in Nat /\ d * PAGE_SIZE \in Nat
  BY <1>1, <1>2
<1>7. QED
  BY <1>1, <1>2, <1>4, <1>5, <1>6

\* What is true of an answer stays true when the table changes again.
LEMMA StaysTrue ==
    ASSUME NEW h, NEW g, NEW n \in Nat, \A v \in 1..n : g[v] = h[v],
           NEW q, NEW a, a.from \in Nat, a.to \in Nat, 1 <= a.from, a.from <= a.to, a.to <= n,
           WasThere(h, q, a), IsExact(h, q, a)
    PROVE  WasThere(g, q, a) /\ IsExact(g, q, a)
<1>1. \A v \in a.from..a.to : g[v] = h[v]
  OBVIOUS
<1>2. g[a.to] = h[a.to]
  BY <1>1
<1>3. IsExact(g, q, a)
  BY <1>2 DEF IsExact
<1>4. ASSUME NEW i \in DOMAIN a.data
      PROVE  \E v, w \in a.from..a.to :
                LET l == a.data[i].id
                    was == g[v][l]
                IN  /\ ~was.deleted
                    /\ Within(was.priceCents, q.minPriceCents, q.maxPriceCents)
                    /\ a.data[i].row = g[w][l]
                    /\ v <= w /\ (q.keyword = Omitted => v = w)
  <2>1. PICK v, w \in a.from..a.to :
                LET l == a.data[i].id
                    was == h[v][l]
                IN  /\ ~was.deleted
                    /\ Within(was.priceCents, q.minPriceCents, q.maxPriceCents)
                    /\ a.data[i].row = h[w][l]
                    /\ v <= w /\ (q.keyword = Omitted => v = w)
    BY DEF WasThere
  <2>2. QED
    BY <1>1, <2>1
<1>5. ASSUME a.page < a.pageCount
      PROVE  \E v \in a.from..a.to : Cardinality(Matching(q, g[v])) > a.page * PAGE_SIZE
  <2>1. PICK v \in a.from..a.to : Cardinality(Matching(q, h[v])) > a.page * PAGE_SIZE
    BY <1>5 DEF WasThere
  <2>2. QED
    BY <1>1, <2>1
<1>6. QED
  BY <1>3, <1>4, <1>5 DEF WasThere

\* An answer put together of a count at u, a page found at v and the rows of n is of its
\* type, shows what was there, and is exact if the three are one.
LEMMA Responded ==
    ASSUME NEW h \in Seq(Table), NEW n \in Nat, n = Len(h),
           \A v, w \in 1..n : \A l \in Listings : v <= w /\ h[v][l] # Unsaved => h[w][l] # Unsaved,
           NEW q, q.page \in Nat \ {0},
           NEW u \in 1..n, NEW v \in u..n, q.keyword = Omitted => v = n,
           NEW page, IsPage(q, h[v], page),
           NEW t, t = Cardinality(Matching(q, h[u])),
           NEW a, a = [data |-> [i \in DOMAIN page |-> [id |-> page[i], row |-> h[n][page[i]]]],
                       total |-> t, page |-> q.page, pageCount |-> PageCount(t),
                       from |-> u, to |-> n]
    PROVE  IsAnswer(h, a) /\ WasThere(h, q, a) /\ IsExact(h, q, a)
<1>1. h[n] \in Table /\ h[u] \in Table /\ h[v] \in Table
  OBVIOUS
<1>2. PICK s \in Sorted(q, h[v]) : page = Page(q, s)
  BY DEF IsPage
<1>3. s \in Seq(Listings) /\ {s[i] : i \in DOMAIN s} = Matching(q, h[v])
  BY Listed, <1>2
<1>4. /\ page \in Seq(Listings) /\ Len(page) <= PAGE_SIZE
      /\ \A i \in DOMAIN page : page[i] \in Matching(q, h[v])
  BY <1>2, <1>3, PageIsPart
<1>5. \A i \in DOMAIN page :
          /\ page[i] \in Listings /\ h[v][page[i]] \in Row /\ ~h[v][page[i]].deleted
          /\ Within(h[v][page[i]].priceCents, q.minPriceCents, q.maxPriceCents)
  BY <1>1, <1>4, Found
<1>6. \A i \in DOMAIN page : h[n][page[i]] \in Row
  <2> SUFFICES ASSUME NEW i \in DOMAIN page PROVE h[n][page[i]] \in Row
    OBVIOUS
  <2>1. page[i] \in Listings /\ h[v][page[i]] # Unsaved
    BY <1>5 DEF Unsaved
  <2>2. h[n][page[i]] # Unsaved
    BY <2>1
  <2>3. QED
    BY <1>1, <2>1, <2>2 DEF Table
<1>7. t \in Nat /\ PageCount(t) \in Nat
  <2>1. t \in Nat /\ PAGE_SIZE \in Nat \ {0}
    BY FiniteMatching, SizesAssumption
  <2>2. t + PAGE_SIZE - 1 \in Nat
    BY <2>1
  <2>3. QED
    BY <2>1, <2>2, Quotient DEF PageCount
<1>8. /\ DOMAIN a.data = DOMAIN page
      /\ \A i \in DOMAIN page : a.data[i].id = page[i] /\ a.data[i].row = h[n][page[i]]
      /\ a.total = t /\ a.page = q.page /\ a.pageCount = PageCount(t) /\ a.from = u /\ a.to = n
  OBVIOUS
<1>9. IsAnswer(h, a)
  <2> DEFINE k == Len(page)
             e(i) == [id |-> page[i], row |-> h[n][page[i]]]
  <2>1. k \in Nat /\ DOMAIN page = 1..k
    BY <1>4
  <2>2. \A i \in 1..k : e(i) \in [id : Listings, row : Row]
    BY <1>5, <1>6, <2>1
  <2>3. a.data = [i \in 1..k |-> e(i)]
    BY <2>1
  <2> HIDE DEF e
  <2>4. a.data \in Seq([id : Listings, row : Row]) /\ Len(a.data) = k
    BY <2>1, <2>2, <2>3
  <2>5. a \in Answer
    BY <1>7, <2>4 DEF Answer
  <2>6. QED
    BY <1>4, <1>8, <2>4, <2>5 DEF IsAnswer
<1>10. WasThere(h, q, a)
  <2>1. ASSUME NEW i \in DOMAIN a.data
        PROVE  \E x, w \in a.from..a.to :
                  LET l == a.data[i].id
                      was == h[x][l]
                  IN  /\ ~was.deleted
                      /\ Within(was.priceCents, q.minPriceCents, q.maxPriceCents)
                      /\ a.data[i].row = h[w][l]
                      /\ x <= w /\ (q.keyword = Omitted => x = w)
    <3>1. v \in a.from..a.to /\ n \in a.from..a.to /\ v <= n
      BY <1>8
    <3>2. QED
      BY <1>5, <1>8, <3>1
  <2>2. ASSUME a.page < a.pageCount
        PROVE  \E x \in a.from..a.to : Cardinality(Matching(q, h[x])) > a.page * PAGE_SIZE
    <3>1. t > q.page * PAGE_SIZE
      BY <1>7, <1>8, <2>2, NextPage
    <3>2. u \in a.from..a.to
      BY <1>8
    <3>3. QED
      BY <1>8, <3>1, <3>2
  <2>3. QED
    BY <2>1, <2>2 DEF WasThere
<1>11. IsExact(h, q, a)
  <2> SUFFICES ASSUME a.from = a.to, NoTies(q, h[a.to])
      PROVE  /\ {a.data[i].id : i \in DOMAIN a.data}
                  = {l \in Matching(q, h[a.to]) : Cardinality(Ahead(q, h[a.to], l)) \div PAGE_SIZE + 1 = q.page}
             /\ a.total = Cardinality(Matching(q, h[a.to]))
    BY DEF IsExact
  <2>1. u = n /\ v = n
    BY <1>8
  <2>2. {Page(q, s)[i] : i \in DOMAIN Page(q, s)}
          = {l \in Matching(q, h[n]) : Cardinality(Ahead(q, h[n], l)) \div PAGE_SIZE + 1 = q.page}
    BY <1>1, <1>2, <1>8, <2>1, PageIsExact
  <2>3. {a.data[i].id : i \in DOMAIN a.data} = {page[i] : i \in DOMAIN page}
    BY <1>8
  <2>4. QED
    BY <1>2, <1>8, <2>1, <2>2, <2>3
<1>12. QED
  BY <1>9, <1>10, <1>11

--------------------------------------------------------------------------------

\* At the beginning nothing is asked, stored or answered.
LEMMA InitSearch == Init => SearchInv
<1> SUFFICES ASSUME Init PROVE SearchInv
  OBVIOUS
<1>1. PICK rows \in Tables : history = <<rows>>
  BY DEF Init
<1>2. rows \in Table
  BY <1>1, RowsAssumption
<1>3. /\ history \in Seq(Table) /\ Len(history) = 1 /\ DOMAIN history = 1..1
      /\ history[1] = rows
  BY <1>1, <1>2
<1>4. IsAnswer(history, NoAnswer) /\ NoAnswer \in Answer
  <2>1. NoAnswer \in Answer
    BY DEF NoAnswer, Answer
  <2>2. QED
    BY <1>3, <2>1, SizesAssumption DEF IsAnswer, NoAnswer
<1>5. NoAsk \in Asks
  BY SizesAssumption DEF NoAsk
<1>6. /\ NoEntry \in [answer : Answer, age : 0..CACHE_TTL]
      /\ NoEntry.answer = NoAnswer
  BY <1>4, SizesAssumption DEF NoEntry
<1>7. TypeOK
  <2>1. Len(history) \in 1..(MAX_WRITES + 1)
    BY <1>3, SizesAssumption
  <2>2. cache \in [Asks -> [answer : Answer, age : 0..CACHE_TTL]] /\ \A k \in Asks : IsAnswer(history, cache[k].answer)
    BY <1>4, <1>6 DEF Init
  <2>3. /\ pc \in [Calls -> {"idle", "count", "find", "load", "answer"}]
        /\ ask \in [Calls -> Asks] /\ total \in [Calls -> Nat]
        /\ ids \in [Calls -> Seq(Listings)] /\ from \in [Calls -> 1..Len(history)]
    BY <1>3, <1>5 DEF Init
  <2>4. answer \in [Calls -> Answer] /\ \A c \in Calls : IsAnswer(history, answer[c])
    BY <1>4 DEF Init
  <2>5. QED
    BY <1>3, <2>1, <2>2, <2>3, <2>4 DEF TypeOK
<1>8. SavedInv
  BY <1>3 DEF SavedInv
<1>9. CacheInv /\ CallInv
  BY DEF Init, CacheInv, CallInv
<1>10. ShownWasThere /\ QuietAnswersAreExact
  BY DEF Init, Answered, ShownWasThere, QuietAnswersAreExact
<1>11. QED
  BY <1>7, <1>8, <1>9, <1>10 DEF SearchInv

\* A change of the table takes nothing back that was known of its earlier states.
LEMMA CommitKeeps ==
    ASSUME SearchInv, NEW l \in Listings, NEW row \in Row, Commit(l, row)
    PROVE  SearchInv'
<1> DEFINE n == Len(history)
<1>1. /\ history \in Seq(Table) /\ n \in 1..(MAX_WRITES + 1) /\ n <= MAX_WRITES
      /\ MAX_WRITES \in Nat
      /\ UNCHANGED <<cache, pc, ask, total, ids, from, answer>>
  BY SizesAssumption DEF SearchInv, TypeOK, Commit, call
<1>2. db \in Table /\ db = history[n]
  BY <1>1 DEF db
<1>3. [db EXCEPT ![l] = row] \in Table
  BY <1>2 DEF Table
<1>4. /\ history' \in Seq(Table) /\ Len(history') = n + 1
      /\ \A v \in 1..n : history'[v] = history[v]
      /\ history'[n + 1] = [db EXCEPT ![l] = row]
      /\ DOMAIN history = 1..n /\ DOMAIN history' = 1..(n + 1)
  BY <1>1, <1>3, AppendProperties DEF Commit
<1>5. \A a : IsAnswer(history, a) => IsAnswer(history', a) /\ a.from \in Nat /\ a.to \in Nat /\ a.to <= n
  BY <1>1, <1>4 DEF IsAnswer, Answer
<1> HIDE DEF n
<1>6. TypeOK'
  <2>1. Len(history') \in 1..(MAX_WRITES + 1) /\ 1..n \subseteq 1..(n + 1)
    BY <1>1, <1>4
  <2>2. from' \in [Calls -> 1..Len(history')]
    BY <1>1, <1>4, <2>1 DEF SearchInv, TypeOK, n
  <2>3. QED
    BY <1>1, <1>4, <1>5, <2>1, <2>2 DEF SearchInv, TypeOK
<1>7. SavedInv'
  <2> SUFFICES ASSUME NEW v \in 1..(n + 1), NEW w \in 1..(n + 1), NEW m \in Listings,
                      v <= w, history'[v][m] # Unsaved
      PROVE  history'[w][m] # Unsaved
    BY <1>4 DEF SavedInv
  <2>1. CASE w \in 1..n
    BY <1>1, <1>4, <2>1 DEF SearchInv, SavedInv
  <2>2. CASE w = n + 1
    <3>1. row # Unsaved
      BY DEF Row, Unsaved
    <3>2. history'[w] \in Table /\ history'[w] = [db EXCEPT ![l] = row] /\ db \in Table
      BY <1>2, <1>3, <1>4, <2>2
    <3>3. m # l => history'[w][m] = db[m]
      BY <3>2 DEF Table
    <3>4. m = l => history'[w][m] = row
      BY <3>2 DEF Table
    <3>5. CASE v = n + 1
      BY <2>2, <3>5
    <3>6. CASE v \in 1..n
      <4>1. history[v][m] # Unsaved /\ v <= n
        BY <1>1, <1>4, <3>6
      <4>2. db[m] # Unsaved
        BY <1>1, <1>2, <1>4, <3>6, <4>1 DEF SearchInv, SavedInv
      <4>3. QED
        BY <3>1, <3>3, <3>4, <4>2
    <3>7. QED
      BY <1>1, <3>5, <3>6
  <2>3. QED
    BY <1>1, <2>1, <2>2
<1>8. n \in Nat /\ \A v \in 1..n : history'[v] = history[v]
  BY <1>1, <1>4
<1>9. \A a, q : IsAnswer(history, a) /\ WasThere(history, q, a) /\ IsExact(history, q, a)
                  => WasThere(history', q, a) /\ IsExact(history', q, a)
  <2> SUFFICES ASSUME NEW a, NEW q, IsAnswer(history, a), WasThere(history, q, a), IsExact(history, q, a)
      PROVE  WasThere(history', q, a) /\ IsExact(history', q, a)
    OBVIOUS
  <2>1. a.from \in Nat /\ a.to \in Nat /\ 1 <= a.from /\ a.from <= a.to /\ a.to <= n
    BY <1>5 DEF IsAnswer
  <2> DEFINE g == history'
  <2>2. \A v \in 1..n : g[v] = history[v]
    BY <1>8
  <2> HIDE DEF g
  <2>3. WasThere(g, q, a) /\ IsExact(g, q, a)
    BY <1>8, <2>1, <2>2, StaysTrue
  <2>4. QED
    BY <2>3 DEF g
<1>10. CacheInv'
  BY <1>1, <1>9 DEF SearchInv, TypeOK, CacheInv
<1>11. CallInv'
  <2> SUFFICES ASSUME NEW c \in Calls
      PROVE  /\ pc[c] \in {"find", "load"} => total[c] = Cardinality(Matching(ask[c], history'[from[c]]))
             /\ pc[c] = "load" =>
                   /\ ask[c].keyword # Omitted
                   /\ \E v \in from[c]..Len(history') : IsPage(ask[c], history'[v], ids[c])
    BY <1>1 DEF CallInv
  <2>1. from[c] \in 1..n
    BY DEF SearchInv, TypeOK, n
  <2>2. history'[from[c]] = history[from[c]]
    BY <1>8, <2>1
  <2>3. ASSUME pc[c] = "load" PROVE \E v \in from[c]..Len(history') : IsPage(ask[c], history'[v], ids[c])
    <3>1. PICK v \in from[c]..n : IsPage(ask[c], history[v], ids[c])
      BY <2>3 DEF SearchInv, CallInv, n
    <3>2. v \in 1..n /\ v \in from[c]..Len(history')
      BY <1>4, <1>8, <2>1
    <3>3. QED
      BY <1>8, <3>1, <3>2
  <2>4. QED
    BY <2>2, <2>3 DEF SearchInv, CallInv
<1>12. ShownWasThere' /\ QuietAnswersAreExact'
  BY <1>1, <1>9 DEF SearchInv, TypeOK, Answered, ShownWasThere, QuietAnswersAreExact
<1>13. QED
  BY <1>6, <1>7, <1>10, <1>11, <1>12 DEF SearchInv

\* Whatever is written, by a seller or by moderation, is a row.
LEMMA ListingsChange ==
    ASSUME SearchInv, NEW l \in Listings, Create(l) \/ Update(l) \/ SoftDelete(l)
    PROVE  SearchInv'
<1>1. db \in Table /\ Len(history) \in Nat
  BY DEF SearchInv, TypeOK, db
<1>2. \A r \in Row, t \in Int : [r EXCEPT !.createdAt = t] \in Row
  BY DEF Row
<1>3. ~db[l].deleted => db[l] \in Row
  BY <1>1 DEF Table, Unsaved
<1>4. \A r \in Row : r.createdAt \in Int
  BY DEF Row
<1>5. CASE Create(l)
  <2>1. PICK r \in Rows, t \in 0..Len(history) : Commit(l, [r EXCEPT !.createdAt = t])
    BY <1>5 DEF Create
  <2>2. [r EXCEPT !.createdAt = t] \in Row
    BY <1>1, <1>2, RowsAssumption
  <2>3. QED
    BY <2>1, <2>2, CommitKeeps
<1>6. CASE Update(l)
  <2>1. PICK r \in Rows : Commit(l, [r EXCEPT !.createdAt = db[l].createdAt])
    BY <1>6 DEF Update
  <2>2. [r EXCEPT !.createdAt = db[l].createdAt] \in Row
    BY <1>2, <1>3, <1>4, <1>6, RowsAssumption DEF Update
  <2>3. QED
    BY <2>1, <2>2, CommitKeeps
<1>7. CASE SoftDelete(l)
  <2>1. [db[l] EXCEPT !.deleted = TRUE] \in Row
    BY <1>3, <1>7 DEF SoftDelete, Row
  <2>2. QED
    BY <1>7, <2>1, CommitKeeps DEF SoftDelete
<1>8. QED
  BY <1>5, <1>6, <1>7

--------------------------------------------------------------------------------

\* Time only takes entries away.
LEMMA TickKeeps == SearchInv /\ Tick => SearchInv'
<1> SUFFICES ASSUME SearchInv, Tick PROVE SearchInv'
  OBVIOUS
<1>1. /\ UNCHANGED <<history, pc, ask, total, ids, from, answer>>
      /\ cache' = [k \in Asks |-> Aged(cache[k])]
  BY DEF Tick, call
<1>2. IsAnswer(history, NoAnswer) /\ NoEntry \in [answer : Answer, age : 0..CACHE_TTL]
  <2>1. Len(history) >= 1 /\ PAGE_SIZE \in Nat \ {0} /\ CACHE_TTL \in Nat
    BY SizesAssumption DEF SearchInv, TypeOK
  <2>2. NoAnswer \in Answer
    BY DEF NoAnswer, Answer
  <2>3. QED
    BY <2>1, <2>2 DEF IsAnswer, NoAnswer, NoEntry
<1>3. ASSUME NEW k \in Asks
      PROVE  \/ cache'[k] = NoEntry
             \/ /\ cache[k] # NoEntry /\ cache'[k].answer = cache[k].answer
                /\ cache'[k] \in [answer : Answer, age : 0..CACHE_TTL]
  <2>1. cache[k] \in [answer : Answer, age : 0..CACHE_TTL] /\ CACHE_TTL \in Nat
    BY SizesAssumption DEF SearchInv, TypeOK
  <2>2. CASE cache[k].age >= CACHE_TTL
    BY <1>1, <2>2 DEF Aged
  <2>3. CASE ~(cache[k].age >= CACHE_TTL)
    <3>1. cache'[k] = [cache[k] EXCEPT !.age = cache[k].age + 1]
      BY <1>1, <2>3 DEF Aged
    <3>2. cache[k].age + 1 \in 0..CACHE_TTL
      BY <2>1, <2>3
    <3>3. cache[k] # NoEntry
      BY <2>1, <2>3 DEF NoEntry
    <3>4. QED
      BY <2>1, <3>1, <3>2, <3>3
  <2>4. QED
    BY <2>2, <2>3
<1>4. NoEntry.answer = NoAnswer
  BY DEF NoEntry
<1>5. TypeOK'
  <2>1. \A k \in Asks : cache'[k] \in [answer : Answer, age : 0..CACHE_TTL] /\ IsAnswer(history, cache'[k].answer)
    BY <1>2, <1>3, <1>4 DEF SearchInv, TypeOK
  <2>2. cache' \in [Asks -> [answer : Answer, age : 0..CACHE_TTL]]
    BY <1>1, <2>1
  <2>3. QED
    BY <1>1, <2>1, <2>2 DEF SearchInv, TypeOK
<1>6. CacheInv'
  BY <1>1, <1>3 DEF SearchInv, CacheInv
<1>7. SavedInv' /\ CallInv' /\ ShownWasThere' /\ QuietAnswersAreExact'
  BY <1>1 DEF SearchInv, SavedInv, CallInv, Answered, ShownWasThere, QuietAnswersAreExact
<1>8. QED
  BY <1>5, <1>6, <1>7 DEF SearchInv

\* A step of a search that neither stores nor answers: what holds of the call alone is enough.
LEMMA CallKeeps ==
    ASSUME SearchInv, NEW c \in Calls, UNCHANGED <<history, cache>>,
           \A d \in Calls : d # c =>
               /\ pc'[d] = pc[d] /\ ask'[d] = ask[d] /\ total'[d] = total[d]
               /\ ids'[d] = ids[d] /\ from'[d] = from[d] /\ answer'[d] = answer[d],
           pc' \in [Calls -> {"idle", "count", "find", "load", "answer"}],
           ask' \in [Calls -> Asks], total' \in [Calls -> Nat],
           ids' \in [Calls -> Seq(Listings)], from' \in [Calls -> 1..Len(history)],
           answer' \in [Calls -> Answer], IsAnswer(history, answer'[c]),
           pc'[c] \in {"find", "load"} => total'[c] = Cardinality(Matching(ask'[c], history[from'[c]])),
           pc'[c] = "load" =>
               /\ ask'[c].keyword # Omitted
               /\ \E v \in from'[c]..Len(history) : IsPage(ask'[c], history[v], ids'[c]),
           pc'[c] = "answer" =>
               WasThere(history, ask'[c], answer'[c]) /\ IsExact(history, ask'[c], answer'[c])
    PROVE  SearchInv'
<1>1. history' = history /\ cache' = cache
  OBVIOUS
<1>2. TypeOK'
  <2>1. \A d \in Calls : IsAnswer(history, answer'[d])
    BY DEF SearchInv, TypeOK
  <2>2. QED
    BY <1>1, <2>1 DEF SearchInv, TypeOK
<1>3. SavedInv' /\ CacheInv'
  BY <1>1 DEF SearchInv, SavedInv, CacheInv
<1>4. CallInv'
  <2> SUFFICES ASSUME NEW d \in Calls
      PROVE  /\ pc'[d] \in {"find", "load"} => total'[d] = Cardinality(Matching(ask'[d], history[from'[d]]))
             /\ pc'[d] = "load" =>
                   /\ ask'[d].keyword # Omitted
                   /\ \E v \in from'[d]..Len(history) : IsPage(ask'[d], history[v], ids'[d])
    BY <1>1 DEF CallInv
  <2>1. CASE d = c
    BY <2>1
  <2>2. CASE d # c
    BY <2>2 DEF SearchInv, CallInv
  <2>3. QED
    BY <2>1, <2>2
<1>5. ASSUME NEW d \in Calls, pc'[d] = "answer"
      PROVE  WasThere(history, ask'[d], answer'[d]) /\ IsExact(history, ask'[d], answer'[d])
  BY <1>5 DEF SearchInv, Answered, ShownWasThere, QuietAnswersAreExact
<1>6. ShownWasThere' /\ QuietAnswersAreExact'
  BY <1>1, <1>5 DEF Answered, ShownWasThere, QuietAnswersAreExact
<1>7. QED
  BY <1>2, <1>3, <1>4, <1>6 DEF SearchInv

\* The answer put together at the end is right, and so is the entry stored with it.
LEMMA RespondKeeps ==
    ASSUME SearchInv, NEW c \in Calls, NEW page, Respond(c, page),
           pc[c] \in {"find", "load"}, ids' = ids,
           NEW v \in from[c]..Len(history), IsPage(ask[c], history[v], page),
           ask[c].keyword = Omitted => v = Len(history)
    PROVE  SearchInv'
<1> DEFINE n == Len(history)
           a == [data |-> [i \in DOMAIN page |-> [id |-> page[i], row |-> db[page[i]]]],
                 total |-> total[c], page |-> ask[c].page, pageCount |-> PageCount(total[c]),
                 from |-> from[c], to |-> n]
           e == [answer |-> a, age |-> 0]
<1>1. /\ history \in Seq(Table) /\ n \in Nat /\ DOMAIN history = 1..n
      /\ ask \in [Calls -> Asks] /\ ask[c] \in Asks /\ ask[c].page \in Nat \ {0}
      /\ from[c] \in 1..n /\ CACHE_TTL \in Nat
      /\ cache \in [Asks -> [answer : Answer, age : 0..CACHE_TTL]]
      /\ answer \in [Calls -> Answer] /\ \A d \in Calls : IsAnswer(history, answer[d])
  BY SizesAssumption DEF SearchInv, TypeOK
<1>2. /\ UNCHANGED <<history, ask, total, from>>
      /\ cache' = [cache EXCEPT ![ask[c]] = e]
      /\ answer' = [answer EXCEPT ![c] = a]
      /\ pc' = [pc EXCEPT ![c] = "answer"]
  BY DEF Respond, Goto, BuildCacheKey
<1>3. IsAnswer(history, a) /\ WasThere(history, ask[c], a) /\ IsExact(history, ask[c], a)
  <2>1. \A x, w \in 1..n : \A l \in Listings :
            x <= w /\ history[x][l] # Unsaved => history[w][l] # Unsaved
    BY <1>1 DEF SearchInv, SavedInv
  <2>2. total[c] = Cardinality(Matching(ask[c], history[from[c]]))
    BY DEF SearchInv, CallInv
  <2>3. a = [data |-> [i \in DOMAIN page |-> [id |-> page[i], row |-> history[n][page[i]]]],
             total |-> total[c], page |-> ask[c].page, pageCount |-> PageCount(total[c]),
             from |-> from[c], to |-> n]
    BY DEF db
  <2>4. v \in from[c]..n /\ (ask[c].keyword = Omitted => v = n) /\ n = Len(history)
    OBVIOUS
  <2>5. /\ history \in Seq(Table) /\ n \in Nat /\ ask[c].page \in Nat \ {0} /\ from[c] \in 1..n
    BY <1>1
  <2> HIDE DEF a, n
  <2>6. QED
    BY <2>1, <2>2, <2>3, <2>4, <2>5, Responded
<1> HIDE DEF a
<1>4. a \in Answer
  BY <1>3 DEF IsAnswer
<1>5. e \in [answer : Answer, age : 0..CACHE_TTL] /\ e.answer = a
  <2>1. 0 \in 0..CACHE_TTL
    BY SizesAssumption
  <2>2. QED
    BY <1>4, <2>1
<1> HIDE DEF e
<1>6. /\ cache' \in [Asks -> [answer : Answer, age : 0..CACHE_TTL]]
      /\ cache'[ask[c]] = e /\ \A k \in Asks : k # ask[c] => cache'[k] = cache[k]
  BY <1>1, <1>2, <1>5
<1>7. /\ answer' \in [Calls -> Answer]
      /\ answer'[c] = a /\ \A d \in Calls : d # c => answer'[d] = answer[d]
  BY <1>1, <1>2, <1>4
<1>8. /\ pc' \in [Calls -> {"idle", "count", "find", "load", "answer"}]
      /\ pc'[c] = "answer" /\ \A d \in Calls : d # c => pc'[d] = pc[d]
  BY <1>2 DEF SearchInv, TypeOK
<1>9. TypeOK'
  <2>1. \A k \in Asks : IsAnswer(history, cache'[k].answer)
    BY <1>3, <1>5, <1>6 DEF SearchInv, TypeOK
  <2>2. \A d \in Calls : IsAnswer(history, answer'[d])
    BY <1>1, <1>3, <1>7
  <2>3. QED
    BY <1>2, <1>6, <1>7, <1>8, <2>1, <2>2 DEF SearchInv, TypeOK
<1>10. SavedInv'
  BY <1>2 DEF SearchInv, SavedInv
<1>11. CacheInv'
  <2>1. \A k \in Asks : cache'[k] # NoEntry =>
            WasThere(history, k, cache'[k].answer) /\ IsExact(history, k, cache'[k].answer)
    BY <1>3, <1>5, <1>6 DEF SearchInv, CacheInv
  <2>2. QED
    BY <1>2, <2>1 DEF CacheInv
<1>12. CallInv'
  <2>1. ASSUME NEW d \in Calls, pc'[d] \in {"find", "load"} PROVE d # c /\ pc'[d] = pc[d]
    BY <1>8, <2>1
  <2>2. QED
    BY <1>2, <2>1 DEF SearchInv, CallInv
<1>13. ASSUME NEW d \in Calls, pc'[d] = "answer"
       PROVE  WasThere(history, ask[d], answer'[d]) /\ IsExact(history, ask[d], answer'[d])
  BY <1>3, <1>7, <1>8, <1>13 DEF SearchInv, Answered, ShownWasThere, QuietAnswersAreExact
<1>14. ShownWasThere' /\ QuietAnswersAreExact'
  BY <1>2, <1>13 DEF Answered, ShownWasThere, QuietAnswersAreExact
<1>15. QED
  BY <1>9, <1>10, <1>11, <1>12, <1>14 DEF SearchInv

\* What the invariant says of the calls, and of one.
LEMMA OfACall ==
    ASSUME SearchInv, NEW c \in Calls
    PROVE  /\ pc \in [Calls -> {"idle", "count", "find", "load", "answer"}]
           /\ ask \in [Calls -> Asks] /\ total \in [Calls -> Nat]
           /\ ids \in [Calls -> Seq(Listings)] /\ from \in [Calls -> 1..Len(history)]
           /\ answer \in [Calls -> Answer] /\ IsAnswer(history, answer[c])
           /\ Len(history) \in Nat \ {0}
           /\ pc[c] \in {"find", "load"} => total[c] = Cardinality(Matching(ask[c], history[from[c]]))
           /\ pc[c] = "load" =>
                 /\ ask[c].keyword # Omitted
                 /\ \E v \in from[c]..Len(history) : IsPage(ask[c], history[v], ids[c])
  BY DEF SearchInv, TypeOK, CallInv

\* A call is made: an entry answers it, or it begins to search.
LEMMA HitKeeps == ASSUME SearchInv, NEW c \in Calls, NEW q \in Asks, Hit(c, q) PROVE SearchInv'
<1> DEFINE a == cache[q].answer
<1>1. /\ cache[q] # NoEntry /\ UNCHANGED <<history, cache>>
      /\ pc' = [pc EXCEPT ![c] = "answer"] /\ ask' = [ask EXCEPT ![c] = q]
      /\ answer' = [answer EXCEPT ![c] = a]
      /\ total' = total /\ ids' = ids /\ from' = from
  BY DEF Hit, Goto, BuildCacheKey
<1>2. a \in Answer /\ IsAnswer(history, a) /\ WasThere(history, q, a) /\ IsExact(history, q, a)
  BY <1>1 DEF SearchInv, TypeOK, CacheInv
<1> HIDE DEF a
<1>3. /\ pc' \in [Calls -> {"idle", "count", "find", "load", "answer"}]
      /\ ask' \in [Calls -> Asks] /\ total' \in [Calls -> Nat]
      /\ ids' \in [Calls -> Seq(Listings)] /\ from' \in [Calls -> 1..Len(history)]
      /\ answer' \in [Calls -> Answer]
      /\ pc'[c] = "answer" /\ ask'[c] = q /\ answer'[c] = a
      /\ \A d \in Calls : d # c => pc'[d] = pc[d] /\ ask'[d] = ask[d] /\ answer'[d] = answer[d]
  BY <1>1, <1>2, OfACall
<1>4. QED
  BY <1>1, <1>2, <1>3, CallKeeps

\* A call that finds no entry has read nothing yet, so it knows nothing that could be
\* wrong.
LEMMA MissKeeps == ASSUME SearchInv, NEW c \in Calls, NEW q \in Asks, Miss(c, q) PROVE SearchInv'
<1>1. /\ UNCHANGED <<history, cache>>
      /\ pc' = [pc EXCEPT ![c] = "count"] /\ ask' = [ask EXCEPT ![c] = q]
      /\ total' = total /\ ids' = ids /\ from' = from /\ answer' = answer
  BY DEF Miss, Goto
<1>2. /\ pc' \in [Calls -> {"idle", "count", "find", "load", "answer"}]
      /\ ask' \in [Calls -> Asks] /\ total' \in [Calls -> Nat]
      /\ ids' \in [Calls -> Seq(Listings)] /\ from' \in [Calls -> 1..Len(history)]
      /\ answer' \in [Calls -> Answer] /\ IsAnswer(history, answer'[c])
      /\ pc'[c] = "count"
      /\ \A d \in Calls : d # c => pc'[d] = pc[d] /\ ask'[d] = ask[d]
  BY <1>1, OfACall
<1>3. QED
  BY <1>1, <1>2, CallKeeps

\* The count is of the state of the table it is taken in.
LEMMA CountKeeps == ASSUME SearchInv, NEW c \in Calls, Count(c) PROVE SearchInv'
<1> DEFINE t == Cardinality(Matching(ask[c], db))
           n == Len(history)
<1>1. /\ UNCHANGED <<history, cache>>
      /\ pc' = [pc EXCEPT ![c] = "find"] /\ total' = [total EXCEPT ![c] = t]
      /\ from' = [from EXCEPT ![c] = n]
      /\ ask' = ask /\ ids' = ids /\ answer' = answer
  BY DEF Count, Goto
<1>2. t \in Nat /\ n \in 1..Len(history)
  BY FiniteMatching, OfACall
<1>3. t = Cardinality(Matching(ask[c], history[n]))
  BY DEF db
<1> HIDE DEF t, n
<1>4. /\ pc' \in [Calls -> {"idle", "count", "find", "load", "answer"}]
      /\ ask' \in [Calls -> Asks] /\ total' \in [Calls -> Nat]
      /\ ids' \in [Calls -> Seq(Listings)] /\ from' \in [Calls -> 1..Len(history)]
      /\ answer' \in [Calls -> Answer] /\ IsAnswer(history, answer'[c])
      /\ pc'[c] = "find" /\ total'[c] = t /\ from'[c] = n
      /\ \A d \in Calls : d # c => pc'[d] = pc[d] /\ total'[d] = total[d] /\ from'[d] = from[d]
  BY <1>1, <1>2, OfACall
<1>5. total'[c] = Cardinality(Matching(ask'[c], history[from'[c]]))
  BY <1>1, <1>3, <1>4
<1>6. QED
  BY <1>1, <1>4, <1>5, CallKeeps

\* Without a keyword the page is answered at once, with one it is remembered.
LEMMA FindKeeps == ASSUME SearchInv, NEW c \in Calls, Find(c) PROVE SearchInv'
<1> DEFINE n == Len(history)
<1>1. pc[c] = "find"
  BY DEF Find
<1>2. PICK s \in Sorted(ask[c], db) :
          LET page == Page(ask[c], s)
          IN  \/ /\ ask[c].keyword = Omitted \/ page = <<>>
                 /\ Respond(c, page)
                 /\ UNCHANGED ids
              \/ /\ ask[c].keyword # Omitted /\ page # <<>>
                 /\ ids' = [ids EXCEPT ![c] = page]
                 /\ Goto(c, "load")
                 /\ UNCHANGED <<history, cache, ask, total, from, answer>>
  BY DEF Find
<1> DEFINE page == Page(ask[c], s)
<1>3. IsPage(ask[c], history[n], page)
  BY DEF IsPage, db
<1>4. n \in from[c]..Len(history)
  BY OfACall
<1>5. page \in Seq(Listings)
  <2>1. ask[c].page \in Nat \ {0}
    BY OfACall, SizesAssumption
  <2>2. s \in Seq(Listings)
    BY Listed
  <2>3. QED
    BY <2>1, <2>2, PageIsPart
<1>6. \/ Respond(c, page) /\ ids' = ids
      \/ /\ ask[c].keyword # Omitted
         /\ ids' = [ids EXCEPT ![c] = page] /\ pc' = [pc EXCEPT ![c] = "load"]
         /\ UNCHANGED <<history, cache, ask, total, from, answer>>
  BY <1>2 DEF Goto
<1> HIDE DEF page
<1>7. CASE Respond(c, page) /\ ids' = ids
  BY <1>1, <1>3, <1>4, <1>7, RespondKeeps
<1>8. CASE /\ ask[c].keyword # Omitted
           /\ ids' = [ids EXCEPT ![c] = page] /\ pc' = [pc EXCEPT ![c] = "load"]
           /\ UNCHANGED <<history, cache, ask, total, from, answer>>
  <2>1. /\ pc' \in [Calls -> {"idle", "count", "find", "load", "answer"}]
        /\ ask' \in [Calls -> Asks] /\ total' \in [Calls -> Nat]
        /\ ids' \in [Calls -> Seq(Listings)] /\ from' \in [Calls -> 1..Len(history)]
        /\ answer' \in [Calls -> Answer] /\ IsAnswer(history, answer'[c])
        /\ pc'[c] = "load" /\ ids'[c] = page
        /\ \A d \in Calls : d # c => pc'[d] = pc[d] /\ ids'[d] = ids[d]
    BY <1>5, <1>8, OfACall
  <2>2. \E v \in from'[c]..Len(history) : IsPage(ask'[c], history[v], ids'[c])
    BY <1>3, <1>4, <1>8, <2>1
  <2>3. ask'[c].keyword # Omitted /\ total'[c] = Cardinality(Matching(ask'[c], history[from'[c]]))
    BY <1>1, <1>8, OfACall
  <2>4. QED
    BY <1>8, <2>1, <2>2, <2>3, CallKeeps
<1>9. QED
  BY <1>6, <1>7, <1>8

\* The rows of a remembered page are read.
LEMMA LoadKeeps == ASSUME SearchInv, NEW c \in Calls, Load(c) PROVE SearchInv'
<1>1. pc[c] = "load" /\ Respond(c, ids[c]) /\ ids' = ids
  BY DEF Load
<1>2. ask[c].keyword # Omitted
  BY <1>1, OfACall
<1>3. PICK v \in from[c]..Len(history) : IsPage(ask[c], history[v], ids[c])
  BY <1>1, OfACall
<1>4. QED
  BY <1>1, <1>2, <1>3, RespondKeeps

\* A call ends, answered or failed.
LEMMA ForgetKeeps == ASSUME SearchInv, NEW c \in Calls, Forget(c) PROVE SearchInv'
<1>1. /\ UNCHANGED <<history, cache>>
      /\ pc' = [pc EXCEPT ![c] = "idle"] /\ ask' = [ask EXCEPT ![c] = NoAsk]
      /\ total' = [total EXCEPT ![c] = 0] /\ ids' = [ids EXCEPT ![c] = <<>>]
      /\ from' = [from EXCEPT ![c] = 1] /\ answer' = [answer EXCEPT ![c] = NoAnswer]
  BY DEF Forget, Goto
<1>2. 1 \in 1..Len(history) /\ NoAsk \in Asks /\ <<>> \in Seq(Listings)
  BY OfACall, SizesAssumption DEF NoAsk
<1>3. NoAnswer \in Answer
  BY DEF NoAnswer, Answer
<1>4. IsAnswer(history, NoAnswer)
  BY <1>2, <1>3, SizesAssumption DEF IsAnswer, NoAnswer
<1>5. /\ pc' \in [Calls -> {"idle", "count", "find", "load", "answer"}]
      /\ ask' \in [Calls -> Asks] /\ total' \in [Calls -> Nat]
      /\ ids' \in [Calls -> Seq(Listings)] /\ from' \in [Calls -> 1..Len(history)]
      /\ answer' \in [Calls -> Answer]
      /\ pc'[c] = "idle" /\ answer'[c] = NoAnswer
      /\ \A d \in Calls : d # c =>
            /\ pc'[d] = pc[d] /\ ask'[d] = ask[d] /\ total'[d] = total[d]
            /\ ids'[d] = ids[d] /\ from'[d] = from[d] /\ answer'[d] = answer[d]
  BY <1>1, <1>2, <1>3, OfACall
<1>6. QED
  BY <1>1, <1>4, <1>5, CallKeeps

\* Every step keeps the invariant.
LEMMA SearchStep == SearchInv /\ [Next]_vars => SearchInv'
<1> SUFFICES ASSUME SearchInv, [Next]_vars PROVE SearchInv'
  OBVIOUS
<1>1. CASE \E l \in Listings : Create(l) \/ Update(l) \/ SoftDelete(l)
  BY <1>1, ListingsChange
<1>2. CASE Tick
  BY <1>2, TickKeeps
<1>3. CASE \E c \in Calls, q \in Asks : Hit(c, q) \/ Miss(c, q)
  BY <1>3, HitKeeps, MissKeeps
<1>4. CASE \E c \in Calls : Step(c)
  BY <1>4, CountKeeps, FindKeeps, LoadKeeps, ForgetKeeps DEF Step, Deliver, Fail
<1>5. CASE UNCHANGED vars
  BY <1>5 DEF vars, call, SearchInv, TypeOK, SavedInv, CacheInv, CallInv, Answered,
     ShownWasThere, QuietAnswersAreExact
<1>6. QED
  BY <1>1, <1>2, <1>3, <1>4, <1>5 DEF Next

--------------------------------------------------------------------------------

\* The inductive invariant: what is cached answers its key, and what a search has counted
\* and found is of moments since it began to read.
THEOREM SearchInvariant == Spec => []SearchInv
<1>1. QED
  BY InitSearch, SearchStep, PTL DEF Spec

\* Every answer, given or cached, is a page of rows, whatever is asked for.
THEOREM SearchTypeCorrect == Spec => []TypeOK
<1>1. SearchInv => TypeOK
  BY DEF SearchInv
<1>2. QED
  BY <1>1, SearchInvariant, PTL

\* However the listings change during a search, and whether or not the cache answers it,
\* what it shows was on the market at a price asked for, and a next page is offered only
\* if there was one.
THEOREM ShownSafety == Spec => []ShownWasThere
<1>1. SearchInv => ShownWasThere
  BY DEF SearchInv
<1>2. QED
  BY <1>1, SearchInvariant, PTL

\* Undisturbed, the pages of a result share no listing and miss none.
THEOREM QuietSafety == Spec => []QuietAnswersAreExact
<1>1. SearchInv => QuietAnswersAreExact
  BY DEF SearchInv
<1>2. QED
  BY <1>1, SearchInvariant, PTL

\* An entry that a step leaves alone, or that only ages, is outdated after it only if it
\* was before.
LEMMA EntryStays ==
    ASSUME SearchInv, history' = history, NEW k \in Asks, Outdated(k)',
           \/ cache'[k] = cache[k]
           \/ Tick
    PROVE  /\ Outdated(k) /\ cache'[k].answer = cache[k].answer
           /\ cache'[k].age = cache[k].age + (IF Tick THEN 1 ELSE 0)
<1>1. cache[k] \in [answer : Answer, age : 0..CACHE_TTL] /\ CACHE_TTL \in Nat
  BY SizesAssumption DEF SearchInv, TypeOK
<1>2. cache'[k] # NoEntry /\ cache'[k].answer.from < Len(history)
  BY DEF Outdated
<1>3. CASE Tick
  <2>1. cache'[k] = Aged(cache[k])
    BY <1>3 DEF Tick
  <2>2. cache[k].age < CACHE_TTL /\ cache'[k] = [cache[k] EXCEPT !.age = @ + 1]
    BY <1>1, <1>2, <2>1 DEF Aged
  <2>3. cache'[k].answer = cache[k].answer /\ cache'[k].age = cache[k].age + 1
    BY <1>1, <2>2
  <2>4. cache[k] # NoEntry
    BY <1>1, <2>2 DEF NoEntry
  <2>5. QED
    BY <1>2, <1>3, <2>3, <2>4 DEF Outdated
<1>4. CASE ~Tick
  BY <1>1, <1>2, <1>4 DEF Outdated
<1>5. QED
  BY <1>3, <1>4

\* Only a search that was behind stores an answer that is outdated.
LEMMA RespondRunsOut ==
    ASSUME SearchInv, NEW c \in Calls, NEW page, Respond(c, page), pc[c] \in {"find", "load"},
           NEW k \in Asks, Outdated(k)'
    PROVE  \/ Behind(c) /\ ~Behind(c)' /\ ask[c] = k
           \/ cache'[k] = cache[k]
<1> DEFINE a == [data |-> [i \in DOMAIN page |-> [id |-> page[i], row |-> db[page[i]]]],
                 total |-> total[c], page |-> ask[c].page, pageCount |-> PageCount(total[c]),
                 from |-> from[c], to |-> Len(history)]
<1>1. /\ cache' = [cache EXCEPT ![ask[c]] = [answer |-> a, age |-> 0]]
      /\ pc' = [pc EXCEPT ![c] = "answer"] /\ UNCHANGED <<history, from>>
  BY DEF Respond, Goto, BuildCacheKey
<1>2. a.from = from[c]
  OBVIOUS
<1> HIDE DEF a
<1>3. DOMAIN cache = Asks
  BY DEF SearchInv, TypeOK
<1>4. CASE k = ask[c]
  <2>1. cache'[k].answer = a
    BY <1>1, <1>3, <1>4
  <2>2. from[c] < Len(history)
    BY <1>1, <1>2, <2>1 DEF Outdated
  <2>3. ~Behind(c)'
    BY <1>1, OfACall DEF Behind
  <2>4. QED
    BY <1>4, <2>2, <2>3 DEF Behind
<1>5. CASE k # ask[c]
  BY <1>1, <1>3, <1>5
<1>6. QED
  BY <1>4, <1>5

\* A search falls behind only when the listings change, and what is stored while they do
\* not is outdated only if the search that stored it was behind; what is outdated already
\* grows older with every tick.
LEMMA StepRunsOut ==
    ASSUME SearchInv, Next, history' = history
    PROVE  /\ \A c \in Calls : Behind(c)' => Behind(c)
           /\ \A k \in Asks : Outdated(k)' =>
                 \/ \E c \in Calls : Behind(c) /\ ~Behind(c)' /\ ask[c] = k
                 \/ cache'[k] = cache[k]
                 \/ Tick
<1>1. CASE \E l \in Listings : Create(l) \/ Update(l) \/ SoftDelete(l)
  <2>1. PICK row : history' = Append(history, row)
    BY <1>1 DEF Create, Update, SoftDelete, Commit
  <2>2. history \in Seq(Table)
    BY DEF SearchInv, TypeOK
  <2>3. Len(history') = Len(history) + 1
    BY <2>1, <2>2
  <2>4. QED
    BY <2>2, <2>3
<1>2. CASE Tick
  BY <1>2 DEF Tick, call, Behind
<1>3. ASSUME NEW c \in Calls, NEW q \in Asks, Hit(c, q) \/ Miss(c, q)
      PROVE  UNCHANGED <<cache, from>> /\ pc'[c] \notin {"find", "load"}
             /\ \A d \in Calls : d # c => pc'[d] = pc[d]
  BY <1>3, OfACall DEF Hit, Miss, Goto
<1>4. ASSUME NEW c \in Calls, Count(c)
      PROVE  /\ cache' = cache /\ from'[c] = Len(history)
             /\ \A d \in Calls : d # c => pc'[d] = pc[d] /\ from'[d] = from[d]
  BY <1>4, OfACall DEF Count, Goto
<1>5. ASSUME NEW c \in Calls, Deliver(c) \/ Fail(c)
      PROVE  /\ cache' = cache /\ pc'[c] = "idle"
             /\ \A d \in Calls : d # c => pc'[d] = pc[d] /\ from'[d] = from[d]
  BY <1>5, OfACall DEF Deliver, Fail, Forget, Goto
<1>6. ASSUME NEW c \in Calls, Find(c) \/ Load(c)
      PROVE  /\ pc[c] \in {"find", "load"} /\ from' = from
             /\ \A d \in Calls : d # c => pc'[d] = pc[d]
             /\ cache' = cache \/ \E page : Respond(c, page)
  <2>1. CASE Load(c)
    BY <2>1, OfACall DEF Load, Respond, Goto
  <2>2. CASE Find(c)
    <3>1. \/ \E page : Respond(c, page)
          \/ /\ pc' = [pc EXCEPT ![c] = "load"]
             /\ UNCHANGED <<cache, from>>
      BY <2>2 DEF Find, Goto
    <3>2. CASE \E page : Respond(c, page)
      BY <2>2, <3>2, OfACall DEF Find, Respond, Goto
    <3>3. CASE pc' = [pc EXCEPT ![c] = "load"] /\ UNCHANGED <<cache, from>>
      BY <2>2, <3>3, OfACall DEF Find
    <3>4. QED
      BY <3>1, <3>2, <3>3
  <2>3. QED
    BY <1>6, <2>1, <2>2
<1>7. CASE \E c \in Calls, q \in Asks : Hit(c, q) \/ Miss(c, q)
  BY <1>3, <1>7 DEF Behind
<1>8. CASE \E c \in Calls : Count(c)
  <2>1. PICK c \in Calls : Count(c)
    BY <1>8
  <2>2. ~Behind(c)'
    BY <1>4, <2>1, OfACall DEF Behind
  <2>3. QED
    BY <1>4, <2>1, <2>2 DEF Behind
<1>9. CASE \E c \in Calls : Deliver(c) \/ Fail(c)
  BY <1>5, <1>9 DEF Behind
<1>10. CASE \E c \in Calls : Find(c) \/ Load(c)
  <2>1. PICK c \in Calls : Find(c) \/ Load(c)
    BY <1>10
  <2>2. \A d \in Calls : Behind(d)' => Behind(d)
    BY <1>6, <2>1 DEF Behind
  <2>3. ASSUME NEW k \in Asks, Outdated(k)'
        PROVE  \/ Behind(c) /\ ~Behind(c)' /\ ask[c] = k
               \/ cache'[k] = cache[k]
    <3>1. CASE cache' = cache
      BY <3>1
    <3>2. CASE \E page : Respond(c, page)
      BY <1>6, <2>1, <2>3, <3>2, RespondRunsOut
    <3>3. QED
      BY <1>6, <2>1, <3>1, <3>2
  <2>4. QED
    BY <2>2, <2>3
<1>11. QED
  BY <1>1, <1>2, <1>7, <1>8, <1>9, <1>10 DEF Next, Step

\* Why an outdated answer is not served for ever: once the listings stop changing, only
\* the searches then under way can store one, each of them once, and what is stored grows
\* older with every tick until it is dropped.
THEOREM OutdatedAnswersRunOut == Spec => OutdatedRunsOut
<1> DEFINE P == history' = history =>
                  /\ \A c \in Calls : Behind(c)' => Behind(c)
                  /\ \A k \in Asks : Outdated(k)' =>
                        \/ \E c \in Calls : Behind(c) /\ ~Behind(c)' /\ ask[c] = k
                        \/ /\ Outdated(k) /\ cache'[k].answer = cache[k].answer
                           /\ cache'[k].age = cache[k].age + (IF Tick THEN 1 ELSE 0)
<1>1. ASSUME SearchInv, Next PROVE P
  <2> SUFFICES ASSUME history' = history PROVE P
    OBVIOUS
  <2>1. \A c \in Calls : Behind(c)' => Behind(c)
    BY <1>1, StepRunsOut
  <2>2. ASSUME NEW k \in Asks, Outdated(k)'
        PROVE  \/ \E c \in Calls : Behind(c) /\ ~Behind(c)' /\ ask[c] = k
               \/ /\ Outdated(k) /\ cache'[k].answer = cache[k].answer
                  /\ cache'[k].age = cache[k].age + (IF Tick THEN 1 ELSE 0)
    BY <1>1, <2>2, StepRunsOut, EntryStays
  <2>3. QED
    BY <2>1, <2>2
<1>2. SearchInv /\ [Next]_vars => [P]_vars
  BY <1>1
<1> HIDE DEF P
<1>3. Spec => [][P]_vars
  BY <1>2, SearchInvariant, PTL DEF Spec
<1>4. QED
  BY <1>3 DEF OutdatedRunsOut, P
================================================================================
