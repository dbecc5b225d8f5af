---------------------------- MODULE MCListingSearch ----------------------------
EXTENDS ListingSearchProps

CONSTANTS l1, l2

Shown(price, words, tags) ==
    [deleted |-> FALSE, status |-> "PUBLISHED", moderationStatus |-> "APPROVED", sellerId |-> "s1",
     priceCents |-> price, title |-> 1, createdAt |-> 0, words |-> words, tags |-> tags, categories |-> {}]
MCRows == {Shown(1, {"lamp"}, {}), Shown(2, {"lamp"}, {})}
MCTables == {[l \in Listings |-> IF l = l1 THEN Shown(1, {"lamp"}, {}) ELSE Unsaved],
    [l \in Listings |-> [Shown(1, {"lamp"}, {}) EXCEPT !.createdAt = IF l = l1 THEN 0 ELSE 1]]}

A(keyword, max, sort, page) ==
    [keyword |-> keyword, page |-> page, status |-> Omitted, moderationStatus |-> Omitted,
     sellerIds |-> {}, tags |-> {}, categories |-> {}, minPriceCents |-> NoBound, maxPriceCents |-> max,
     createdAfter |-> NoBound, createdBefore |-> NoBound, sort |-> sort]
MCAsks == {A(Omitted, NoBound, "date_new", 1), A("lamp", 1, "price_asc", 1), A("lamp", 1, "price_asc", 2)}
================================================================================
