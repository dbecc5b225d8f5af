----------------------------- MODULE MCClients -----------------------------
(***************************************************************************)
(* The parts of the clients on small instances.                            *)
(***************************************************************************)
EXTENDS Clients

\* Three pages of everything and one of a keyword
MCPageCount == [k \in {"", "lamp"} |-> IF k = "" THEN 3 ELSE 1]

\* The explorer, a listing's page and each of its queries alone, the orders, the inbox,
\* a thread; no page
MCVisits == {{"useListings"}, {"useListing", "useListingReviews"}, {"useListing"},
             {"useListingReviews"}, {"useOrders"}, {"useMessageThreads"}, {"useThread"}, {}}

\* A second change of a table on the pages of one query
MCMaxChanges == [v \in MCVisits |-> IF v = {"useListing", "useListingReviews"} THEN 1 ELSE 2]
=============================================================================
