----------------------------- MODULE QueryCache -----------------------------
(***************************************************************************)
(* The queries and mutations of the web app                                *)
(* (apps/web/src/lib/react-query/hooks.ts and the pages that use them)     *)
(* over the cache of one tab, React Query with the defaults of             *)
(* app-providers.tsx: an answer is fresh for 30 seconds and nothing is     *)
(* fetched again because a window has the focus.                           *)
(*                                                                         *)
(* The backend answers two of the queries from its own result caches,      *)
(* which no change of a table empties (listings/search.service.ts,         *)
(* messaging/messaging.service.ts).  A table of the backend is known by    *)
(* the number of its changes, what a query shows by the number it was read *)
(* at.  The library's rules are modelled as its version 5 has them.        *)
(***************************************************************************)
EXTENDS Naturals, Sequences, FiniteSets

CONSTANTS
    Visits,     \* the sets of queries a tab may use, by the pages visited in it
    MaxChanges  \* bound: changes of each table, by this tab and by others, for
                \* each of those sets

VARIABLES
    table,      \* how often each table has changed
    tab,        \* the queries the pages visited in this tab use
    query,      \* the cache's entry of each query
    mutation,   \* the mutation under way
    own,        \* the last change of each table this tab made by a mutation
    results     \* what the backend's result caches have for each query, 0 for
                \* nothing

cacheVars == <<table, tab, query, mutation, own, results>>

Tables == {"listings", "listing", "reviews", "orders", "messages"}

(* The hooks' queries, their keys and the table each one reads; "listing"  *)
(* stands for the row of one listing.                                      *)
Query(key, reads) == [key |-> key, reads |-> reads]
Queries == [
    useListings       |-> Query(<<"listings", "params">>, "listings"),
    useListing        |-> Query(<<"listing", "id">>, "listing"),
    useListingReviews |-> Query(<<"listing", "id", "reviews">>, "reviews"),
    useOrders         |-> Query(<<"orders">>, "orders"),
    useMessageThreads |-> Query(<<"threads", "user", "page">>, "messages"),
    useThread         |-> Query(<<"thread", "id">>, "messages")]

(* The queries the backend has a result cache for.                         *)
Cached == {"useListings", "useMessageThreads"}

(* A tab may visit any pages, or none that uses a query.                   *)
ASSUME CacheAssumption ==
    /\ Visits \subseteq SUBSET DOMAIN Queries /\ {} \in Visits
    /\ MaxChanges \in [Visits -> Nat]

(* The mutations, the tables each changes and the keys it invalidates.     *)
Mutation(writes, keys) == [writes |-> writes, keys |-> keys]
CreateReview == Mutation({"reviews"}, {<<"listing", "id", "reviews">>, <<"seller", "id", "reviews">>})
CreateListing == Mutation({"listings"}, {<<"listings">>})
UpdateListing == Mutation({"listings", "listing"}, {<<"listing", "id">>, <<"listings">>})
CreateOrder == Mutation({"orders"}, {<<"orders">>})
(* Sending a message without the key of the thread lists.                  *)
SendToThread == Mutation({"messages"}, {<<"thread", "id">>})
SendMessage == Mutation({"messages"}, {<<"thread", "id">>, <<"threads">>})
Mutations == {CreateReview, CreateListing, UpdateListing, CreateOrder, SendMessage}
NoMutation == Mutation({}, {})

(* What the pages change with no hook, and so with no key: the listing     *)
(* form uploads images, the walkthrough of /orders creates, pays, releases *)
(* and refunds an order, and the thread page acknowledges messages.        *)
UploadImage == Mutation({"listings", "listing"}, {})
WalkThrough == Mutation({"orders"}, {})
Acknowledge == Mutation({"messages"}, {})
WithoutHook == {UploadImage, WalkThrough, Acknowledge}

(* A mutation under way, and once it is stored the tables as it left them. *)
Sending(m) == [of |-> m, done |-> FALSE, at |-> [t \in Tables |-> 0]]

IsPrefixOf(k, key) == Len(k) <= Len(key) /\ SubSeq(key, 1, Len(k)) = k
Invalidates(m, q) == \E k \in m.keys : IsPrefixOf(k, Queries[q].key)

Latest(q) == table[Queries[q].reads]

(* data: the number it was read at, 0 for none; fetch: "none", "asked", or *)
(* "read" or "kept", with the number its answer was read at: in the table, *)
(* or in the backend's result cache.  History: the data is of that cache   *)
(* (cached); the fetch, or the one that brought the data, ran across an    *)
(* invalidation (crossing, overtaken).                                     *)
Empty == [data |-> 0, fetch |-> "none", read |-> 0, invalid |-> FALSE, fresh |-> FALSE,
          mounted |-> FALSE, cached |-> FALSE, crossing |-> FALSE, overtaken |-> FALSE]

CacheInit ==
    /\ table = [t \in Tables |-> 1]
    /\ tab \in Visits
    /\ query = [q \in tab |-> Empty]
    /\ mutation = Sending(NoMutation)
    /\ own = [t \in Tables |-> 1]
    /\ results = [q \in tab |-> 0]

Ask(e) == [e EXCEPT !.fetch = "asked", !.read = 0, !.crossing = FALSE]

-----------------------------------------------------------------------------
(* A component that uses the query is mounted: it is fetched unless it is  *)
(* fetched already or has fresh data.                                      *)
Mount(q) ==
    /\ ~query[q].mounted
    /\ LET e == [query[q] EXCEPT !.mounted = TRUE]
           fetches == e.fetch = "none" /\ (e.data = 0 \/ e.invalid \/ ~e.fresh)
       IN  query' = [query EXCEPT ![q] = IF fetches THEN Ask(e) ELSE e]
    /\ UNCHANGED <<table, tab, mutation, own, results>>

(* A fetch goes on when its component is gone.                             *)
Unmount(q) ==
    /\ query[q].mounted
    /\ query' = [query EXCEPT ![q].mounted = FALSE]
    /\ UNCHANGED <<table, tab, mutation, own, results>>

(* The entry of a query that is not mounted is dropped after a while.      *)
Collect(q) ==
    /\ ~query[q].mounted /\ query[q].data > 0 /\ query[q].fetch = "none"
    /\ query' = [query EXCEPT ![q] = Empty]
    /\ UNCHANGED <<table, tab, mutation, own, results>>

(* The staleTime of 30 seconds is over.                                    *)
Age(q) ==
    /\ query[q].fresh
    /\ query' = [query EXCEPT ![q].fresh = FALSE]
    /\ UNCHANGED <<table, tab, mutation, own, results>>

(* refetch: a push has come, a message was sent, or the interval of        *)
(* useThread is over.  A fetch that has data to fall back on starts again. *)
Refetch(q) ==
    /\ q \in {"useThread", "useMessageThreads"}
    /\ query[q].mounted
    /\ query[q].fetch = "none" \/ query[q].data > 0
    /\ query' = [query EXCEPT ![q] = Ask(@)]
    /\ UNCHANGED <<table, tab, mutation, own, results>>

(* The backend answers a fetch: with what its result cache has, or reads   *)
(* the table.                                                              *)
Response(q) ==
    IF q \in Cached /\ results[q] > 0 THEN [fetch |-> "kept", read |-> results[q]]
    ELSE [fetch |-> "read", read |-> Latest(q)]
Read(q) ==
    /\ query[q].fetch = "asked"
    /\ query' = [query EXCEPT ![q].fetch = Response(q).fetch, ![q].read = Response(q).read]
    /\ UNCHANGED <<table, tab, mutation, own, results>>

(* A request of this tab or of another one, which has read the table some  *)
(* time ago, puts its answer into the result cache ...                     *)
Keep(q) ==
    /\ q \in Cached
    /\ \E n \in 1..Latest(q) \ {results[q]} : results' = [results EXCEPT ![q] = n]
    /\ UNCHANGED <<table, tab, query, mutation, own>>

(* ... where it is for 30 seconds.                                         *)
Expire(q) ==
    /\ results[q] > 0
    /\ results' = [results EXCEPT ![q] = 0]
    /\ UNCHANGED <<table, tab, query, mutation, own>>

Deliver(q) ==
    /\ query[q].fetch \in {"read", "kept"}
    /\ query' = [query EXCEPT ![q].data = query[q].read, ![q].fetch = "none", ![q].read = 0,
                              ![q].invalid = FALSE, ![q].fresh = TRUE,
                              ![q].cached = query[q].fetch = "kept",
                              ![q].overtaken = query[q].crossing, ![q].crossing = FALSE]
    /\ UNCHANGED <<table, tab, mutation, own, results>>

(* A fetch fails for good: the data and its marks stay.                    *)
FetchFails(q) ==
    /\ query[q].fetch # "none"
    /\ query' = [query EXCEPT ![q].fetch = "none", ![q].read = 0,
                              ![q].crossing = FALSE]
    /\ UNCHANGED <<table, tab, mutation, own, results>>

-----------------------------------------------------------------------------
Changed(tables) == [t \in Tables |-> IF t \in tables THEN table[t] + 1 ELSE table[t]]

(* mutateAsync, of one of the tab's pages: the request is sent ...         *)
Mutate(m) ==
    /\ mutation = Sending(NoMutation)
    /\ \E q \in tab : Queries[q].reads \in m.writes
    /\ mutation' = Sending(m)
    /\ UNCHANGED <<table, tab, query, own, results>>

(* ... and the backend carries it out.                                     *)
Store ==
    /\ mutation.of # NoMutation /\ ~mutation.done
    /\ \A t \in mutation.of.writes : table[t] <= MaxChanges[tab]
    /\ table' = Changed(mutation.of.writes)
    /\ mutation' = [mutation EXCEPT !.done = TRUE, !.at = table']
    /\ UNCHANGED <<tab, query, own, results>>

(* An entry whose key is invalidated: it is fetched again when it is       *)
(* mounted, and a fetch under way is given up only when there is data.     *)
Invalidated(e) ==
    LET marked == [e EXCEPT !.invalid = TRUE]
    IN  IF e.mounted /\ (e.fetch = "none" \/ e.data > 0) THEN Ask(marked)
        ELSE [marked EXCEPT !.crossing = e.fetch # "none"]

(* onSuccess, also when the component is gone.                             *)
Succeed ==
    /\ mutation.done
    /\ own' = [t \in Tables |-> IF t \in mutation.of.writes THEN mutation.at[t] ELSE own[t]]
    /\ query' = [q \in tab |-> IF Invalidates(mutation.of, q)
                               THEN Invalidated(query[q]) ELSE query[q]]
    /\ mutation' = Sending(NoMutation)
    /\ UNCHANGED <<table, tab, results>>

(* The backend refuses, or the request or its answer is lost.              *)
MutationFails ==
    /\ mutation # Sending(NoMutation)
    /\ mutation' = Sending(NoMutation)
    /\ UNCHANGED <<table, tab, query, own, results>>

(* A page changes a table with no hook: no query is told.                  *)
ChangeWithoutHook(m) ==
    /\ \E q \in tab : Queries[q].reads \in m.writes
    /\ \A t \in m.writes : table[t] <= MaxChanges[tab]
    /\ table' = Changed(m.writes)
    /\ UNCHANGED <<tab, query, mutation, own, results>>

(* Somebody else changes a table.                                          *)
OtherChange(t) ==
    /\ table[t] <= MaxChanges[tab]
    /\ table' = Changed({t})
    /\ UNCHANGED <<tab, query, mutation, own, results>>

CacheNext ==
    \/ \E q \in tab :
          \/ Mount(q) \/ Unmount(q) \/ Collect(q) \/ Age(q) \/ Refetch(q)
          \/ Read(q) \/ Keep(q) \/ Expire(q) \/ Deliver(q) \/ FetchFails(q)
    \/ \E m \in Mutations : Mutate(m)
    \/ \E m \in WithoutHook : ChangeWithoutHook(m)
    \/ Store \/ Succeed \/ MutationFails
    \/ \E t \in {Queries[q].reads : q \in tab} : OtherChange(t)
-----------------------------------------------------------------------------
(* What this tab changed by a mutation of the hooks is not shown as it was *)
(* before: a query with older data is marked to be fetched again, unless   *)
(* the fetch that brought the data was under way when the change was       *)
(* answered and was not given up, or the backend answered it from its own  *)
(* result cache.  Only the listing and the thread lists have one, and of   *)
(* what a page changes with no hook nothing is promised.                   *)
OwnChangesAreShown ==
    \A q \in tab :
        LET e == query[q]
        IN  e.data > 0 /\ e.data < own[Queries[q].reads] =>
                e.invalid \/ e.overtaken \/ (q \in Cached /\ e.cached)
=============================================================================
