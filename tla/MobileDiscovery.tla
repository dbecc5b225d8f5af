-------------------------- MODULE MobileDiscovery --------------------------
(***************************************************************************)
(* The listing discovery screen of the mobile app                          *)
(* (apps/mobile/src/screens/ListingDiscoveryScreen.tsx).                   *)
(*                                                                         *)
(* A React component is a state and its closures.  `loadPage` is made      *)
(* again whenever hasMore, keyword or loading changes (line 53), and the   *)
(* effect of line 56 runs every new one: `due` says that a render with     *)
(* loading = FALSE is committed and its effect has not run yet.  An effect *)
(* runs after the commit and before the next render, so a gesture or an    *)
(* answer can still come first: the effect then runs with the closure in   *)
(* which nothing was loading, and until it has, what the gesture or the    *)
(* answer changed is not `rendered`.                                       *)
(***************************************************************************)
EXTENDS Naturals, Sequences, Bags, FiniteSets

CONSTANTS
    Keywords,       \* what can stand in the search box
    NoKeyword,      \* the empty search box (line 33)
    PageCount,      \* the pages the backend has for each keyword
    MaxEdits,       \* bound: edits of the search box
    MaxCalls        \* bound: searches in flight, started by the user's gestures

VARIABLES
    keyword,        \* the search box
    page, hasMore,  \* the pager
    listings,       \* what is listed: the blocks of listings, in their order
    loading,
    offline,        \* the error line "Using demo listings while we reconnect." is shown
    due,            \* the effect of the last render has not run
    rendered,       \* the screen shows this state
    searches,       \* the bag of searches whose answer has not come
    edits           \* bound: edits made

discoveryVars == <<keyword, page, hasMore, listings, loading, offline, due,
                   rendered, searches, edits>>

(* A block is one answer's listings, or the demo listings of the app.      *)
Demo == [keyword |-> "demo", page |-> 0]
Block(k, n) == [keyword |-> k, page |-> n]
Search(k, n, append) == [keyword |-> k, page |-> n, append |-> append]

DiscoveryInit ==
    /\ keyword = NoKeyword
    /\ page = 1 /\ hasMore = TRUE
    /\ listings = <<>>
    /\ loading = FALSE /\ offline = FALSE
    /\ due = TRUE /\ rendered = TRUE
    /\ searches = EmptyBag
    /\ edits = 0

-----------------------------------------------------------------------------
(* The render that ends a load makes a new loadPage, and so an effect,     *)
(* because `loading` is one of its dependencies (line 53).  A render that  *)
(* starts one makes a loadPage that gives up (line 37).                    *)
RerunsSettled(more) == more # hasMore
Reruns(more) == more # hasMore \/ loading

StartLoad(k, n, append) ==
    /\ loading' = TRUE /\ offline' = FALSE
    /\ searches' = searches (+) SetToBag({Search(k, n, append)})
    /\ UNCHANGED <<keyword, page, hasMore, listings, edits>>

(* The effect of line 56, with the closure in which nothing was loading:   *)
(* page 1 is to replace the list.                                          *)
RunEffect ==
    /\ due
    /\ due' = FALSE /\ rendered' = TRUE
    /\ StartLoad(keyword, 1, FALSE)

(* A gesture calls the loadPage of the last render: it gives up when that  *)
(* render is loading (line 37), and it comes before the effect otherwise.  *)
Idle == due \/ ~loading
Gesture(n, append) ==
    /\ Idle
    /\ BagCardinality(searches) < MaxCalls
    /\ StartLoad(keyword, n, append)
    /\ rendered' = ~due
    /\ UNCHANGED due

EndReached == hasMore /\ Gesture(page + 1, TRUE)

(* onRefresh, and onSubmitEditing of the search box (line 86).             *)
Refresh == Gesture(1, FALSE)

(* onChangeText.  While a load runs the new loadPage gives up at once, and *)
(* no other is made until the load ends.                                   *)
Edit(k) ==
    /\ ~due
    /\ edits < MaxEdits /\ k # keyword
    /\ edits' = edits + 1
    /\ keyword' = k
    /\ due' = ~loading
    /\ UNCHANGED <<page, hasMore, listings, loading, offline, rendered, searches>>

EndLoad(s, more) ==
    /\ hasMore' = more
    /\ loading' = FALSE
    /\ due' = (due \/ Reruns(more)) /\ rendered' = ~due
    /\ searches' = searches (-) SetToBag({s})
    /\ UNCHANGED <<keyword, edits>>

(* A search is answered (lines 42-44) and its load ends (line 50).         *)
Answered(s) ==
    /\ EndLoad(s, s.page < PageCount[s.keyword])
    /\ listings' = LET data == IF s.page <= PageCount[s.keyword]
                              THEN <<Block(s.keyword, s.page)>> ELSE <<>>
                   IN  IF s.append THEN listings \o data ELSE data
    /\ page' = s.page
    /\ UNCHANGED offline

(* A search fails and the error line is left as it was.                    *)
FailedQuietly(s) ==
    /\ EndLoad(s, FALSE)
    /\ listings' = <<Demo>>
    /\ UNCHANGED <<page, offline>>

(* A search fails (lines 46-48): the demo listings are shown.              *)
Failed(s) ==
    /\ EndLoad(s, FALSE)
    /\ listings' = <<Demo>>
    /\ offline' = TRUE
    /\ UNCHANGED page

InFlight == BagToSet(searches)
Pages == UNION {1..(PageCount[k] + 1) : k \in Keywords}

DiscoveryNext ==
    \/ RunEffect
    \/ EndReached
    \/ Refresh
    \/ \E k \in Keywords : Edit(k)
    \/ \E s \in InFlight : Answered(s)
    \/ \E s \in InFlight : Failed(s)

(* Network fairness: every request is answered or fails, and React runs    *)
(* the effects it has scheduled.  Gestures and edits may never come.       *)
DiscoveryFairness ==
    /\ WF_discoveryVars(RunEffect)
    /\ \A k \in Keywords, n \in Pages, append \in BOOLEAN :
          LET s == Search(k, n, append)
          IN  WF_discoveryVars(s \in InFlight /\ (Answered(s) \/ Failed(s)))
-----------------------------------------------------------------------------
(* The demo listings of the app are never listed as if they were the       *)
(* market, not even with pages of the market behind them: the error line   *)
(* is shown, or a search is on its way.                                    *)
DemoIsAnnounced ==
    rendered /\ (\E n \in DOMAIN listings : listings[n] = Demo) =>
        offline \/ InFlight # {}

(* Once the user stops typing, only listings of the keyword in the search  *)
(* box stay listed, or the demo listings: an answer to an older keyword,   *)
(* which may come last, is replaced.                                       *)
ListConverges ==
    <>[](\A n \in DOMAIN listings : listings[n].keyword \in {keyword, Demo.keyword})

(* Why it does: a search for what is in the search box is about to begin,  *)
(* or a load runs whose end makes the next one due.                        *)
ScreenNeverRests == due \/ (loading /\ InFlight # {})
=============================================================================
