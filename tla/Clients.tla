------------------------------ MODULE Clients ------------------------------
(***************************************************************************)
(* The client applications side by side.  They share no state: an initial  *)
(* state picks the part that runs, and the others stay as they began.      *)
(***************************************************************************)
EXTENDS ApiContract, QueryCache

CONSTANTS
    MockTabs, Server, None, MaxWrites,                          \* MockApi
    Keywords, NoKeyword, PageCount, MaxEdits, MaxCalls,         \* MobileDiscovery
    MaxSignIns, MaxLoads, MaxReplies,                           \* MobileMessaging
    Tabs, Accounts, Nobody,                                     \* WebSession
    Labels, Files, Places, NoPlace, MaxListings, MaxSubmits                      \* ListingForm

(* A file is known by its place among the files of its form; an empty      *)
(* search box is one that can be searched with.                            *)
ASSUME ClientsAssumption ==
    /\ Files \subseteq Nat
    /\ NoKeyword \in Keywords

VARIABLES
    client,     \* the part that runs
    memory, storage, kept, writes,
    keyword, page, hasMore, listings, loading, offline, due, rendered, searches, edits,
    user, signingIn, signIns, stored, inbox, thread, sending, replies,
    registered, writable, form, local, cookie, lastSession, stray, overlapped,
    store, opened, drafts, chosen, place, work, message, submits

Mock == INSTANCE MockApi WITH Tabs <- MockTabs
Discovery == INSTANCE MobileDiscovery
Mobile == INSTANCE MobileMessaging
Web == INSTANCE WebSession
Listing == INSTANCE ListingForm

mock == <<memory, storage, kept, writes>>
discovery == <<keyword, page, hasMore, listings, loading, offline, due, rendered,
               searches, edits>>
mobile == <<user, signingIn, signIns, stored, inbox, thread, sending, replies>>
web == <<registered, writable, form, local, cookie, lastSession, stray, overlapped>>
listing == <<store, opened, drafts, chosen, place, work, message, submits>>
vars == <<client, contractVars, mock, discovery, mobile, web, listing, cacheVars>>

Init ==
    /\ client \in {"contract", "mock", "discovery", "mobile", "web", "listing", "cache"}
    /\ ContractInit /\ (client # "contract" => gateway /\ looseStored = {})
    /\ Mock!MockInit
    /\ Discovery!DiscoveryInit
    /\ Mobile!MobileInit /\ (client # "mobile" => stored)
    /\ Web!SessionInit /\ (client # "web" => registered = {} /\ writable)
    /\ Listing!FormInit /\ (client # "listing" => store = <<>>)
    /\ CacheInit /\ (client # "cache" => tab = {})

Next ==
    \/ /\ client = "contract" /\ ContractNext
       /\ UNCHANGED <<client, mock, discovery, mobile, web, listing, cacheVars>>
    \/ /\ client = "mock" /\ Mock!MockNext
       /\ UNCHANGED <<client, contractVars, discovery, mobile, web, listing, cacheVars>>
    \/ /\ client = "discovery" /\ Discovery!DiscoveryNext
       /\ UNCHANGED <<client, contractVars, mock, mobile, web, listing, cacheVars>>
    \/ /\ client = "mobile" /\ Mobile!MobileNext
       /\ UNCHANGED <<client, contractVars, mock, discovery, web, listing, cacheVars>>
    \/ /\ client = "web" /\ Web!SessionNext
       /\ UNCHANGED <<client, contractVars, mock, discovery, mobile, listing, cacheVars>>
    \/ /\ client = "listing" /\ Listing!FormNext
       /\ UNCHANGED <<client, contractVars, mock, discovery, mobile, web, cacheVars>>
    \/ /\ client = "cache" /\ CacheNext
       /\ UNCHANGED <<client, contractVars, mock, discovery, mobile, web, listing>>

(* Only the discovery screen is asked for progress.                        *)
Spec == Init /\ [][Next]_vars /\ (client = "discovery" => Discovery!DiscoveryFairness)

-----------------------------------------------------------------------------
(* What a browser keeps for the app agrees with the app: the mock's state  *)
(* and the token of the session (MockApi, WebSession).                     *)
StorageAgrees == Mock!StorageAgrees /\ Web!LocalIsOfLastSession

(* Demo content of the mobile app is announced as such (MobileDiscovery,   *)
(* MobileMessaging).                                                       *)
DemoIsAnnounced == Discovery!DemoIsAnnounced /\ Mobile!DemoIsAnnounced

(* The discovery list comes to belong to the search box (MobileDiscovery). *)
ListConverges == Discovery!ListConverges

(* A reply that failed is not lost to the next one (MobileMessaging).      *)
RepliesSurvive == Mobile!RepliesSurvive

(* A form that says it saved the listing has saved it, but for a location  *)
(* taken away (ListingForm).                                               *)
SavedFormsAreComplete == Listing!SavedFormsAreComplete
=============================================================================
