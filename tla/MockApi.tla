------------------------------ MODULE MockApi ------------------------------
(***************************************************************************)
(* The mock of the API that the web app uses when NEXT_PUBLIC_USE_API_MOCKS *)
(* is set (apps/web/src/lib/api-client.ts): one state in the globalThis of *)
(* each realm, a browser tab or the Next.js server, which a tab also keeps *)
(* in its sessionStorage.  A reload loses the memory and keeps the         *)
(* storage; the server has no storage; a write to the storage may throw.   *)
(***************************************************************************)
EXTENDS Naturals, Sequences

CONSTANTS
    Tabs,       \* the browser tabs
    Server,     \* the realm of the server components and server actions
    None,       \* no state kept
    MaxWrites   \* bound: calls that change a state

VARIABLES
    memory,     \* the state in each realm's globalThis, or None
    storage,    \* the state in each tab's sessionStorage, or None
    kept,       \* the tab's last write to its storage went through
    writes      \* bound: writes made

mockVars == <<memory, storage, kept, writes>>

Realms == Tabs \cup {Server}

NewListing(status) == [status |-> status, verdict |-> "APPROVED", images |-> 0]
NewOrder == [status |-> "PENDING", timeline |-> <<"PENDING">>]

(* The sample state (lines 79-218).  The moderation queue is a list of its *)
(* own: its entry of the sample listing waits, the listing is approved.    *)
Sample == [
    listings |-> <<NewListing("PUBLISHED")>>,
    orders   |-> <<NewOrder>>,
    messages |-> <<"APPROVED">>,
    kyc      |-> "PENDING",
    queue    |-> "PENDING",
    dispute  |-> "OPEN"]

MockInit ==
    /\ memory = [r \in Realms |-> None]
    /\ storage = [t \in Tabs |-> None]
    /\ kept = [t \in Tabs |-> FALSE]
    /\ writes = 0

-----------------------------------------------------------------------------
(* getMockState: the memory, else what the tab stored, else the sample.    *)
StateOf(r) ==
    CASE memory[r] # None                    -> memory[r]
      [] memory[r] = None /\ r \in Tabs      ->
            IF storage[r] # None THEN storage[r] ELSE Sample
      [] OTHER                               -> Sample

(* persistMockState: nothing on the server; in a tab, setItem or, when it  *)
(* throws, nothing (line 64).                                              *)
Persist(r, s, throws) ==
    IF r \in Tabs
    THEN /\ storage' = IF throws THEN storage ELSE [storage EXCEPT ![r] = s]
         /\ kept' = [kept EXCEPT ![r] = ~throws]
    ELSE UNCHANGED <<storage, kept>>

(* A method that changes the state s to another, and persists it.          *)
Write(r, s, throws) ==
    /\ writes < MaxWrites
    /\ writes' = writes + 1
    /\ memory' = [memory EXCEPT ![r] = s]
    /\ Persist(r, s, throws)

(* The first call in a realm makes its state, and persists the sample.     *)
FirstCall(r, throws) ==
    /\ memory[r] = None
    /\ memory' = [memory EXCEPT ![r] = StateOf(r)]
    /\ IF r \in Tabs /\ storage[r] # None
       THEN UNCHANGED <<storage, kept>>
       ELSE Persist(r, Sample, throws)
    /\ UNCHANGED writes

(* A page is loaded again, or the server is started again.                 *)
Restart(r) ==
    /\ memory[r] # None
    /\ memory' = [memory EXCEPT ![r] = None]
    /\ UNCHANGED <<storage, kept, writes>>

-----------------------------------------------------------------------------
(* The methods.  A listing or an order is known by its place in the list;  *)
(* new ones are put in front (unshift).                                    *)
CreateListing(r, status, throws) ==
    LET s == StateOf(r)
    IN  Write(r, [s EXCEPT !.listings = <<NewListing(status)>> \o @], throws)

UpdateListing(r, n, status, throws) ==
    LET s == StateOf(r)
    IN  /\ n \in DOMAIN s.listings
        /\ Write(r, [s EXCEPT !.listings[n].status = status], throws)

UploadImage(r, n, throws) ==
    LET s == StateOf(r)
    IN  /\ n \in DOMAIN s.listings
        /\ Write(r, [s EXCEPT !.listings[n].images = @ + 1], throws)

CreateOrder(r, throws) ==
    LET s == StateOf(r)
    IN  Write(r, [s EXCEPT !.orders = <<NewOrder>> \o @], throws)

(* updateStatus without the persist of line 396.                           *)
UpdateStatusInMemory(r, n, status, throws) ==
    LET s == StateOf(r)
    IN  /\ n \in DOMAIN s.orders
        /\ writes < MaxWrites /\ writes' = writes + 1
        /\ memory' = [memory EXCEPT ![r] = [s EXCEPT
               !.orders[n] = [status |-> status, timeline |-> Append(@.timeline, status)]]]
        /\ UNCHANGED <<storage, kept>>

(* updateStatus: any status, whatever the order's is.                      *)
UpdateStatus(r, n, status, throws) ==
    LET s == StateOf(r)
    IN  /\ n \in DOMAIN s.orders
        /\ Write(r, [s EXCEPT !.orders[n] =
               [status |-> status, timeline |-> Append(@.timeline, status)]], throws)

(* sendMessage: a body with "bad" in it is flagged.                        *)
SendMessage(r, bad, throws) ==
    LET s == StateOf(r)
    IN  Write(r, [s EXCEPT !.messages =
               Append(@, IF bad THEN "FLAGGED" ELSE "APPROVED")], throws)

(* The console's reviews: the queue's entry changes, never the listing.    *)
ReviewKyc(r, status, throws) ==
    Write(r, [StateOf(r) EXCEPT !.kyc = status], throws)
ReviewListing(r, verdict, throws) ==
    Write(r, [StateOf(r) EXCEPT !.queue = verdict], throws)
ResolveDispute(r, status, throws) ==
    Write(r, [StateOf(r) EXCEPT !.dispute = status], throws)

MockNext ==
    \E r \in Realms, throws \in BOOLEAN :
        \/ FirstCall(r, throws)
        \/ ~throws /\ Restart(r)
        \/ CreateListing(r, "PUBLISHED", throws)
        \/ \E n \in {1, 2} : UpdateListing(r, n, "PAUSED", throws)
        \/ \E n \in {1, 2} : UploadImage(r, n, throws)
        \/ CreateOrder(r, throws)
        \/ \E n \in {1, 2} : UpdateStatus(r, n, "PAID", throws)
        \/ \E bad \in BOOLEAN : SendMessage(r, bad, throws)
        \/ ReviewKyc(r, "APPROVED", throws)
        \/ ReviewListing(r, "REJECTED", throws)
        \/ ResolveDispute(r, "RESOLVED", throws)
-----------------------------------------------------------------------------
(* What a tab shows of the mock is what a reload will show, as long as its *)
(* last write to the storage went through: no method forgets to persist.   *)
StorageAgrees ==
    \A t \in Tabs : memory[t] # None /\ kept[t] => storage[t] = memory[t]
=============================================================================
