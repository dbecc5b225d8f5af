---------------------------- MODULE ClientProofs ----------------------------
(***************************************************************************)
(* Proofs about the clients, one section per part.  Each part has its own  *)
(* invariant; a step of the composition is a step of one part and leaves   *)
(* the others as they are (StepOfOne).                                     *)
(***************************************************************************)
EXTENDS Clients, Integers, SequenceTheorems, WellFoundedInduction, TLAPS

-----------------------------------------------------------------------------
(* The mock: each realm has its memory, each tab its storage, and the two  *)
(* agree unless the last write to the storage was refused.                 *)
MockInv ==
    /\ DOMAIN memory = Mock!Realms
    /\ DOMAIN storage = MockTabs /\ DOMAIN kept = MockTabs
    /\ Mock!StorageAgrees

(* A method that changes a state keeps the memory and the storage of its   *)
(* realm in agreement (persistMockState).                                  *)
LEMMA WriteAgrees ==
    ASSUME NEW r \in Mock!Realms, NEW s, NEW throws \in BOOLEAN,
           MockInv, Mock!Write(r, s, throws)
    PROVE  MockInv'
BY DEF MockInv, Mock!Write, Mock!Persist, Mock!StorageAgrees, Mock!Realms

(* The first call in a realm makes the memory what the storage says, or    *)
(* both the sample (getMockState).                                         *)
LEMMA FirstCallAgrees ==
    ASSUME NEW r \in Mock!Realms, NEW throws \in BOOLEAN,
           MockInv, Mock!FirstCall(r, throws)
    PROVE  MockInv'
<1>1. CASE r \in MockTabs /\ storage[r] # None
  <2>1. Mock!StateOf(r) = storage[r]
    BY <1>1 DEF Mock!FirstCall, Mock!StateOf
  <2>2. QED
    BY <1>1, <2>1 DEF MockInv, Mock!FirstCall, Mock!StorageAgrees, Mock!Realms
<1>2. CASE r \in MockTabs /\ storage[r] = None
  <2>1. Mock!StateOf(r) = Mock!Sample
    BY <1>2 DEF Mock!FirstCall, Mock!StateOf
  <2>2. QED
    BY <1>2, <2>1
    DEF MockInv, Mock!FirstCall, Mock!Persist, Mock!StorageAgrees, Mock!Realms
<1>3. CASE r \notin MockTabs
  BY <1>3 DEF MockInv, Mock!FirstCall, Mock!Persist, Mock!StorageAgrees, Mock!Realms
<1>4. QED
  BY <1>1, <1>2, <1>3

(* Every step of the mock keeps its invariant.                             *)
LEMMA MockStep ==
    MockInv /\ [Mock!MockNext]_mock => MockInv'
<1> SUFFICES ASSUME MockInv, [Mock!MockNext]_mock
             PROVE  MockInv'
  OBVIOUS
<1>1. CASE UNCHANGED mock
  BY <1>1 DEF mock, MockInv, Mock!StorageAgrees
<1>2. ASSUME NEW r \in Mock!Realms, NEW throws \in BOOLEAN,
             \/ Mock!CreateListing(r, "PUBLISHED", throws)
             \/ \E n \in {1, 2} : Mock!UpdateListing(r, n, "PAUSED", throws)
             \/ \E n \in {1, 2} : Mock!UploadImage(r, n, throws)
             \/ Mock!CreateOrder(r, throws)
             \/ \E n \in {1, 2} : Mock!UpdateStatus(r, n, "PAID", throws)
             \/ \E bad \in BOOLEAN : Mock!SendMessage(r, bad, throws)
             \/ Mock!ReviewKyc(r, "APPROVED", throws)
             \/ Mock!ReviewListing(r, "REJECTED", throws)
             \/ Mock!ResolveDispute(r, "RESOLVED", throws)
      PROVE  MockInv'
  <2>1. \E s : Mock!Write(r, s, throws)
    BY <1>2 DEF Mock!CreateListing, Mock!UpdateListing, Mock!UploadImage, Mock!CreateOrder,
                Mock!UpdateStatus, Mock!SendMessage, Mock!ReviewKyc, Mock!ReviewListing,
                Mock!ResolveDispute
  <2>2. QED
    BY <2>1, WriteAgrees
<1>3. ASSUME NEW r \in Mock!Realms, Mock!Restart(r)
      PROVE  MockInv'
  BY <1>3 DEF MockInv, Mock!Restart, Mock!StorageAgrees, Mock!Realms
<1>4. QED
  BY <1>1, <1>2, <1>3, FirstCallAgrees DEF Mock!MockNext

-----------------------------------------------------------------------------
(* Sign-in: as long as forms were never submitted at once there is one at  *)
(* most; the token is the last session's, or, while its session is about   *)
(* to begin, the form's own.                                               *)
WebInv ==
    /\ form \in [Tabs -> [stage : {"idle", "login", "register", "signIn", "signUp"},
                          account : Accounts \cup {Nobody}]]
    /\ overlapped \in BOOLEAN
    /\ ~writable => local = Nobody
    /\ ~overlapped =>
          /\ \A t, u \in Tabs : Web!Submitted(t) /\ Web!Submitted(u) => t = u
          /\ \/ local \in {Nobody, lastSession, stray}
             \/ \E t \in Tabs : Web!SigningIn(t) /\ local = form[t].account
          /\ \A t \in Tabs : Web!SigningIn(t) => local \in {Nobody, form[t].account}

(* Every step of the forms keeps their invariant.                          *)
LEMMA WebStep ==
    WebInv /\ [Web!SessionNext]_web => WebInv'
<1> SUFFICES ASSUME WebInv, [Web!SessionNext]_web
             PROVE  WebInv'
  OBVIOUS
<1> USE DEF WebInv, Web!Submitted, Web!SigningIn, Web!Ends, Web!Form, Web!IdleForm
<1>1. CASE UNCHANGED web
  BY <1>1 DEF web
<1>2. ASSUME NEW t \in Tabs, NEW kind \in {"login", "register"}, NEW a \in Accounts,
             Web!Submit(t, kind, a)
      PROVE  WebInv'
  BY <1>2 DEF Web!Submit
<1>3. ASSUME NEW t \in Tabs, Web!Authorized(t)
      PROVE  WebInv'
  BY <1>3 DEF Web!Authorized
<1>4. ASSUME NEW t \in Tabs, Web!RegisterLost(t)
      PROVE  WebInv'
  BY <1>4 DEF Web!RegisterLost
<1>5. ASSUME NEW t \in Tabs, Web!SignedIn(t)
      PROVE  WebInv'
  BY <1>5 DEF Web!SignedIn
<1>6. ASSUME NEW t \in Tabs, Web!Fail(t)
      PROVE  WebInv'
  BY <1>6 DEF Web!Fail
<1>7. CASE Web!SignOut
  BY <1>7 DEF Web!SignOut
<1>8. ASSUME NEW t \in Tabs, Web!WentOn(t)
      PROVE  WebInv'
  BY <1>8 DEF Web!WentOn
<1>9. ASSUME NEW t \in Tabs, Web!Leave(t)
      PROVE  WebInv'
  BY <1>9 DEF Web!Leave
<1>10. QED
  BY <1>1, <1>2, <1>3, <1>4, <1>5, <1>6, <1>7, <1>8, <1>9 DEF Web!SessionNext

(* With no form submitted the invariant says what is promised.             *)
LEMMA WebAgrees ==
    WebInv => Web!LocalIsOfLastSession
BY DEF WebInv, Web!LocalIsOfLastSession, Web!Submitted, Web!SigningIn

-----------------------------------------------------------------------------
(* The mobile app.  Its inbox: what is promised of the demo threads.       *)
InboxType == [open : BOOLEAN, demo : BOOLEAN, error : BOOLEAN, loading : BOOLEAN,
              loads : Nat]
InboxInv ==
    /\ inbox \in InboxType
    /\ inbox.demo => inbox.error \/ inbox.loads > 0

(* Its thread: what is promised of the demo messages; the reply on its way *)
(* is of an open thread, which shows no saved reply its closure does not.  *)
ShownType == [source : {"nothing", "demo", "backend"}, saved : SUBSET Nat]
ThreadType == [open : BOOLEAN, shown : ShownType, error : BOOLEAN, loads : Nat]
ReplyType == [reply : Nat, base : ShownType]
ThreadInv ==
    /\ thread \in ThreadType /\ sending \in ReplyType /\ replies \in Nat
    /\ thread.shown.source = "demo" =>
          thread.error \/ thread.loads > 0 \/ sending # Mobile!NoReply
    /\ ~thread.open => thread.shown.saved = {}
    /\ sending # Mobile!NoReply =>
          thread.open /\ thread.shown.saved \subseteq sending.base.saved

(* A load that begins takes the error line away and is counted             *)
(* (loadThreads, loadThread).                                              *)
LEMMA LoadInboxIs ==
    ASSUME NEW i \in InboxType
    PROVE  /\ Mobile!LoadInbox(i) \in InboxType
           /\ Mobile!LoadInbox(i).loads > 0
<1>1. i.loads + 1 \in Nat /\ i.loads + 1 > 0
  BY DEF InboxType
<1>2. Mobile!LoadInbox(i) \in InboxType
  BY <1>1, Zenon DEF Mobile!LoadInbox, InboxType
<1>3. Mobile!LoadInbox(i).loads = i.loads + 1
  BY DEF Mobile!LoadInbox, InboxType
<1>4. QED
  BY <1>1, <1>2, <1>3

(* A load of the thread that begins leaves what is shown.                  *)
LEMMA LoadThreadIs ==
    ASSUME NEW t \in ThreadType
    PROVE  /\ Mobile!LoadThread(t) \in ThreadType
           /\ Mobile!LoadThread(t).loads > 0
           /\ Mobile!LoadThread(t).shown = t.shown
           /\ Mobile!LoadThread(t).open = t.open
<1>1. t.loads + 1 \in Nat /\ t.loads + 1 > 0
  BY DEF ThreadType
<1>2. Mobile!LoadThread(t) \in ThreadType
  BY <1>1, Zenon DEF Mobile!LoadThread, ThreadType
<1>3. /\ Mobile!LoadThread(t).loads = t.loads + 1
      /\ Mobile!LoadThread(t).shown = t.shown
      /\ Mobile!LoadThread(t).open = t.open
  BY DEF Mobile!LoadThread, ThreadType
<1>4. QED
  BY <1>1, <1>2, <1>3

(* Every step of the app keeps the invariant of the inbox.                 *)
LEMMA InboxStep ==
    InboxInv /\ [Mobile!MobileNext]_mobile => InboxInv'
<1> SUFFICES ASSUME InboxInv, [Mobile!MobileNext]_mobile
             PROVE  InboxInv'
  OBVIOUS
<1>1. CASE UNCHANGED inbox
  BY <1>1 DEF InboxInv
<1>2. CASE inbox' = Mobile!LoadInbox(inbox)
  BY <1>2, LoadInboxIs DEF InboxInv
<1>3. CASE Mobile!OpenInbox
  <2> DEFINE i == [Mobile!ClosedInbox EXCEPT !.open = TRUE]
  <2>1. i \in InboxType
    BY DEF InboxType, Mobile!ClosedInbox
  <2>2. inbox' = Mobile!LoadInbox(i)
    BY <1>3 DEF Mobile!OpenInbox
  <2>3. QED
    BY <2>1, <2>2, LoadInboxIs DEF InboxInv
<1>4. CASE Mobile!InboxAnswered
  <2>1. inbox.loads - 1 \in Nat
    BY <1>4 DEF Mobile!InboxAnswered, InboxInv, InboxType
  <2>2. inbox' \in InboxType
    BY <1>4, <2>1, Zenon DEF Mobile!InboxAnswered, InboxInv, InboxType
  <2>3. inbox'.demo = FALSE
    BY <1>4 DEF Mobile!InboxAnswered, InboxInv, InboxType
  <2>4. QED
    BY <2>2, <2>3 DEF InboxInv
<1>5. CASE Mobile!InboxFailed
  <2>1. inbox.loads - 1 \in Nat
    BY <1>5 DEF Mobile!InboxFailed, InboxInv, InboxType
  <2>2. inbox' \in InboxType
    BY <1>5, <2>1, Zenon DEF Mobile!InboxFailed, InboxInv, InboxType
  <2>3. inbox'.error = TRUE
    BY <1>5 DEF Mobile!InboxFailed, InboxInv, InboxType
  <2>4. QED
    BY <2>2, <2>3 DEF InboxInv
<1>6. QED
  BY <1>1, <1>2, <1>3, <1>4, <1>5
  DEF mobile, Mobile!MobileNext, Mobile!SignIn, Mobile!SignInAnswered, Mobile!SignInFailed,
      Mobile!EnterDemo, Mobile!SetAuth, Mobile!RefreshInbox, Mobile!OpenThread,
      Mobile!LeaveThread, Mobile!ThreadAnswered, Mobile!ThreadFailed, Mobile!Send,
      Mobile!SendAnswered, Mobile!SendFailed

(* Every step of the app keeps the invariant of the thread.                *)
LEMMA ThreadStep ==
    ThreadInv /\ [Mobile!MobileNext]_mobile => ThreadInv'
<1> SUFFICES ASSUME ThreadInv, [Mobile!MobileNext]_mobile
             PROVE  ThreadInv'
  OBVIOUS
<1>t. /\ thread \in ThreadType /\ sending \in ReplyType
      /\ Mobile!NoReply \in ReplyType
  BY DEF ThreadInv, Mobile!NoReply, Mobile!Nothing, Mobile!Shown, ReplyType, ShownType
<1>s. /\ Mobile!Shown("backend", {}) \in ShownType /\ Mobile!Shown("backend", {}).saved = {}
      /\ Mobile!Shown("backend", {}).source = "backend"
      /\ Mobile!DemoThread \in ShownType /\ Mobile!DemoThread.saved = {}
      /\ Mobile!Nothing \in ShownType /\ Mobile!Nothing.saved = {}
      /\ Mobile!Nothing.source = "nothing"
  BY DEF Mobile!Shown, Mobile!DemoThread, Mobile!Nothing, ShownType
<1>1. CASE UNCHANGED <<thread, sending, replies>>
  BY <1>1 DEF ThreadInv
<1>2. CASE /\ thread' = IF thread.open THEN Mobile!LoadThread(thread) ELSE thread
           /\ UNCHANGED <<sending, replies>>
  <2>1. CASE thread.open
    BY <1>2, <2>1, LoadThreadIs DEF ThreadInv
  <2>2. CASE ~thread.open
    BY <1>2, <2>2 DEF ThreadInv
  <2>3. QED
    BY <2>1, <2>2
<1>3. CASE Mobile!OpenThread
  <2> DEFINE t == [Mobile!ClosedThread EXCEPT !.open = TRUE, !.shown = Mobile!DemoThread]
  <2>1. t \in ThreadType /\ t.open = TRUE
    BY <1>s, Zenon DEF Mobile!ClosedThread, ThreadType
  <2>2. thread' = Mobile!LoadThread(t) /\ sending = Mobile!NoReply
    BY <1>3 DEF Mobile!OpenThread, ThreadInv
  <2> HIDE DEF t
  <2>3. thread' \in ThreadType /\ thread'.loads > 0 /\ thread'.open = TRUE
    BY <2>1, <2>2, LoadThreadIs
  <2>4. UNCHANGED <<sending, replies>>
    BY <1>3 DEF Mobile!OpenThread
  <2>5. QED
    BY <2>2, <2>3, <2>4 DEF ThreadInv
<1>4. CASE Mobile!LeaveThread
  <2>1. thread' \in ThreadType /\ thread'.shown = Mobile!Nothing
    BY <1>4, <1>s DEF Mobile!LeaveThread, Mobile!ClosedThread, ThreadType
  <2>2. sending' = Mobile!NoReply /\ UNCHANGED replies
    BY <1>4 DEF Mobile!LeaveThread
  <2>3. QED
    BY <1>s, <1>t, <2>1, <2>2 DEF ThreadInv
<1>5. CASE Mobile!ThreadAnswered
  <2>1. thread.loads - 1 \in Nat
    BY <1>5, <1>t DEF Mobile!ThreadAnswered, ThreadType
  <2>2. thread' \in ThreadType
    BY <1>5, <1>t, <1>s, <2>1, Zenon DEF Mobile!ThreadAnswered, ThreadType
  <2>3. thread'.shown = Mobile!Shown("backend", {}) /\ thread'.open = thread.open
    BY <1>5, <1>t DEF Mobile!ThreadAnswered, ThreadType
  <2>4. UNCHANGED <<sending, replies>>
    BY <1>5 DEF Mobile!ThreadAnswered
  <2>5. QED
    BY <1>s, <1>t, <2>2, <2>3, <2>4 DEF ThreadInv
<1>6. CASE Mobile!ThreadFailed
  <2>1. thread.loads - 1 \in Nat
    BY <1>6, <1>t DEF Mobile!ThreadFailed, ThreadType
  <2>2. thread' \in ThreadType
    BY <1>6, <1>t, <1>s, <2>1, Zenon DEF Mobile!ThreadFailed, ThreadType
  <2>3. thread'.shown = Mobile!DemoThread /\ thread'.open = thread.open /\ thread'.error = TRUE
    BY <1>6, <1>t DEF Mobile!ThreadFailed, ThreadType
  <2>4. UNCHANGED <<sending, replies>>
    BY <1>6 DEF Mobile!ThreadFailed
  <2>5. QED
    BY <1>s, <1>t, <2>2, <2>3, <2>4 DEF ThreadInv
<1>7. CASE Mobile!Send
  <2>1. thread' \in ThreadType
    BY <1>7, <1>t, Zenon DEF Mobile!Send, ThreadType
  <2>2. thread'.shown = thread.shown /\ thread'.open = TRUE
    BY <1>7, <1>t DEF Mobile!Send, ThreadType
  <2>3. /\ sending' = [reply |-> replies + 1, base |-> thread.shown]
        /\ replies' = replies + 1 /\ replies' \in Nat /\ replies' # 0
    BY <1>7 DEF Mobile!Send, ThreadInv
  <2>4. sending' \in ReplyType /\ sending' # Mobile!NoReply /\ sending'.base = thread.shown
    BY <1>t, <2>3 DEF ReplyType, ThreadType, Mobile!NoReply
  <2>5. QED
    BY <1>t, <2>1, <2>2, <2>3, <2>4 DEF ThreadInv
<1>8. CASE Mobile!SendAnswered
  <2>1. thread' \in ThreadType
    BY <1>8, <1>t, <1>s, Zenon DEF Mobile!SendAnswered, ThreadType
  <2>2. thread'.shown = Mobile!Shown("backend", {}) /\ thread'.open = thread.open
    BY <1>8, <1>t DEF Mobile!SendAnswered, ThreadType
  <2>3. sending' = Mobile!NoReply /\ UNCHANGED replies
    BY <1>8 DEF Mobile!SendAnswered
  <2>4. QED
    BY <1>s, <1>t, <2>1, <2>2, <2>3 DEF ThreadInv
<1>9. CASE Mobile!SendFailed
  <2> DEFINE a == Mobile!Appended(sending.base, sending.reply)
  <2>1. a \in ShownType
    BY <1>t DEF Mobile!Appended, Mobile!Shown, ReplyType, ShownType
  <2>2. thread' = [thread EXCEPT !.shown = a, !.error = TRUE]
    BY <1>9 DEF Mobile!SendFailed
  <2> HIDE DEF a
  <2>3. thread' \in ThreadType
    BY <1>t, <2>1, <2>2, Zenon DEF ThreadType
  <2>4. thread'.error = TRUE /\ thread'.open = thread.open
    BY <1>t, <2>2 DEF ThreadType
  <2>5. sending' = Mobile!NoReply /\ UNCHANGED replies /\ sending # Mobile!NoReply
    BY <1>9 DEF Mobile!SendFailed
  <2>6. QED
    BY <1>t, <2>3, <2>4, <2>5 DEF ThreadInv
<1>10. QED
  BY <1>1, <1>2, <1>3, <1>4, <1>5, <1>6, <1>7, <1>8, <1>9
  DEF mobile, Mobile!MobileNext, Mobile!SignIn, Mobile!SignInAnswered, Mobile!SignInFailed,
      Mobile!EnterDemo, Mobile!SetAuth, Mobile!OpenInbox, Mobile!RefreshInbox,
      Mobile!InboxAnswered, Mobile!InboxFailed

(* What a reply that fails leaves on the screen has every reply saved      *)
(* there before: the closure it was sent from had them.                    *)
LEMMA AppendedKeepsSaved ==
    ASSUME ThreadInv, Mobile!SendFailed
    PROVE  thread.shown.saved \subseteq thread'.shown.saved
<1>1. thread'.shown = Mobile!Appended(sending.base, sending.reply)
  BY DEF ThreadInv, ThreadType, Mobile!SendFailed
<1>2. sending.base.saved \subseteq thread'.shown.saved
  BY <1>1 DEF Mobile!Appended, Mobile!Shown
<1>3. QED
  BY <1>2 DEF ThreadInv, Mobile!SendFailed

(* A step that takes a saved reply from the screen is the answer to a load *)
(* or to a reply, or leaves the screen.                                    *)
LEMMA SavedStay ==
    ASSUME ThreadInv, [Mobile!MobileNext]_mobile
    PROVE  [thread.shown.saved \subseteq thread'.shown.saved
            \/ thread'.loads < thread.loads
            \/ thread'.shown.source = "backend"
            \/ ~thread'.open]_mobile
<1>1. CASE UNCHANGED thread
  BY <1>1
<1>2. CASE thread' = IF thread.open THEN Mobile!LoadThread(thread) ELSE thread
  BY <1>2, LoadThreadIs DEF ThreadInv
<1>3. CASE Mobile!OpenThread
  BY <1>3 DEF Mobile!OpenThread, ThreadInv
<1>4. CASE Mobile!LeaveThread
  BY <1>4 DEF Mobile!LeaveThread, Mobile!ClosedThread
<1>5. CASE Mobile!ThreadAnswered \/ Mobile!ThreadFailed
  <2>1. thread'.loads = thread.loads - 1 /\ thread.loads \in Nat
    BY <1>5 DEF Mobile!ThreadAnswered, Mobile!ThreadFailed, ThreadInv, ThreadType
  <2>2. QED
    BY <2>1
<1>6. CASE Mobile!Send
  <2>1. thread'.shown = thread.shown
    BY <1>6 DEF Mobile!Send, ThreadInv, ThreadType
  <2>2. QED
    BY <2>1
<1>7. CASE Mobile!SendAnswered
  <2>1. thread'.shown = Mobile!Shown("backend", {})
    BY <1>7 DEF Mobile!SendAnswered, ThreadInv, ThreadType
  <2>2. QED
    BY <2>1 DEF Mobile!Shown
<1>8. CASE Mobile!SendFailed
  BY <1>8, AppendedKeepsSaved
<1>9. QED
  BY <1>1, <1>2, <1>3, <1>4, <1>5, <1>6, <1>7, <1>8
  DEF mobile, Mobile!MobileNext, Mobile!SignIn, Mobile!SignInAnswered, Mobile!SignInFailed,
      Mobile!EnterDemo, Mobile!SetAuth, Mobile!OpenInbox, Mobile!RefreshInbox,
      Mobile!InboxAnswered, Mobile!InboxFailed

-----------------------------------------------------------------------------
(* The discovery screen.  Demo listings that are rendered without the      *)
(* error line are about to be replaced: a search of page 1 is on its way.  *)
(* A further page can only be asked for behind them while that search, or  *)
(* the effect that begins it, is still to come.                            *)
HasDemo == \E n \in DOMAIN listings : listings[n] = Discovery!Demo
Replacing == \E s \in DOMAIN searches : ~s.append
SearchType == [keyword : Keywords, page : Nat \ {0}, append : BOOLEAN]
BlockType == [keyword : Keywords \cup {"demo"}, page : Nat]
DiscoveryInv ==
    /\ keyword \in Keywords /\ page \in Nat \ {0}
    /\ hasMore \in BOOLEAN /\ due \in BOOLEAN /\ rendered \in BOOLEAN
    /\ listings \in Seq(BlockType)
    /\ searches \in [DOMAIN searches -> Nat \ {0}] /\ DOMAIN searches \subseteq SearchType
    /\ ~rendered => due
    /\ HasDemo /\ rendered => offline \/ Replacing
    /\ HasDemo /\ hasMore => due \/ Replacing

(* Searches are added to the bag of those in flight and taken out again.   *)
LEMMA SearchAdded ==
    ASSUME NEW k \in Keywords, NEW n \in Nat \ {0}, NEW append \in BOOLEAN,
           DiscoveryInv, Discovery!StartLoad(k, n, append)
    PROVE  /\ searches' \in [DOMAIN searches' -> Nat \ {0}]
           /\ DOMAIN searches' \subseteq SearchType
           /\ DOMAIN searches \subseteq DOMAIN searches'
           /\ ~append => Replacing'
<1> DEFINE s == Discovery!Search(k, n, append)
<1>1. s \in SearchType /\ s.append = append
  BY DEF Discovery!Search, SearchType
<1> HIDE DEF s
<1>2. searches' = [e \in DOMAIN searches \cup {s} |->
                      (IF e \in DOMAIN searches THEN searches[e] ELSE 0)
                      + (IF e \in {s} THEN 1 ELSE 0)]
  BY DEF Discovery!StartLoad, Discovery!(+), Discovery!SetToBag, s
<1>3. DOMAIN searches' = DOMAIN searches \cup {s}
  BY <1>2
<1>4. \A e \in DOMAIN searches' : searches'[e] \in Nat \ {0}
  BY <1>2, <1>3 DEF DiscoveryInv
<1>5. searches' \in [DOMAIN searches' -> Nat \ {0}]
  BY <1>2, <1>3, <1>4
<1>6. QED
  BY <1>1, <1>3, <1>5 DEF DiscoveryInv, Replacing

(* A search that ends is taken out once; one that replaces the list stays  *)
(* if the other appends.                                                   *)
LEMMA SearchRemoved ==
    ASSUME NEW s \in SearchType, NEW more, DiscoveryInv, Discovery!EndLoad(s, more)
    PROVE  /\ searches' \in [DOMAIN searches' -> Nat \ {0}]
           /\ DOMAIN searches' \subseteq SearchType
           /\ s.append /\ Replacing => Replacing'
<1> DEFINE B == [e \in DOMAIN searches |-> IF e \in {s} THEN searches[e] - 1 ELSE searches[e]]
<1>1. searches' = [e \in {d \in DOMAIN searches : B[d] > 0} |-> B[e]]
  BY DEF Discovery!EndLoad, Discovery!(-), Discovery!SetToBag
<1>2. \A e \in DOMAIN searches : B[e] \in Int /\ (e # s => B[e] > 0)
  BY DEF DiscoveryInv
<1>3. DOMAIN searches' = {d \in DOMAIN searches : B[d] > 0}
  BY <1>1
<1>4. \A e \in DOMAIN searches' : searches'[e] \in Nat \ {0}
  BY <1>1, <1>2, <1>3
<1>5. searches' \in [DOMAIN searches' -> Nat \ {0}]
  BY <1>1, <1>3, <1>4
<1>6. DOMAIN searches \ {s} \subseteq DOMAIN searches'
  BY <1>2, <1>3
<1>7. QED
  BY <1>3, <1>5, <1>6 DEF DiscoveryInv, Replacing

(* An answer brings no demo listings: the pages of the backend count from  *)
(* 1.                                                                      *)
LEMMA AnswerHasNoDemo ==
    ASSUME NEW s \in SearchType, DiscoveryInv, Discovery!Answered(s)
    PROVE  /\ listings' \in Seq(BlockType)
           /\ HasDemo' => s.append /\ HasDemo
<1> DEFINE b == Discovery!Block(s.keyword, s.page)
           data == IF s.page <= PageCount[s.keyword] THEN <<b>> ELSE <<>>
<1>1. b \in BlockType /\ b # Discovery!Demo
  BY DEF SearchType, BlockType, Discovery!Block, Discovery!Demo
<1>2. listings' = IF s.append THEN listings \o data ELSE data
  BY DEF Discovery!Answered
<1> HIDE DEF b
<1>3. data \in Seq(BlockType) /\ \A n \in 1..Len(data) : data[n] # Discovery!Demo
  BY <1>1
<1> HIDE DEF data
<1>4. CASE ~s.append
  BY <1>2, <1>3, <1>4 DEF HasDemo
<1>5. CASE s.append
  <2>1. listings' = listings \o data /\ listings \in Seq(BlockType)
    BY <1>2, <1>5 DEF DiscoveryInv
  <2>2. listings' \in Seq(BlockType)
    BY <1>3, <2>1
  <2>3. ASSUME NEW n \in DOMAIN listings', listings'[n] = Discovery!Demo
        PROVE  n \in DOMAIN listings /\ listings[n] = Discovery!Demo
    BY <1>3, <2>1, <2>3
  <2>4. QED
    BY <1>5, <2>2, <2>3 DEF HasDemo
<1>6. QED
  BY <1>4, <1>5

(* Every step of the screen keeps its invariant.                           *)
LEMMA DiscoveryStep ==
    DiscoveryInv /\ [Discovery!DiscoveryNext]_discovery => DiscoveryInv'
<1> SUFFICES ASSUME DiscoveryInv, [Discovery!DiscoveryNext]_discovery
             PROVE  DiscoveryInv'
  OBVIOUS
<1>1. CASE UNCHANGED discovery
  BY <1>1 DEF discovery, DiscoveryInv, HasDemo, Replacing
<1>2. CASE Discovery!RunEffect
  <2>1. Discovery!StartLoad(keyword, 1, FALSE) /\ due' = FALSE /\ rendered' = TRUE
    BY <1>2 DEF Discovery!RunEffect
  <2>2. UNCHANGED <<keyword, page, hasMore, listings>>
    BY <2>1 DEF Discovery!StartLoad
  <2>3. keyword \in Keywords /\ 1 \in Nat \ {0}
    BY DEF DiscoveryInv
  <2>4. QED
    BY <2>1, <2>2, <2>3, SearchAdded DEF DiscoveryInv, HasDemo
<1>3. ASSUME NEW n \in Nat \ {0}, NEW append \in BOOLEAN, Discovery!Gesture(n, append),
             append => hasMore
      PROVE  DiscoveryInv'
  <2>1. Discovery!StartLoad(keyword, n, append) /\ rendered' = ~due /\ due' = due
    BY <1>3 DEF Discovery!Gesture
  <2>2. UNCHANGED <<keyword, page, hasMore, listings>>
    BY <2>1 DEF Discovery!StartLoad
  <2>3. /\ searches' \in [DOMAIN searches' -> Nat \ {0}]
        /\ DOMAIN searches' \subseteq SearchType
        /\ DOMAIN searches \subseteq DOMAIN searches'
        /\ ~append => Replacing'
    BY <2>1, SearchAdded DEF DiscoveryInv
  <2>4. Replacing => Replacing'
    BY <2>3 DEF Replacing
  <2>5. HasDemo' <=> HasDemo
    BY <2>2 DEF HasDemo
  <2>6. QED
    BY <1>3, <2>1, <2>2, <2>3, <2>4, <2>5 DEF DiscoveryInv
<1>4. CASE Discovery!EndReached
  <2>1. page + 1 \in Nat \ {0}
    BY DEF DiscoveryInv
  <2>2. hasMore /\ Discovery!Gesture(page + 1, TRUE)
    BY <1>4 DEF Discovery!EndReached
  <2>3. QED
    BY <1>3, <2>1, <2>2
<1>5. CASE Discovery!Refresh
  <2>1. Discovery!Gesture(1, FALSE)
    BY <1>5 DEF Discovery!Refresh
  <2>2. 1 \in Nat \ {0} /\ FALSE \in BOOLEAN
    OBVIOUS
  <2>3. QED
    BY <1>3, <2>1, <2>2
<1>6. ASSUME NEW k \in Keywords, Discovery!Edit(k)
      PROVE  DiscoveryInv'
  BY <1>6 DEF Discovery!Edit, DiscoveryInv, HasDemo, Replacing
<1>7. ASSUME NEW s \in DOMAIN searches, Discovery!Answered(s)
      PROVE  DiscoveryInv'
  <2>1. s \in SearchType
    BY DEF DiscoveryInv
  <2> DEFINE more == s.page < PageCount[s.keyword]
  <2>2. Discovery!EndLoad(s, more) /\ page' = s.page /\ offline' = offline
    BY <1>7 DEF Discovery!Answered
  <2>3. more \in BOOLEAN
    OBVIOUS
  <2> HIDE DEF more
  <2>4. /\ hasMore' = more /\ keyword' = keyword /\ rendered' = ~due
        /\ due' = (due \/ more # hasMore \/ loading)
    BY <2>2 DEF Discovery!EndLoad, Discovery!Reruns
  <2>5. due' \in BOOLEAN /\ rendered' \in BOOLEAN /\ (~rendered' => due')
    BY <2>4 DEF DiscoveryInv
  <2>6. page' \in Nat \ {0}
    BY <2>1, <2>2 DEF SearchType
  <2>7. /\ searches' \in [DOMAIN searches' -> Nat \ {0}]
        /\ DOMAIN searches' \subseteq SearchType
        /\ s.append /\ Replacing => Replacing'
    BY <2>1, <2>2, SearchRemoved
  <2>8. listings' \in Seq(BlockType) /\ (HasDemo' => s.append /\ HasDemo)
    BY <1>7, <2>1, AnswerHasNoDemo
  <2>9. HasDemo' /\ rendered' => offline' \/ Replacing'
    BY <2>2, <2>4, <2>7, <2>8 DEF DiscoveryInv
  <2>10. HasDemo' /\ hasMore' => due' \/ Replacing'
    BY <2>3, <2>4, <2>7, <2>8 DEF DiscoveryInv
  <2>11. QED
    BY <2>3, <2>4, <2>5, <2>6, <2>7, <2>8, <2>9, <2>10 DEF DiscoveryInv
<1>8. ASSUME NEW s \in DOMAIN searches, Discovery!Failed(s)
      PROVE  DiscoveryInv'
  <2>1. s \in SearchType
    BY DEF DiscoveryInv
  <2>2. /\ Discovery!EndLoad(s, FALSE) /\ page' = page /\ offline' = TRUE
        /\ listings' = <<Discovery!Demo>>
    BY <1>8 DEF Discovery!Failed
  <2>3. /\ hasMore' = FALSE /\ keyword' = keyword /\ rendered' = ~due
        /\ due' = (due \/ FALSE # hasMore \/ loading)
    BY <2>2 DEF Discovery!EndLoad, Discovery!Reruns
  <2>4. due' \in BOOLEAN /\ rendered' \in BOOLEAN /\ (~rendered' => due')
    BY <2>3 DEF DiscoveryInv
  <2>5. listings' \in Seq(BlockType)
    BY <2>2 DEF BlockType, Discovery!Demo
  <2>6. /\ searches' \in [DOMAIN searches' -> Nat \ {0}]
        /\ DOMAIN searches' \subseteq SearchType
    BY <2>1, <2>2, SearchRemoved
  <2>7. QED
    BY <2>2, <2>3, <2>4, <2>5, <2>6 DEF DiscoveryInv
<1>9. QED
  BY <1>1, <1>2, <1>4, <1>5, <1>6, <1>7, <1>8
  DEF Discovery!DiscoveryNext, Discovery!InFlight, Discovery!BagToSet

(* A search is in flight when one is on its way that replaces the list.    *)
LEMMA DiscoveryAnnounces ==
    DiscoveryInv => Discovery!DemoIsAnnounced
BY DEF DiscoveryInv, HasDemo, Replacing, Discovery!DemoIsAnnounced, Discovery!InFlight,
       Discovery!BagToSet

ScreenInv == loading \in BOOLEAN /\ Discovery!ScreenNeverRests

(* A load that ends makes the effect due that begins the next, even if     *)
(* other searches end before or after it.                                  *)
LEMMA ScreenStep ==
    DiscoveryInv /\ ScreenInv /\ [Discovery!DiscoveryNext]_discovery => ScreenInv'
<1> USE DEF ScreenInv
<1> DEFINE Goal == ScreenInv'
<1> SUFFICES ASSUME DiscoveryInv, ScreenInv, [Discovery!DiscoveryNext]_discovery
             PROVE  Goal
  OBVIOUS
<1>1. CASE UNCHANGED discovery
  BY <1>1 DEF discovery, Discovery!ScreenNeverRests, Discovery!InFlight, Discovery!BagToSet
<1>2. ASSUME NEW n \in Nat \ {0}, NEW append \in BOOLEAN, Discovery!StartLoad(keyword, n, append)
      PROVE  Goal
  <2> DEFINE s == Discovery!Search(keyword, n, append)
  <2>1. s \in DOMAIN searches'
    BY <1>2 DEF Discovery!StartLoad, Discovery!(+), Discovery!SetToBag
  <2>2. QED
    BY <1>2, <2>1 DEF Discovery!StartLoad, Discovery!ScreenNeverRests, Discovery!InFlight,
       Discovery!BagToSet
<1>3. CASE Discovery!RunEffect
  <2>1. 1 \in Nat \ {0} /\ FALSE \in BOOLEAN
    OBVIOUS
  <2>2. Discovery!StartLoad(keyword, 1, FALSE)
    BY <1>3 DEF Discovery!RunEffect
  <2> HIDE DEF Goal
  <2>3. QED
    BY <1>2, <2>1, <2>2
<1>4. CASE Discovery!EndReached
  <2>1. page + 1 \in Nat \ {0} /\ TRUE \in BOOLEAN
    BY DEF DiscoveryInv
  <2>2. Discovery!StartLoad(keyword, page + 1, TRUE)
    BY <1>4 DEF Discovery!EndReached, Discovery!Gesture
  <2> HIDE DEF Goal
  <2>3. QED
    BY <1>2, <2>1, <2>2
<1>5. CASE Discovery!Refresh
  <2>1. 1 \in Nat \ {0} /\ FALSE \in BOOLEAN
    OBVIOUS
  <2>2. Discovery!StartLoad(keyword, 1, FALSE)
    BY <1>5 DEF Discovery!Refresh, Discovery!Gesture
  <2> HIDE DEF Goal
  <2>3. QED
    BY <1>2, <2>1, <2>2
<1>6. ASSUME NEW k \in Keywords, Discovery!Edit(k) PROVE Goal
  BY <1>6 DEF Discovery!Edit, Discovery!ScreenNeverRests, Discovery!InFlight, Discovery!BagToSet
<1>7. ASSUME NEW s, NEW more, Discovery!EndLoad(s, more) PROVE Goal
  BY <1>7 DEF Discovery!EndLoad, Discovery!Reruns, Discovery!ScreenNeverRests
<1> HIDE DEF Goal
<1>8. QED
  BY <1>1, <1>3, <1>4, <1>5, <1>6, <1>7
  DEF Discovery!DiscoveryNext, Discovery!Answered, Discovery!Failed

-----------------------------------------------------------------------------
(* The listing form.  Once a submission has saved its listing, that        *)
(* listing has its variants, its location and every file that is not left  *)
(* to be sent.                                                             *)
ListingType == [variants : SUBSET Labels, location : Listing!Locations, images : SUBSET Files]
WorkType == [stage : {"idle", "saving", "saved", "uploading", "attached"},
             variants : SUBSET Labels, location : Listing!Locations, files : SUBSET Files,
             left : SUBSET Files, listing : Nat, had : Listing!Locations]
LocationIs == IF work.location # NoPlace THEN work.location ELSE work.had
SavedSoFar(left) ==
    /\ work.listing \in DOMAIN store
    /\ store[work.listing].variants = work.variants
    /\ store[work.listing].location = LocationIs
    /\ work.files \ left \subseteq store[work.listing].images
FormInv ==
    /\ store \in Seq(ListingType) /\ opened \in 0..Len(store)
    /\ drafts \in SUBSET Labels /\ chosen \in SUBSET Files /\ place \in Listing!Locations
    /\ work \in WorkType /\ message \in {"none", "saved", "failed"}
    /\ message = "saved" => work.stage = "idle" /\ SavedSoFar({})
    /\ work.stage = "saving" =>
          work.listing = opened /\ work.files = work.left /\ work.had = NoPlace
    /\ work.stage \in {"saved", "uploading"} => SavedSoFar(work.left)
    /\ work.stage = "attached" => SavedSoFar(work.left \ {Listing!Min(work.left)})
    /\ work.stage \in {"uploading", "attached"} => work.left # {}

(* A form with no submission under way.                                    *)
LEMMA IdleIsOne ==
    Listing!Idle \in WorkType /\ Listing!Idle.stage = "idle"
BY DEF Listing!Idle, WorkType, Listing!Locations

(* The file sent next is one of those left.                                *)
LEMMA NextFileIsLeft ==
    ASSUME NEW S \in SUBSET Files, S # {}
    PROVE  Listing!Min(S) \in S
<1> DEFINE less == {ss \in Nat \X Nat : ss[1] < ss[2]}
<1>1. IsWellFoundedOn(less, Nat)
  BY NatLessThanWellFounded DEF OpToRel
<1>2. S \subseteq Nat
  BY ClientsAssumption
<1>3. PICK x \in S : \A y \in S : <<y, x>> \notin less
  BY <1>1, <1>2, WFMin
<1>4. ASSUME NEW y \in S
      PROVE  x <= y
  <2>1. x \in Nat /\ y \in Nat
    BY <1>2
  <2>2. y < x => <<y, x>> \in less
    BY <2>1
  <2>3. QED
    BY <1>3, <2>1, <2>2
<1>5. QED
  BY <1>4 DEF Listing!Min

(* The backend creates the listing of the payload, or gives the form's own *)
(* listing its variants, also when there are none.                         *)
LEMMA SaveSaves ==
    ASSUME FormInv, Listing!Save
    PROVE  /\ store' \in Seq(ListingType) /\ opened' \in 0..Len(store')
           /\ work' \in WorkType /\ work'.stage = "saved"
           /\ SavedSoFar(work.left)' /\ work'.left = work.left
<1>1. /\ work \in WorkType /\ work.stage = "saving" /\ work.listing = opened
      /\ work.files = work.left /\ work.had = NoPlace
      /\ store \in Seq(ListingType) /\ opened \in 0..Len(store)
      /\ opened' = opened
  BY DEF FormInv, Listing!Save
<1> DEFINE l == Listing!Listing(work.variants, work.location)
<1>2. /\ l \in ListingType /\ l.variants = work.variants
      /\ l.location = work.location
  BY <1>1, ClientsAssumption DEF Listing!Listing, ListingType, WorkType
<1>3. CASE /\ Listing!Create
           /\ store' = Append(store, l)
           /\ work' = [work EXCEPT !.stage = "saved", !.listing = Len(store) + 1]
  <2> DEFINE n == Len(store) + 1
  <2>1. n \in Nat
    BY <1>1
  <2>2. work' = [work EXCEPT !.stage = "saved", !.listing = n]
    BY <1>3
  <2>3. store' \in Seq(ListingType) /\ Len(store') = n /\ store'[n] = l
    BY <1>1, <1>2, <1>3
  <2> HIDE DEF l, n
  <2>4. work' \in WorkType
    BY <1>1, <2>1, <2>2, Zenon DEF WorkType
  <2>5. /\ work'.stage = "saved" /\ work'.listing = n /\ work'.variants = work.variants
        /\ work'.location = work.location /\ work'.had = work.had
        /\ work'.files = work.files /\ work'.left = work.left
    BY <1>1, <2>2 DEF WorkType
  <2>6. n \in DOMAIN store' /\ opened \in 0..Len(store')
    BY <1>1, <2>3 DEF n
  <2>7. LocationIs' = work.location
    BY <1>1, <2>5 DEF LocationIs
  <2>8. QED
    BY <1>1, <1>2, <2>3, <2>4, <2>5, <2>6, <2>7 DEF SavedSoFar
<1>4. CASE /\ ~Listing!Create
           /\ store' = [store EXCEPT ![opened] = Listing!Given(@)]
           /\ work' = [work EXCEPT !.stage = "saved", !.had = store[opened].location]
  <2>1. opened \in DOMAIN store /\ work.variants \in SUBSET Labels
    BY <1>1, <1>4 DEF Listing!Create, WorkType
  <2> DEFINE old == store[opened]
             given == Listing!Given(old)
  <2>2. old \in ListingType
    BY <1>1, <2>1
  <2>3. /\ given \in ListingType /\ given.variants = work.variants
        /\ given.location = IF work.location # NoPlace THEN work.location ELSE old.location
    BY <1>1, <1>4, <2>2 DEF ListingType, WorkType, Listing!Given, Listing!NamesVariants
  <2>4. store' = [store EXCEPT ![opened] = given]
    BY <1>4, <2>1
  <2>5. work' = [work EXCEPT !.stage = "saved", !.had = old.location]
    BY <1>4
  <2>6. old.location \in Listing!Locations
    BY <2>2 DEF ListingType
  <2> HIDE DEF given, old
  <2>7. /\ store' \in Seq(ListingType) /\ DOMAIN store' = DOMAIN store
        /\ Len(store') = Len(store) /\ store'[opened] = given
    BY <1>1, <2>1, <2>3, <2>4
  <2>8. work' \in WorkType
    BY <1>1, <2>5, <2>6, Zenon DEF WorkType
  <2>9. /\ work'.stage = "saved" /\ work'.listing = opened /\ work'.variants = work.variants
        /\ work'.location = work.location /\ work'.had = old.location
        /\ work'.files = work.files /\ work'.left = work.left
    BY <1>1, <2>5 DEF WorkType
  <2>10. LocationIs' = given.location
    BY <2>3, <2>9 DEF LocationIs
  <2>11. QED
    BY <1>1, <2>1, <2>3, <2>7, <2>8, <2>9, <2>10 DEF SavedSoFar
<1>5. QED
  BY <1>3, <1>4 DEF Listing!Save

(* A file that is carried out is among the images of its listing.          *)
LEMMA UploadUploads ==
    ASSUME FormInv, Listing!Upload
    PROVE  /\ store' \in Seq(ListingType) /\ opened' \in 0..Len(store')
           /\ work' \in WorkType /\ work'.stage = "attached" /\ work'.left = work.left
           /\ SavedSoFar(work.left \ {Listing!Min(work.left)})'
<1> DEFINE f == Listing!Min(work.left)
           n == work.listing
<1>1. /\ work \in WorkType /\ work.stage = "uploading" /\ work.left # {}
      /\ SavedSoFar(work.left) /\ store \in Seq(ListingType) /\ opened \in 0..Len(store)
      /\ opened' = opened
  BY DEF FormInv, Listing!Upload
<1>2. f \in Files
  BY <1>1, NextFileIsLeft DEF WorkType
<1>3. /\ store' = [store EXCEPT ![n].images = @ \cup {f}]
      /\ work' = [work EXCEPT !.stage = "attached"]
  BY DEF Listing!Upload
<1>4. /\ n \in DOMAIN store /\ store[n].variants = work.variants
      /\ store[n].location = LocationIs
      /\ work.files \ work.left \subseteq store[n].images
  BY <1>1 DEF SavedSoFar
<1> HIDE DEF f, n
<1>5. store[n] \in ListingType
  BY <1>1, <1>4
<1>6. [store[n] EXCEPT !.images = @ \cup {f}] \in ListingType
  BY <1>2, <1>5 DEF ListingType
<1>7. store' \in Seq(ListingType) /\ Len(store') = Len(store) /\ DOMAIN store' = DOMAIN store
  BY <1>1, <1>3, <1>4, <1>6
<1>8. /\ store'[n].variants = work.variants /\ store'[n].location = LocationIs
      /\ store'[n].images = store[n].images \cup {f}
  BY <1>1, <1>3, <1>4, <1>5 DEF ListingType
<1>9. work' \in WorkType
  BY <1>1, <1>3 DEF WorkType
<1>10. /\ work'.stage = "attached" /\ work'.listing = n /\ work'.variants = work.variants
       /\ work'.files = work.files /\ work'.left = work.left /\ LocationIs' = LocationIs
  BY <1>1, <1>3 DEF WorkType, n, LocationIs
<1>11. QED
  BY <1>1, <1>4, <1>7, <1>8, <1>9, <1>10 DEF SavedSoFar, f

(* An answer leaves less to be sent; the form says it has saved the        *)
(* listing when nothing is left.                                           *)
LEMMA AnswerProceeds ==
    ASSUME FormInv, Listing!Answered
    PROVE  FormInv'
<1> DEFINE left == IF work.stage = "saved" THEN work.left
                   ELSE work.left \ {Listing!Min(work.left)}
<1>1. /\ work \in WorkType /\ work.stage \in {"saved", "attached"}
      /\ UNCHANGED <<store, opened, drafts, chosen, place>>
  BY DEF FormInv, Listing!Answered, Listing!Answering
<1>2. left \in SUBSET Files /\ SavedSoFar(left)
  BY <1>1 DEF FormInv, WorkType
<1>3. Listing!Proceed(left)
  BY DEF Listing!Answered
<1> HIDE DEF left
<1>4. CASE left = {}
  <2>1. work' = [work EXCEPT !.stage = "idle", !.left = {}] /\ message' = "saved"
    BY <1>3, <1>4 DEF Listing!Proceed
  <2>2. work' \in WorkType
    BY <1>1, <2>1, Zenon DEF WorkType
  <2>3. /\ work'.stage = "idle" /\ work'.listing = work.listing
        /\ work'.variants = work.variants /\ work'.files = work.files
        /\ LocationIs' = LocationIs
    BY <1>1, <2>1 DEF WorkType, LocationIs
  <2>4. SavedSoFar({})'
    BY <1>1, <1>2, <1>4, <2>3 DEF SavedSoFar
  <2>5. QED
    BY <1>1, <2>1, <2>2, <2>3, <2>4 DEF FormInv
<1>5. CASE left # {}
  <2>1. work' = [work EXCEPT !.stage = "uploading", !.left = left] /\ message' = message
    BY <1>3, <1>5 DEF Listing!Proceed
  <2>2. work' \in WorkType
    BY <1>1, <1>2, <2>1, Zenon DEF WorkType
  <2>3. /\ work'.stage = "uploading" /\ work'.listing = work.listing /\ work'.left = left
        /\ work'.variants = work.variants /\ work'.files = work.files
        /\ LocationIs' = LocationIs
    BY <1>1, <2>1 DEF WorkType, LocationIs
  <2>4. SavedSoFar(work.left)'
    BY <1>1, <1>2, <2>3 DEF SavedSoFar
  <2>5. message' # "saved"
    BY <1>1, <2>1 DEF FormInv
  <2>6. QED
    BY <1>1, <1>5, <2>1, <2>2, <2>3, <2>4, <2>5 DEF FormInv
<1>6. QED
  BY <1>4, <1>5

(* Every step of the form keeps its invariant.                             *)
LEMMA FormStep ==
    FormInv /\ [Listing!FormNext]_listing => FormInv'
<1> SUFFICES ASSUME FormInv, [Listing!FormNext]_listing
             PROVE  FormInv'
  OBVIOUS
<1> USE DEF FormInv
<1>1. CASE UNCHANGED listing
  BY <1>1 DEF listing, SavedSoFar, LocationIs
<1>2. ASSUME NEW n \in 0..MaxListings, Listing!Open(n)
      PROVE  FormInv'
  <2>1. /\ n \in 0..Len(store) /\ opened' = n /\ work' = Listing!Idle
        /\ store' = store /\ chosen' = {} /\ message' = "none"
        /\ drafts' = IF n = 0 THEN {} ELSE store[n].variants
        /\ place' = IF n = 0 THEN NoPlace ELSE store[n].location
    BY <1>2 DEF Listing!Open
  <2>2. n # 0 => store[n] \in ListingType
    BY <2>1
  <2>3. drafts' \in SUBSET Labels /\ place' \in Listing!Locations
    BY <2>1, <2>2 DEF ListingType, Listing!Locations
  <2>4. work' \in WorkType /\ work'.stage = "idle"
    BY <2>1, IdleIsOne
  <2>5. QED
    BY <2>1, <2>3, <2>4
<1>3. ASSUME NEW d \in SUBSET Labels, Listing!EditVariants(d)
      PROVE  FormInv'
  BY <1>3 DEF Listing!EditVariants, SavedSoFar, LocationIs
<1>4. ASSUME NEW files \in SUBSET Files, Listing!Choose(files)
      PROVE  FormInv'
  BY <1>4 DEF Listing!Choose, SavedSoFar, LocationIs
<1>5. CASE Listing!Invalid
  BY <1>5, IdleIsOne DEF Listing!Invalid
<1>6. CASE Listing!Submit
  <2>1. /\ work' = [stage |-> "saving", variants |-> drafts, location |-> place,
                    files |-> chosen, left |-> chosen, listing |-> opened, had |-> NoPlace]
        /\ message' = "none" /\ UNCHANGED <<store, opened, drafts, chosen, place>>
    BY <1>6 DEF Listing!Submit
  <2>2. opened \in Nat
    OBVIOUS
  <2>3. work' \in WorkType
    BY <2>1, <2>2 DEF WorkType, Listing!Locations
  <2>4. QED
    BY <2>1, <2>3
<1>7. CASE Listing!Save
  <2>1. UNCHANGED <<drafts, chosen, place, message>> /\ work.stage = "saving"
    BY <1>7 DEF Listing!Save
  <2>2. /\ store' \in Seq(ListingType) /\ opened' \in 0..Len(store')
        /\ work' \in WorkType /\ work'.stage = "saved" /\ SavedSoFar(work.left)'
    BY <1>7, SaveSaves
  <2>3. message' # "saved"
    BY <2>1
  <2>4. QED
    BY <2>1, <2>2, <2>3
<1>8. CASE Listing!Upload
  <2>1. UNCHANGED <<drafts, chosen, place, message>> /\ work.stage = "uploading" /\ work.left # {}
    BY <1>8 DEF Listing!Upload
  <2>2. /\ store' \in Seq(ListingType) /\ opened' \in 0..Len(store')
        /\ work' \in WorkType /\ work'.stage = "attached" /\ work'.left = work.left
        /\ SavedSoFar(work.left \ {Listing!Min(work.left)})'
    BY <1>8, UploadUploads
  <2>3. message' # "saved"
    BY <2>1
  <2>4. QED
    BY <2>1, <2>2, <2>3
<1>9. CASE Listing!Answered
  BY <1>9, AnswerProceeds
<1>10. CASE Listing!Failed
  <2>1. /\ work' = Listing!Idle /\ message' = "failed"
        /\ UNCHANGED <<store, opened, drafts, chosen, place>>
    BY <1>10 DEF Listing!Failed
  <2>2. work' \in WorkType /\ work'.stage = "idle"
    BY <2>1, IdleIsOne
  <2>3. QED
    BY <2>1, <2>2
<1>11. ASSUME NEW l \in Listing!Locations, Listing!EditLocation(l)
       PROVE  FormInv'
  BY <1>11 DEF Listing!EditLocation, SavedSoFar, LocationIs
<1>12. QED
  BY <1>1, <1>2, <1>3, <1>4, <1>5, <1>6, <1>7, <1>8, <1>9, <1>10, <1>11 DEF Listing!FormNext

(* What is saved when nothing is left is what was submitted.               *)
LEMMA FormIsComplete ==
    FormInv => Listing!SavedFormsAreComplete
BY DEF FormInv, SavedSoFar, LocationIs, Listing!SavedFormsAreComplete

-----------------------------------------------------------------------------
(* The query cache of the web app.  A query of a tab whose data is older   *)
(* than the last change the tab made by a mutation is marked; an answer    *)
(* that is older was asked for before that change was answered, or is of   *)
(* the backend's result cache.                                             *)
Entry == [data : Nat, fetch : {"none", "asked", "read", "kept"}, read : Nat, invalid : BOOLEAN,
          fresh : BOOLEAN, mounted : BOOLEAN, cached : BOOLEAN, crossing : BOOLEAN,
          overtaken : BOOLEAN]
Marked(e, change, mayBeCached) ==
    /\ e \in Entry
    /\ e.data > 0 /\ e.data < change => e.invalid \/ e.overtaken \/ e.cached
    /\ e.fetch = "read" /\ e.read < change => e.crossing
    /\ e.cached \/ e.fetch = "kept" => mayBeCached
CacheInv ==
    /\ table \in [Tables -> Nat] /\ own \in [Tables -> Nat]
    /\ \A t \in Tables : own[t] <= table[t]
    /\ tab \in Visits /\ query \in [tab -> Entry] /\ results \in [tab -> Nat]
    /\ \A q \in tab : Marked(query[q], own[Queries[q].reads], q \in Cached)
    /\ mutation \in [of : Mutations \cup {NoMutation}, done : BOOLEAN,
                     at : [Tables -> Nat]]
    /\ mutation.done => \A t \in Tables : mutation.at[t] <= table[t]

(* The words the keys of the hooks are made of.                            *)
KeyWords == {"listings", "listing", "seller", "id", "reviews", "orders", "threads",
             "thread", "user", "page", "params"}

(* A key is a prefix of itself, and its first part is one.                 *)
LEMMA KeyIsPrefix ==
    ASSUME NEW key \in Seq(KeyWords)
    PROVE  IsPrefixOf(key, key)
BY SubSeqFull DEF IsPrefixOf

(* The first part of a key is a prefix of it.                              *)
LEMMA FirstPartIsPrefix ==
    ASSUME NEW key \in Seq(KeyWords), key # <<>>
    PROVE  IsPrefixOf(<<key[1]>>, key)
<1> DEFINE first == SubSeq(key, 1, 1)
           word == <<key[1]>>
<1>1. Len(key) >= 1 /\ 1 \in 1..Len(key) /\ key[1] \in KeyWords
  OBVIOUS
<1>2. first \in Seq(KeyWords) /\ Len(first) = 1 /\ first[1] = key[1]
  BY <1>1, SubSeqProperties
<1>3. word \in Seq(KeyWords) /\ Len(word) = 1 /\ word[1] = key[1]
  BY <1>1
<1> HIDE DEF first, word
<1>4. \A i \in 1..Len(first) : first[i] = word[i]
  BY <1>2, <1>3
<1>5. first = word
  BY <1>2, <1>3, <1>4, SeqEqual
<1>6. QED
  BY <1>1, <1>3, <1>5 DEF IsPrefixOf, first, word

(* Every query of a tab reads a table.                                     *)
LEMMA QueriesReadTables ==
    ASSUME NEW visited \in Visits, NEW q \in visited
    PROVE  q \in DOMAIN Queries /\ Queries[q].reads \in Tables
<1>1. q \in DOMAIN Queries
  BY CacheAssumption
<1>2. QED
  BY <1>1 DEF Queries, Query, Tables

(* A mutation that changes the table of a query invalidates the query.     *)
LEMMA WritersInvalidate ==
    ASSUME NEW m \in Mutations \cup {NoMutation}, NEW visited \in Visits, NEW q \in visited,
           Queries[q].reads \in m.writes
    PROVE  Invalidates(m, q)
<1>1. q \in {"useListings", "useListing", "useListingReviews", "useOrders",
            "useMessageThreads", "useThread"}
  BY QueriesReadTables DEF Queries
<1>2. CASE q = "useListings"
  <2>1. Queries[q].key = <<"listings", "params">> /\ Queries[q].reads = "listings"
    BY <1>2 DEF Queries, Query
  <2>2. <<"listings">> \in m.keys
    BY <2>1 DEF Mutations, NoMutation, Mutation, CreateReview, CreateListing, UpdateListing,
                CreateOrder, SendMessage
  <2>3. <<"listings", "params">> \in Seq(KeyWords)
    BY DEF KeyWords
  <2>4. IsPrefixOf(<<"listings">>, Queries[q].key)
    BY <2>1, <2>3, FirstPartIsPrefix
  <2>5. QED
    BY <2>2, <2>4 DEF Invalidates
<1>3. CASE q = "useListing"
  <2>1. Queries[q].key = <<"listing", "id">> /\ Queries[q].reads = "listing"
    BY <1>3 DEF Queries, Query
  <2>2. <<"listing", "id">> \in m.keys
    BY <2>1 DEF Mutations, NoMutation, Mutation, CreateReview, CreateListing, UpdateListing,
                CreateOrder, SendMessage
  <2>3. <<"listing", "id">> \in Seq(KeyWords)
    BY DEF KeyWords
  <2>4. IsPrefixOf(<<"listing", "id">>, Queries[q].key)
    BY <2>1, <2>3, KeyIsPrefix
  <2>5. QED
    BY <2>2, <2>4 DEF Invalidates
<1>4. CASE q = "useListingReviews"
  <2>1. Queries[q].key = <<"listing", "id", "reviews">> /\ Queries[q].reads = "reviews"
    BY <1>4 DEF Queries, Query
  <2>2. <<"listing", "id", "reviews">> \in m.keys
    BY <2>1 DEF Mutations, NoMutation, Mutation, CreateReview, CreateListing, UpdateListing,
                CreateOrder, SendMessage
  <2>3. <<"listing", "id", "reviews">> \in Seq(KeyWords)
    BY DEF KeyWords
  <2>4. IsPrefixOf(<<"listing", "id", "reviews">>, Queries[q].key)
    BY <2>1, <2>3, KeyIsPrefix
  <2>5. QED
    BY <2>2, <2>4 DEF Invalidates
<1>5. CASE q = "useOrders"
  <2>1. Queries[q].key = <<"orders">> /\ Queries[q].reads = "orders"
    BY <1>5 DEF Queries, Query
  <2>2. <<"orders">> \in m.keys
    BY <2>1 DEF Mutations, NoMutation, Mutation, CreateReview, CreateListing, UpdateListing,
                CreateOrder, SendMessage
  <2>3. <<"orders">> \in Seq(KeyWords)
    BY DEF KeyWords
  <2>4. IsPrefixOf(<<"orders">>, Queries[q].key)
    BY <2>1, <2>3, KeyIsPrefix
  <2>5. QED
    BY <2>2, <2>4 DEF Invalidates
<1>6. CASE q = "useMessageThreads"
  <2>1. Queries[q].key = <<"threads", "user", "page">> /\ Queries[q].reads = "messages"
    BY <1>6 DEF Queries, Query
  <2>2. <<"threads">> \in m.keys
    BY <2>1 DEF Mutations, NoMutation, Mutation, CreateReview, CreateListing, UpdateListing,
                CreateOrder, SendMessage
  <2>3. <<"threads", "user", "page">> \in Seq(KeyWords)
    BY DEF KeyWords
  <2>4. IsPrefixOf(<<"threads">>, Queries[q].key)
    BY <2>1, <2>3, FirstPartIsPrefix
  <2>5. QED
    BY <2>2, <2>4 DEF Invalidates
<1>7. CASE q = "useThread"
  <2>1. Queries[q].key = <<"thread", "id">> /\ Queries[q].reads = "messages"
    BY <1>7 DEF Queries, Query
  <2>2. <<"thread", "id">> \in m.keys
    BY <2>1 DEF Mutations, NoMutation, Mutation, CreateReview, CreateListing, UpdateListing,
                CreateOrder, SendMessage
  <2>3. <<"thread", "id">> \in Seq(KeyWords)
    BY DEF KeyWords
  <2>4. IsPrefixOf(<<"thread", "id">>, Queries[q].key)
    BY <2>1, <2>3, KeyIsPrefix
  <2>5. QED
    BY <2>2, <2>4 DEF Invalidates
<1>8. QED
  BY <1>1, <1>2, <1>3, <1>4, <1>5, <1>6, <1>7

(* An entry stays marked when it is asked for again: the answer will be    *)
(* younger than every change answered before.                              *)
LEMMA AskedStaysMarked ==
    ASSUME NEW e, NEW change \in Nat, NEW cached \in BOOLEAN, Marked(e, change, cached)
    PROVE  Marked(Ask(e), change, cached)
<1>1. e \in Entry
  BY DEF Marked
<1>2. 0 \in Nat /\ FALSE \in BOOLEAN
  OBVIOUS
<1>3. Ask(e) \in Entry
  BY <1>1, <1>2, Zenon DEF Ask, Entry
<1>4. /\ Ask(e).data = e.data /\ Ask(e).invalid = e.invalid
      /\ Ask(e).overtaken = e.overtaken /\ Ask(e).cached = e.cached
      /\ Ask(e).fetch = "asked"
  BY <1>1 DEF Ask, Entry
<1>5. QED
  BY <1>3, <1>4 DEF Marked

(* An entry that is not there yet has nothing old to show.                 *)
LEMMA EmptyIsMarked ==
    ASSUME NEW change \in Nat, NEW cached \in BOOLEAN
    PROVE  Marked(Empty, change, cached)
BY DEF Marked, Empty, Entry

(* An invalidated entry is marked whatever has changed.                    *)
LEMMA InvalidatedIsMarked ==
    ASSUME NEW e \in Entry, NEW change \in Nat, NEW cached \in BOOLEAN,
           e.cached \/ e.fetch = "kept" => cached
    PROVE  Marked(Invalidated(e), change, cached)
<1> DEFINE marked == [e EXCEPT !.invalid = TRUE]
           crossed == [marked EXCEPT !.crossing = e.fetch # "none"]
<1>1. TRUE \in BOOLEAN /\ (e.fetch # "none") \in BOOLEAN
  OBVIOUS
<1>2. marked \in Entry
  BY <1>1, Zenon DEF Entry
<1>3. marked.invalid = TRUE /\ marked.fetch = e.fetch /\ marked.cached = e.cached
  BY DEF Entry
<1> HIDE DEF marked
<1>4. CASE e.mounted /\ (e.fetch = "none" \/ e.data > 0)
  <2>1. Invalidated(e) = Ask(marked)
    BY <1>4 DEF Invalidated, marked
  <2>2. Ask(marked) \in Entry
    <3>1. 0 \in Nat /\ FALSE \in BOOLEAN
      OBVIOUS
    <3>2. QED
      BY <1>2, <3>1, Zenon DEF Ask, Entry
  <2>3. /\ Ask(marked).invalid = TRUE /\ Ask(marked).fetch = "asked"
        /\ Ask(marked).cached = e.cached
    BY <1>2, <1>3 DEF Ask, Entry
  <2>4. QED
    BY <2>1, <2>2, <2>3 DEF Marked
<1>5. CASE ~(e.mounted /\ (e.fetch = "none" \/ e.data > 0))
  <2>1. Invalidated(e) = crossed
    BY <1>5 DEF Invalidated, marked
  <2>2. crossed \in Entry
    BY <1>1, <1>2, Zenon DEF Entry
  <2>3. /\ crossed.invalid = TRUE /\ crossed.fetch = e.fetch
        /\ crossed.crossing = (e.fetch # "none") /\ crossed.cached = e.cached
    BY <1>2, <1>3 DEF Entry
  <2>4. QED
    BY <2>1, <2>2, <2>3 DEF Marked
<1>6. QED
  BY <1>4, <1>5

(* A step that changes one entry of the cache keeps the invariant when the *)
(* new entry is marked.                                                    *)
LEMMA EntryChanges ==
    ASSUME CacheInv, NEW q \in tab, NEW e,
           Marked(e, own[Queries[q].reads], q \in Cached),
           query' = [query EXCEPT ![q] = e],
           UNCHANGED <<table, tab, mutation, own, results>>
    PROVE  CacheInv'
<1>1. e \in Entry
  BY DEF Marked
<1>2. query' \in [tab -> Entry] /\ \A p \in tab : query'[p] = IF p = q THEN e ELSE query[p]
  BY <1>1 DEF CacheInv
<1>3. QED
  BY <1>2 DEF CacheInv, Marked

(* The steps of one query: mounted and fetched, aged, read, answered.      *)
LEMMA QueryStep ==
    ASSUME CacheInv, NEW q \in tab,
           \/ Mount(q) \/ Unmount(q) \/ Collect(q) \/ Age(q) \/ Refetch(q)
           \/ Read(q) \/ Deliver(q) \/ FetchFails(q)
    PROVE  CacheInv'
<1> DEFINE e == query[q]
           change == own[Queries[q].reads]
           mine == q \in Cached
<1>1. q \in DOMAIN Queries /\ Queries[q].reads \in Tables
  BY QueriesReadTables DEF CacheInv
<1>2. e \in Entry /\ Marked(e, change, mine) /\ change \in Nat /\ Latest(q) \in Nat
      /\ change <= Latest(q) /\ mine \in BOOLEAN
  BY <1>1 DEF CacheInv, Latest
<1>3. TRUE \in BOOLEAN /\ FALSE \in BOOLEAN /\ 0 \in Nat
  OBVIOUS
<1>4. query \in [tab -> Entry]
  BY DEF CacheInv
<1>5. CASE Mount(q)
  <2> DEFINE seen == [e EXCEPT !.mounted = TRUE]
             new == IF seen.fetch = "none" /\ (seen.data = 0 \/ seen.invalid \/ ~seen.fresh)
                    THEN Ask(seen) ELSE seen
  <2>1. seen \in Entry
    BY <1>2, <1>3, Zenon DEF Entry
  <2>2. /\ seen.data = e.data /\ seen.fetch = e.fetch /\ seen.read = e.read
        /\ seen.invalid = e.invalid /\ seen.crossing = e.crossing
        /\ seen.overtaken = e.overtaken /\ seen.cached = e.cached
    BY <1>2 DEF Entry
  <2>3. query' = [query EXCEPT ![q] = new] /\ UNCHANGED <<table, tab, mutation, own, results>>
    BY <1>5 DEF Mount
  <2> HIDE DEF seen, e, change, mine
  <2>4. Marked(seen, change, mine)
    BY <1>2, <2>1, <2>2 DEF Marked
  <2>5. Marked(new, change, mine)
    BY <1>2, <2>4, AskedStaysMarked
  <2>6. QED
    BY <2>3, <2>5, EntryChanges DEF change, mine
<1>6. CASE Unmount(q)
  <2> DEFINE new == [e EXCEPT !.mounted = FALSE]
  <2>1. new \in Entry
    BY <1>2, <1>3, Zenon DEF Entry
  <2>2. /\ new.data = e.data /\ new.fetch = e.fetch /\ new.read = e.read
        /\ new.invalid = e.invalid /\ new.crossing = e.crossing
        /\ new.overtaken = e.overtaken /\ new.cached = e.cached
    BY <1>2 DEF Entry
  <2>3. query' = [query EXCEPT ![q] = new] /\ UNCHANGED <<table, tab, mutation, own, results>>
    BY <1>6 DEF Unmount
  <2> HIDE DEF new, e, change, mine
  <2>4. Marked(new, change, mine)
    BY <1>2, <2>1, <2>2 DEF Marked
  <2>5. QED
    BY <2>3, <2>4, EntryChanges DEF change, mine
<1>7. CASE Collect(q)
  BY <1>2, <1>7, EmptyIsMarked, EntryChanges DEF Collect
<1>8. CASE Age(q)
  <2> DEFINE new == [e EXCEPT !.fresh = FALSE]
  <2>1. new \in Entry
    BY <1>2, <1>3, Zenon DEF Entry
  <2>2. /\ new.data = e.data /\ new.fetch = e.fetch /\ new.read = e.read
        /\ new.invalid = e.invalid /\ new.crossing = e.crossing
        /\ new.overtaken = e.overtaken /\ new.cached = e.cached
    BY <1>2 DEF Entry
  <2>3. query' = [query EXCEPT ![q] = new] /\ UNCHANGED <<table, tab, mutation, own, results>>
    BY <1>8 DEF Age
  <2> HIDE DEF new, e, change, mine
  <2>4. Marked(new, change, mine)
    BY <1>2, <2>1, <2>2 DEF Marked
  <2>5. QED
    BY <2>3, <2>4, EntryChanges DEF change, mine
<1>9. CASE Refetch(q)
  <2>1. query' = [query EXCEPT ![q] = Ask(e)] /\ UNCHANGED <<table, tab, mutation, own, results>>
    BY <1>9 DEF Refetch
  <2> HIDE DEF e, change, mine
  <2>2. Marked(Ask(e), change, mine)
    BY <1>2, AskedStaysMarked
  <2>3. QED
    BY <2>1, <2>2, EntryChanges DEF change, mine
<1>10. CASE Read(q)
  <2> DEFINE a == Response(q)
             new == [e EXCEPT !.fetch = a.fetch, !.read = a.read]
  <2>1. /\ a.fetch \in {"none", "asked", "read", "kept"} /\ a.read \in Nat
        /\ a.fetch = "read" => a.read = Latest(q)
        /\ a.fetch = "kept" => mine
    BY <1>2 DEF Response, CacheInv
  <2>2. query' = [query EXCEPT ![q] = new] /\ UNCHANGED <<table, tab, mutation, own, results>>
    BY <1>4, <1>10 DEF Read
  <2> HIDE DEF a
  <2>3. new \in Entry
    BY <1>2, <2>1, Zenon DEF Entry
  <2>4. /\ new.data = e.data /\ new.fetch = a.fetch /\ new.read = a.read
        /\ new.invalid = e.invalid /\ new.overtaken = e.overtaken /\ new.cached = e.cached
    BY <1>2 DEF Entry
  <2> HIDE DEF new, e, change, mine
  <2>5. Marked(new, change, mine)
    BY <1>2, <2>1, <2>3, <2>4 DEF Marked
  <2>6. QED
    BY <2>2, <2>5, EntryChanges DEF change, mine
<1>11. CASE Deliver(q)
  <2> DEFINE new == [e EXCEPT !.data = e.read, !.fetch = "none", !.read = 0,
                              !.invalid = FALSE, !.fresh = TRUE,
                              !.cached = e.fetch = "kept",
                              !.overtaken = e.crossing, !.crossing = FALSE]
  <2>1. /\ "none" \in {"none", "asked", "read", "kept"} /\ e.read \in Nat
        /\ e.crossing \in BOOLEAN /\ (e.fetch = "kept") \in BOOLEAN
    BY <1>2 DEF Entry
  <2>2. new \in Entry
    BY <1>2, <1>3, <2>1, Zenon DEF Entry
  <2>3. /\ new.data = e.read /\ new.fetch = "none" /\ new.overtaken = e.crossing
        /\ new.cached = (e.fetch = "kept")
    BY <1>2 DEF Entry
  <2>4. e.fetch \in {"read", "kept"} /\ UNCHANGED <<table, tab, mutation, own, results>>
    BY <1>11 DEF Deliver
  <2>5. query' = [query EXCEPT ![q] = new]
    BY <1>4, <1>11 DEF Deliver
  <2> HIDE DEF new, e, change, mine
  <2>6. Marked(new, change, mine)
    BY <1>2, <2>2, <2>3, <2>4 DEF Marked
  <2>7. QED
    BY <2>4, <2>5, <2>6, EntryChanges DEF change, mine
<1>12. CASE FetchFails(q)
  <2> DEFINE new == [e EXCEPT !.fetch = "none", !.read = 0, !.crossing = FALSE]
  <2>1. "none" \in {"none", "asked", "read", "kept"}
    OBVIOUS
  <2>2. new \in Entry
    BY <1>2, <1>3, <2>1, Zenon DEF Entry
  <2>3. /\ new.data = e.data /\ new.fetch = "none" /\ new.invalid = e.invalid
        /\ new.overtaken = e.overtaken /\ new.cached = e.cached
    BY <1>2 DEF Entry
  <2>4. UNCHANGED <<table, tab, mutation, own, results>>
    BY <1>12 DEF FetchFails
  <2>5. query' = [query EXCEPT ![q] = new]
    BY <1>4, <1>12 DEF FetchFails
  <2> HIDE DEF new, e, change, mine
  <2>6. Marked(new, change, mine)
    BY <1>2, <2>2, <2>3 DEF Marked
  <2>7. QED
    BY <2>4, <2>5, <2>6, EntryChanges DEF change, mine
<1>13. QED
  BY <1>5, <1>6, <1>7, <1>8, <1>9, <1>10, <1>11, <1>12

(* Every step of the cache and its mutations keeps the invariant.          *)
LEMMA CacheStep ==
    CacheInv /\ [CacheNext]_cacheVars => CacheInv'
<1> SUFFICES ASSUME CacheInv, [CacheNext]_cacheVars
             PROVE  CacheInv'
  OBVIOUS
<1> DEFINE Work == [of : Mutations \cup {NoMutation}, done : BOOLEAN, at : [Tables -> Nat]]
<1>1. CASE UNCHANGED cacheVars
  BY <1>1 DEF cacheVars, CacheInv, Marked
<1>2. ASSUME NEW q \in tab,
             \/ Mount(q) \/ Unmount(q) \/ Collect(q) \/ Age(q) \/ Refetch(q)
             \/ Read(q) \/ Deliver(q) \/ FetchFails(q)
      PROVE  CacheInv'
  BY <1>2, QueryStep
<1>3. ASSUME NEW m \in Mutations \cup {NoMutation}
      PROVE  Sending(m) \in Work /\ Sending(m).done = FALSE
  BY DEF Sending
<1>4. \A q \in tab : Queries[q].reads \in Tables
  BY QueriesReadTables DEF CacheInv
<1>5. ASSUME NEW tables
      PROVE  /\ Changed(tables) \in [Tables -> Nat]
             /\ \A t \in Tables : table[t] <= Changed(tables)[t]
  BY DEF CacheInv, Changed
<1>6. CASE \E m \in Mutations : Mutate(m)
  <2>1. mutation' \in Work /\ mutation'.done = FALSE
    BY <1>3, <1>6 DEF Mutate
  <2>2. UNCHANGED <<table, tab, query, own, results>>
    BY <1>6 DEF Mutate
  <2>3. QED
    BY <2>1, <2>2 DEF CacheInv, Marked
<1>7. CASE Store
  <2>1. /\ table' = Changed(mutation.of.writes) /\ UNCHANGED <<tab, query, own, results>>
        /\ mutation' = [mutation EXCEPT !.done = TRUE, !.at = table']
    BY <1>7 DEF Store
  <2>2. table' \in [Tables -> Nat] /\ \A t \in Tables : table[t] <= table'[t]
    BY <1>5, <2>1
  <2>3. mutation \in Work
    BY DEF CacheInv
  <2>4. TRUE \in BOOLEAN
    OBVIOUS
  <2>5. mutation' \in Work
    BY <2>1, <2>2, <2>3, <2>4, Zenon
  <2>6. mutation'.at = table'
    BY <2>1, <2>3
  <2>7. \A t \in Tables : own[t] <= table'[t] /\ table'[t] <= table'[t]
    BY <2>2 DEF CacheInv
  <2>8. QED
    BY <2>1, <2>2, <2>5, <2>6, <2>7 DEF CacheInv, Marked
<1>8. CASE Succeed
  <2>1. /\ own' = [t \in Tables |-> IF t \in mutation.of.writes THEN mutation.at[t]
                                    ELSE own[t]]
        /\ query' = [q \in tab |-> IF Invalidates(mutation.of, q)
                                   THEN Invalidated(query[q]) ELSE query[q]]
        /\ mutation' = Sending(NoMutation) /\ UNCHANGED <<table, tab, results>>
    BY <1>8 DEF Succeed
  <2>2. mutation \in Work /\ mutation.done
    BY <1>8 DEF CacheInv, Succeed
  <2>3. mutation' \in Work /\ mutation'.done = FALSE
    BY <1>3, <2>1
  <2>4. own' \in [Tables -> Nat] /\ \A t \in Tables : own'[t] <= table'[t]
    BY <2>1, <2>2 DEF CacheInv
  <2>5. \A q \in tab : Marked(query'[q], own'[Queries[q].reads], q \in Cached)
    <3> TAKE q \in tab
    <3>1. /\ query[q] \in Entry /\ own'[Queries[q].reads] \in Nat
          /\ Marked(query[q], own[Queries[q].reads], q \in Cached)
      BY <1>4, <2>4 DEF CacheInv
    <3>2. CASE Invalidates(mutation.of, q)
      BY <2>1, <3>1, <3>2, InvalidatedIsMarked DEF Marked
    <3>3. CASE ~Invalidates(mutation.of, q)
      <4>1. Queries[q].reads \notin mutation.of.writes
        BY <2>2, <3>3, WritersInvalidate DEF CacheInv
      <4>2. own'[Queries[q].reads] = own[Queries[q].reads] /\ query'[q] = query[q]
        BY <1>4, <2>1, <3>3, <4>1
      <4>3. QED
        BY <3>1, <4>2
    <3>4. QED
      BY <3>2, <3>3
  <2>6. query' \in [tab -> Entry]
    BY <2>1, <2>5 DEF Marked
  <2>7. QED
    BY <2>1, <2>3, <2>4, <2>5, <2>6 DEF CacheInv
<1>9. CASE MutationFails
  <2>1. mutation' \in Work /\ mutation'.done = FALSE
    BY <1>3, <1>9 DEF MutationFails
  <2>2. UNCHANGED <<table, tab, query, own, results>>
    BY <1>9 DEF MutationFails
  <2>3. QED
    BY <2>1, <2>2 DEF CacheInv, Marked
<1>10. ASSUME NEW t, OtherChange(t)
       PROVE  CacheInv'
  <2>1. table' = Changed({t}) /\ UNCHANGED <<tab, query, mutation, own, results>>
    BY <1>10 DEF OtherChange
  <2>2. table' \in [Tables -> Nat] /\ \A s \in Tables : table[s] <= table'[s]
    BY <1>5, <2>1
  <2>3. \A s \in Tables : own[s] <= table'[s]
    BY <2>2 DEF CacheInv
  <2>4. mutation.done => \A s \in Tables : mutation.at[s] <= table'[s]
    BY <2>2 DEF CacheInv
  <2>5. QED
    BY <2>1, <2>2, <2>3, <2>4 DEF CacheInv, Marked
<1>11. ASSUME NEW m, ChangeWithoutHook(m)
       PROVE  CacheInv'
  <2>1. table' = Changed(m.writes) /\ UNCHANGED <<tab, query, mutation, own, results>>
    BY <1>11 DEF ChangeWithoutHook
  <2>2. table' \in [Tables -> Nat] /\ \A s \in Tables : table[s] <= table'[s]
    BY <1>5, <2>1
  <2>3. \A s \in Tables : own[s] <= table'[s]
    BY <2>2 DEF CacheInv
  <2>4. mutation.done => \A s \in Tables : mutation.at[s] <= table'[s]
    BY <2>2 DEF CacheInv
  <2>5. QED
    BY <2>1, <2>2, <2>3, <2>4 DEF CacheInv, Marked
<1>12. ASSUME NEW q \in tab, Keep(q) \/ Expire(q)
       PROVE  CacheInv'
  <2>1. Latest(q) \in Nat
    BY <1>4 DEF CacheInv, Latest
  <2>2. results' \in [tab -> Nat]
    BY <1>12, <2>1 DEF Keep, Expire, CacheInv
  <2>3. UNCHANGED <<table, tab, query, mutation, own>>
    BY <1>12 DEF Keep, Expire
  <2>4. QED
    BY <2>2, <2>3 DEF CacheInv, Marked
<1>13. QED
  BY <1>1, <1>2, <1>6, <1>7, <1>8, <1>9, <1>10, <1>11, <1>12 DEF CacheNext

(* What is marked is what the property asks for.                           *)
LEMMA CacheShows ==
    CacheInv => OwnChangesAreShown
BY DEF CacheInv, Marked, OwnChangesAreShown

-----------------------------------------------------------------------------
(* The contract of client and backend.  What a schema asks of a part is    *)
(* what the backend's row has, in every part but the page of a search.     *)
Fits(p) ==
    \A f \in DOMAIN Schema[p] : Column(p, f) # {} /\ Column(p, f) \subseteq Schema[p][f]

(* Field by field, every kind of value a row can hold is one its schema    *)
(* admits, and a field the row lacks may be absent.                        *)
LEMMA RowsFitSchemas ==
    \A p \in DOMAIN Schema \ {"page"} : Fits(p)
<1> USE DEF Fits, Column, Uuid, Email, Iso3, Str, Date, Natural, Number, Json, Opt, NullOpt,
            OrNull, ListingStatus, ListingVerdict, OrderStatus, PaymentStatus,
            ShipmentStatus, EscrowStatus, ReviewStatus, MessageStatus, PartyRole,
            KycStatus, DisputeStatus, Roles
<1>1. Fits("auth")
  BY DEF Schema, Row, AuthSchema, AuthRow
<1>2. Fits("user")
  BY DEF Schema, Row, UserSchema, AccountFields
<1>3. Fits("adminUser")
  BY DEF Schema, Row, AdminUserSchema, AdminUserRow
<1>4. Fits("listing")
  BY DEF Schema, Row, ListingSchema, ListingRow
<1>5. Fits("variant")
  BY DEF Schema, Row, VariantSchema, VariantRow
<1>6. Fits("image")
  BY DEF Schema, Row, ImageSchema, ImageRow
<1>7. Fits("order")
  BY DEF Schema, Row, OrderSchema, OrderRow
<1>8. Fits("item")
  BY DEF Schema, Row, ItemSchema, ItemRow
<1>9. Fits("shipment")
  BY DEF Schema, Row, ShipmentSchema, ShipmentRow
<1>10. Fits("timeline")
  BY DEF Schema, Row, TimelineSchema, TimelineRow
<1>11. Fits("payment")
  BY DEF Schema, Row, PaymentSchema, PaymentRow
<1>12. Fits("escrow")
  BY DEF Schema, Row, EscrowSchema, EscrowRow
<1>13. Fits("review")
  BY DEF Schema, Row, ReviewSchema, ReviewRow
<1>14. Fits("flag")
  BY DEF Schema, Row, FlagSchema, FlagRow
<1>15. Fits("rollup")
  BY DEF Schema, Row, RollupSchema, RollupRow
<1>16. Fits("thread")
  BY DEF Schema, Row, ThreadSchema, ThreadRow
<1>17. Fits("participant")
  BY DEF Schema, Row, ParticipantSchema, ParticipantRow
<1>18. Fits("message")
  BY DEF Schema, Row, MessageSchema, MessageRow
<1>19. Fits("attachment")
  BY DEF Schema, Row, AttachmentSchema, AttachmentRow
<1>20. Fits("receipt")
  BY DEF Schema, Row, ReceiptSchema, ReceiptRow
<1>21. Fits("submission")
  BY DEF Schema, Row, SubmissionSchema, SubmissionRow
<1>22. Fits("document")
  BY DEF Schema, Row, DocumentSchema, DocumentRow
<1>23. Fits("moderation")
  BY DEF Schema, Row, ModerationSchema, ModerationRow
<1>24. Fits("dispute")
  BY DEF Schema, Row, DisputeSchema, DisputeRow
<1> HIDE DEF Fits
<1>25. QED
  BY <1>1, <1>2, <1>3, <1>4, <1>5, <1>6, <1>7, <1>8, <1>9, <1>10, <1>11, <1>12,
     <1>13, <1>14, <1>15, <1>16, <1>17, <1>18, <1>19, <1>20, <1>21, <1>22,
     <1>23, <1>24 DEF Schema

(* A method reads its answer with the schema of an object of the backend,  *)
(* only the search with that of a page; and but for the push token and the *)
(* decisions of the console its path is one the backend has a route for.   *)
Understood(methods) ==
    \A name \in DOMAIN methods :
        LET m == methods[name]
        IN  /\ m.answer \in DOMAIN Parts
            /\ name # "searchListings" => m.answer # "search"
            /\ name \notin {"registerExpoPushToken", "reviewKycSubmission",
                            "reviewListing", "resolveDispute"} =>
                  Route(m.verb, m.path) \in OpenRoutes \cup SignedInRoutes \cup AdminRoutes

(* So it is for every method of the client, group by group.                *)
LEMMA MethodsAreUnderstood ==
    Understood(Methods)
<1> DEFINE groups == {AuthMethods, ListingMethods, OrderMethods, ReviewMethods,
                      MessagingMethods, NotificationMethods, AdminMethods}
<1>1. Understood(AuthMethods)
  BY DEF Understood, AuthMethods, Method, Parts, Route, OpenRoutes, AuthRoutes,
         SignedInRoutes
<1>2. Understood(ListingMethods)
  BY DEF Understood, ListingMethods, Method, Parts, Route, OpenRoutes, ListingRoutes
<1>3. Understood(OrderMethods)
  BY DEF Understood, OrderMethods, Method, Parts, Route, OpenRoutes, OrderRoutes
<1>4. Understood(ReviewMethods)
  BY DEF Understood, ReviewMethods, Method, Parts, Route, OpenRoutes, ReviewRoutes
<1>5. Understood(MessagingMethods)
  BY DEF Understood, MessagingMethods, Method, Parts, Route, OpenRoutes, MessageRoutes
<1>6. Understood(NotificationMethods)
  BY DEF Understood, NotificationMethods, Method, Parts
<1>7. Understood(AdminMethods)
  BY DEF Understood, AdminMethods, Method, Parts, Route, AdminRoutes
<1>8. \A g \in groups : Understood(g)
  BY <1>1, <1>2, <1>3, <1>4, <1>5, <1>6, <1>7
<1>9. Methods = [name \in UNION {DOMAIN g : g \in groups} |->
                    (CHOOSE g \in groups : name \in DOMAIN g)[name]]
  BY DEF Methods
<1> HIDE DEF groups
<1>10. SUFFICES ASSUME NEW name \in DOMAIN Methods
                PROVE  \E g \in groups : name \in DOMAIN g /\ Methods[name] = g[name]
  BY <1>8 DEF Understood
<1>11. \E g \in groups : name \in DOMAIN g
  BY <1>9
<1>12. QED
  BY <1>9, <1>11

(* Every answer but that of a search is admitted, whatever row it is of.   *)
LEMMA AnswersAreReadable ==
    ASSUME NEW answer \in DOMAIN Parts \ {"search"}
    PROVE  Readable(answer) /\ \A cell \in CellsOf(answer) : Admitted(cell)
<1>1. Parts[answer] \subseteq DOMAIN Schema \ {"page"}
  BY DEF Parts, Schema, OrderParts, ThreadParts, ListingParts
<1>2. \A p \in Parts[answer] : Fits(p)
  BY <1>1, RowsFitSchemas
<1>3. Readable(answer)
  BY <1>2 DEF Readable, Fits
<1>4. ASSUME NEW cell \in CellsOf(answer)
      PROVE  Admitted(cell)
  <2>1. PICK p \in Parts[answer] :
           cell \in UNION {{<<p, f, kind>> : kind \in Column(p, f)} : f \in DOMAIN Schema[p]}
    BY DEF CellsOf
  <2>2. PICK f \in DOMAIN Schema[p] : cell \in {<<p, f, kind>> : kind \in Column(p, f)}
    BY <2>1
  <2>3. PICK kind \in Column(p, f) : cell = <<p, f, kind>>
    BY <2>2
  <2>4. kind \in Schema[p][f]
    BY <1>2 DEF Fits
  <2>5. QED
    BY <2>3, <2>4 DEF Admitted
<1>5. QED
  BY <1>3, <1>4

(* A call under way is one of the client's methods and has no outcome yet. *)
Names == DOMAIN Methods \cup {"none"}
Outcomes == {"none", "rejected", "no route", "forbidden", "refused", "lost", "value",
             "unparsed"}
CallType == [name : Names, token : Sessions, body : {"strict", "loose"},
             stage : {"sent", "handled", "ended"}, outcome : Outcomes]
ContractInv ==
    /\ session \in Sessions
    /\ call \in CallType
    /\ call.stage # "ended" => call.name \in DOMAIN Methods /\ call.outcome = "none"
    /\ CallsAreUnderstood

(* What is left of a call is its name and its outcome.                     *)
LEMMA EndedCall ==
    ASSUME NEW name \in Names, NEW outcome \in Outcomes
    PROVE  /\ Ended(name, outcome) \in CallType
           /\ Ended(name, outcome).stage = "ended"
           /\ Ended(name, outcome).outcome = outcome /\ Ended(name, outcome).name = name
BY DEF Ended, NoCall, CallType, Sessions

(* A call ends with one of its outcomes, and for a reason.                 *)
LEMMA CallEnds ==
    ASSUME ContractInv, call.stage # "ended",
           NEW outcome \in {"no route", "forbidden", "refused", "lost", "value", "unparsed"},
           End(outcome), UNCHANGED <<gateway, session, looseStored>>,
           outcome = "unparsed" =>
              call.name = "searchListings" \/ LooseCellsOf(Methods[call.name].answer) # {},
           gateway /\ outcome = "no route" =>
              call.name \in {"registerExpoPushToken", "reviewKycSubmission",
                             "reviewListing", "resolveDispute"}
    PROVE  ContractInv'
<1>1. call' = Ended(call.name, outcome) /\ call \in CallType
  BY DEF End, ContractInv
<1>2. call.name \in Names /\ outcome \in Outcomes
  BY <1>1 DEF CallType, Outcomes
<1>3. /\ Ended(call.name, outcome) \in CallType
      /\ Ended(call.name, outcome).stage = "ended"
      /\ Ended(call.name, outcome).outcome = outcome
      /\ Ended(call.name, outcome).name = call.name
  BY <1>2, EndedCall
<1>4. /\ call' \in CallType
      /\ call'.stage = "ended" /\ call'.outcome = outcome /\ call'.name = call.name
  BY <1>1, <1>3
<1>5. QED
  BY <1>1, <1>4 DEF ContractInv, CallsAreUnderstood, LooseCellsOf

(* Every step of client, backend and session keeps the invariant.          *)
LEMMA ContractStep ==
    ContractInv /\ [ContractNext]_contractVars => ContractInv'
<1> SUFFICES ASSUME ContractInv, [ContractNext]_contractVars
             PROVE  ContractInv'
  OBVIOUS
<1>1. CASE UNCHANGED contractVars
  BY <1>1 DEF contractVars, ContractInv, CallsAreUnderstood, LooseCellsOf
<1>2. ASSUME NEW s \in Sessions, SessionChanges(s)
      PROVE  ContractInv'
  BY <1>2 DEF SessionChanges, ContractInv, CallsAreUnderstood, LooseCellsOf
<1>3. ASSUME NEW name \in DOMAIN Methods, NEW body \in {"strict", "loose"},
             Send(name, body)
      PROVE  ContractInv'
  <2> DEFINE checked == name \in ParsesFirst /\ body = "loose"
  <2>1. /\ call' = IF checked THEN Ended(name, "rejected")
                   ELSE [name |-> name, body |-> body,
                         token |-> IF Methods[name].auth THEN session ELSE "none",
                         stage |-> "sent", outcome |-> "none"]
        /\ UNCHANGED <<gateway, session, looseStored>>
    BY <1>3 DEF Send
  <2> HIDE DEF checked
  <2>2. session \in Sessions /\ "none" \in Sessions
    BY DEF ContractInv, Sessions
  <2>3. CASE checked
    <3>1. call' = Ended(name, "rejected") /\ name \in Names /\ "rejected" \in Outcomes
      BY <2>1, <2>3 DEF Names, Outcomes
    <3>2. call' \in CallType /\ call'.outcome = "rejected" /\ call'.stage = "ended"
      BY <3>1, EndedCall
    <3>3. QED
      BY <2>1, <2>2, <3>2 DEF ContractInv, CallsAreUnderstood
  <2>4. CASE ~checked
    <3>1. call' = [name |-> name, body |-> body,
                   token |-> IF Methods[name].auth THEN session ELSE "none",
                   stage |-> "sent", outcome |-> "none"]
      BY <2>1, <2>4
    <3>2. call' \in CallType
      BY <2>2, <3>1 DEF CallType, Names, Outcomes
    <3>3. call'.name = name /\ call'.outcome = "none"
      BY <3>1
    <3>4. QED
      BY <2>1, <2>2, <3>2, <3>3 DEF ContractInv, CallsAreUnderstood
  <2>5. QED
    BY <2>3, <2>4
<1>4. CASE Handle
  <2>1. /\ call' = [call EXCEPT !.stage = "handled"] /\ UNCHANGED <<gateway, session>>
        /\ call.stage = "sent" /\ call \in CallType
    BY <1>4 DEF Handle, ContractInv
  <2>2. call' \in CallType /\ call'.outcome = call.outcome /\ call'.name = call.name
    BY <2>1 DEF CallType
  <2>3. call.name \in DOMAIN Methods /\ call.outcome = "none" /\ session \in Sessions
    BY <2>1 DEF ContractInv
  <2>4. QED
    BY <2>1, <2>2, <2>3 DEF ContractInv, CallsAreUnderstood
<1>5. ASSUME NEW reason \in {"no route", "forbidden", "refused"}, Refuse(reason)
      PROVE  ContractInv'
  <2>1. call.stage = "sent" /\ End(reason) /\ UNCHANGED <<gateway, session, looseStored>>
    BY <1>5 DEF Refuse
  <2>2. call.name \in DOMAIN Methods
    BY <2>1 DEF ContractInv
  <2>3. reason = "no route" => ~Reached(Methods[call.name])
    BY <1>5 DEF Refuse
  <2>4. gateway /\ reason = "no route" =>
           call.name \in {"registerExpoPushToken", "reviewKycSubmission",
                          "reviewListing", "resolveDispute"}
    BY <2>2, <2>3, MethodsAreUnderstood DEF Understood, Reached
  <2>5. QED
    BY <2>1, <2>4, CallEnds
<1>6. CASE Lose
  BY <1>6, CallEnds DEF Lose
<1>7. ASSUME call.stage = "handled",
             NEW cell \in CellsOf(Methods[call.name].answer)
                         \cup LooseCellsOf(Methods[call.name].answer),
             Answer(Admitted(cell))
      PROVE  ContractInv'
  <2> DEFINE answer == Methods[call.name].answer
             outcome == IF Admitted(cell) /\ Readable(answer) THEN "value" ELSE "unparsed"
  <2>1. call.name \in DOMAIN Methods
    BY <1>7 DEF ContractInv
  <2>2. answer \in DOMAIN Parts /\ (call.name # "searchListings" => answer # "search")
    BY <2>1, MethodsAreUnderstood DEF Understood
  <2>3. LooseCellsOf(answer) = {} => cell \in CellsOf(answer)
    BY <1>7
  <2>4. outcome = "unparsed" => call.name = "searchListings" \/ LooseCellsOf(answer) # {}
    BY <2>2, <2>3, AnswersAreReadable
  <2>5. End(outcome) /\ UNCHANGED <<gateway, session, looseStored>>
    BY <1>7 DEF Answer
  <2>6. outcome \in {"value", "unparsed"}
    OBVIOUS
  <2> HIDE DEF outcome
  <2>7. QED
    BY <1>7, <2>4, <2>5, <2>6, CallEnds
<1>8. CASE TakeAnswer
  BY <1>8, CallEnds DEF TakeAnswer
<1>9. QED
  BY <1>1, <1>2, <1>3, <1>4, <1>5, <1>6, <1>7, <1>8 DEF ContractNext, Readings

-----------------------------------------------------------------------------
(* The parts side by side.  A step is one of the part that runs, and none  *)
(* of the others: each takes a step of its own or stands still.            *)
LEMMA StepOfOne ==
    [Next]_vars => /\ [ContractNext]_contractVars /\ [CacheNext]_cacheVars
                   /\ [Mock!MockNext]_mock /\ [Discovery!DiscoveryNext]_discovery
                   /\ [Mobile!MobileNext]_mobile /\ [Web!SessionNext]_web
                   /\ [Listing!FormNext]_listing
BY DEF Next, vars

ClientsInv == ContractInv /\ CacheInv /\ MockInv /\ DiscoveryInv /\ InboxInv /\ ThreadInv
              /\ WebInv /\ FormInv

(* Each part begins with its invariant.                                    *)
LEMMA ClientsStart ==
    Init => ClientsInv
<1> SUFFICES ASSUME Init
             PROVE  ClientsInv
  OBVIOUS
<1>1. ContractInv
  <2>1. call = NoCall /\ session = "none"
    BY DEF Init, ContractInit
  <2>2. "none" \in Sessions
    BY DEF Sessions
  <2>3. QED
    BY <2>1, <2>2 DEF ContractInv, CallType, Names, Outcomes, NoCall, CallsAreUnderstood
<1>2. CacheInv
  <2>1. /\ table = [t \in Tables |-> 1] /\ tab \in Visits /\ query = [q \in tab |-> Empty]
        /\ results = [q \in tab |-> 0]
        /\ mutation = Sending(NoMutation) /\ own = [t \in Tables |-> 1]
    BY DEF Init, CacheInit
  <2>2. \A q \in tab : Queries[q].reads \in Tables
    BY <2>1, QueriesReadTables
  <2>3. \A q \in tab : Marked(query[q], own[Queries[q].reads], q \in Cached)
    <3> TAKE q \in tab
    <3>1. query[q] = Empty /\ own[Queries[q].reads] = 1
      BY <2>1, <2>2
    <3>2. (q \in Cached) \in BOOLEAN /\ 1 \in Nat
      OBVIOUS
    <3>3. QED
      BY <3>1, <3>2, EmptyIsMarked, Zenon
  <2>4. query \in [tab -> Entry]
    BY <2>1 DEF Empty, Entry
  <2>5. /\ mutation \in [of : Mutations \cup {NoMutation}, done : BOOLEAN,
                         at : [Tables -> Nat]]
        /\ mutation.done = FALSE
    BY <2>1 DEF Sending
  <2>6. QED
    BY <2>1, <2>3, <2>4, <2>5 DEF CacheInv
<1>3. MockInv
  BY DEF Init, Mock!MockInit, MockInv, Mock!StorageAgrees, Mock!Realms
<1>4. DiscoveryInv
  <2>1. /\ keyword = NoKeyword /\ page = 1 /\ hasMore = TRUE /\ listings = <<>>
        /\ due = TRUE /\ rendered = TRUE /\ searches = Discovery!EmptyBag
    BY DEF Init, Discovery!DiscoveryInit
  <2>2. DOMAIN searches = {} /\ searches \in [{} -> Nat \ {0}]
    BY <2>1 DEF Discovery!EmptyBag, Discovery!SetToBag
  <2>3. DOMAIN listings = {} /\ listings \in Seq(BlockType)
    BY <2>1
  <2>4. QED
    BY <2>1, <2>2, <2>3, ClientsAssumption DEF DiscoveryInv, HasDemo
<1>5. InboxInv
  BY DEF Init, Mobile!MobileInit, InboxInv, InboxType, Mobile!ClosedInbox
<1>6. ThreadInv
  BY DEF Init, Mobile!MobileInit, ThreadInv, ThreadType, ReplyType, ShownType,
         Mobile!ClosedThread, Mobile!NoReply, Mobile!Nothing, Mobile!Shown
<1>7. WebInv
  <2>1. /\ form = [t \in Tabs |-> Web!IdleForm] /\ local = Nobody /\ overlapped = FALSE
    BY DEF Init, Web!SessionInit
  <2>2. Web!IdleForm.stage = "idle" /\ Web!IdleForm \in
           [stage : {"idle", "login", "register", "signIn", "signUp"},
            account : Accounts \cup {Nobody}]
    BY DEF Web!IdleForm, Web!Form
  <2>3. QED
    BY <2>1, <2>2 DEF WebInv, Web!Submitted
<1>8. FormInv
  <2>1. PICK l \in Listing!Locations : store \in {<<>>, <<Listing!Listing(Labels, l)>>}
    BY DEF Init, Listing!FormInit, Listing!Locations
  <2> DEFINE first == Listing!Listing(Labels, l)
  <2>2. first \in ListingType
    BY DEF Listing!Listing, ListingType
  <2> HIDE DEF first
  <2>3. store \in Seq(ListingType)
    <3>1. <<>> \in Seq(ListingType) /\ <<first>> \in Seq(ListingType)
      BY <2>2
    <3>2. store \in {<<>>, <<first>>}
      BY <2>1 DEF first
    <3>3. QED
      BY <3>1, <3>2
  <2>4. /\ opened = 0 /\ drafts = {} /\ chosen = {} /\ place = NoPlace
        /\ work = Listing!Idle /\ message = "none"
    BY DEF Init, Listing!FormInit
  <2>5. opened \in 0..Len(store)
    BY <2>3, <2>4
  <2>6. place \in Listing!Locations
    BY <2>4 DEF Listing!Locations
  <2>7. work \in WorkType /\ work.stage = "idle"
    BY <2>4, IdleIsOne
  <2>8. QED
    BY <2>3, <2>4, <2>5, <2>6, <2>7 DEF FormInv
<1>9. QED
  BY <1>1, <1>2, <1>3, <1>4, <1>5, <1>6, <1>7, <1>8 DEF ClientsInv

(* All parts keep their invariants.                                        *)
THEOREM ClientsInvariant ==
    Spec => []ClientsInv
<1>1. ClientsInv /\ [Next]_vars => ClientsInv'
  BY StepOfOne, ContractStep, CacheStep, MockStep, DiscoveryStep, InboxStep, ThreadStep,
     WebStep, FormStep DEF ClientsInv
<1>2. QED
  BY ClientsStart, <1>1, PTL DEF Spec

(* What a browser keeps for the app agrees with the app: the mock's state  *)
(* with the storage it was read from and written to, and the token with    *)
(* the session that was last signed in, whatever write was refused.        *)
THEOREM ClientStorageAgrees ==
    Spec => []StorageAgrees
<1>1. ClientsInv => StorageAgrees
  BY WebAgrees DEF ClientsInv, StorageAgrees, MockInv
<1>2. QED
  BY <1>1, ClientsInvariant, PTL

(* The mobile app never shows demo content without the line that says so,  *)
(* unless an answer that replaces it, or the line, is still to come.       *)
THEOREM ClientDemoIsAnnounced ==
    Spec => []DemoIsAnnounced
<1>1. ClientsInv => DemoIsAnnounced
  BY DiscoveryAnnounces DEF ClientsInv, DemoIsAnnounced, InboxInv, ThreadInv,
     Mobile!DemoIsAnnounced
<1>2. QED
  BY <1>1, ClientsInvariant, PTL

(* A form that says it saved the listing has saved its variants and every  *)
(* chosen file, whatever failed and was submitted again before.            *)
THEOREM SavedFormIsComplete ==
    Spec => []SavedFormsAreComplete
<1>1. ClientsInv => SavedFormsAreComplete
  BY FormIsComplete DEF ClientsInv, SavedFormsAreComplete
<1>2. QED
  BY <1>1, ClientsInvariant, PTL

(* A query of the tab that still shows a table as it was before the tab's  *)
(* own change is marked to be fetched again, unless its fetch had crossed  *)
(* the change.                                                             *)
THEOREM OwnChangeIsShown ==
    Spec => []OwnChangesAreShown
<1>1. ClientsInv => OwnChangesAreShown
  BY CacheShows DEF ClientsInv
<1>2. QED
  BY <1>1, ClientsInvariant, PTL

(* No call ends with an answer its schema does not admit, but a search and *)
(* after a listing was stored from a body nobody checked; and behind a     *)
(* gateway only four methods lack a route.                                 *)
THEOREM CallIsUnderstood ==
    Spec => []CallsAreUnderstood
<1>1. ClientsInv => CallsAreUnderstood
  BY DEF ClientsInv, ContractInv
<1>2. QED
  BY <1>1, ClientsInvariant, PTL

(* A reply the app says it saved stays on the screen until an answer, or   *)
(* the end of the screen, takes it away: no other reply that fails does.   *)
THEOREM ReplySurvives ==
    Spec => RepliesSurvive
<1>1. ClientsInv /\ [Next]_vars =>
         [\/ thread.shown.saved \subseteq thread'.shown.saved
          \/ thread'.loads < thread.loads
          \/ thread'.shown.source = "backend"
          \/ ~thread'.open]_(Mobile!mobileVars)
  BY StepOfOne, SavedStay DEF ClientsInv, mobile, Mobile!mobileVars
<1>2. QED
  BY <1>1, ClientsInvariant, PTL DEF Spec, RepliesSurvive, Mobile!RepliesSurvive

(* The discovery screen is never content with what it shows: a search for  *)
(* what is in the box begins, or will when the load that runs has ended,   *)
(* so an answer to an older keyword does not stay (the safety half of      *)
(* ListConverges).                                                         *)
THEOREM ListIsAskedForAgain ==
    Spec => []Discovery!ScreenNeverRests
<1>1. Init => ScreenInv
  BY DEF Init, Discovery!DiscoveryInit, ScreenInv, Discovery!ScreenNeverRests
<1>2. ClientsInv /\ ScreenInv /\ [Next]_vars => ScreenInv'
  BY StepOfOne, ScreenStep DEF ClientsInv
<1>3. ScreenInv => Discovery!ScreenNeverRests
  BY DEF ScreenInv
<1>4. QED
  BY <1>1, <1>2, <1>3, ClientsInvariant, PTL DEF Spec
=============================================================================
