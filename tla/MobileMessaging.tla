-------------------------- MODULE MobileMessaging --------------------------
(***************************************************************************)
(* Signing in, the inbox and the thread screen of the mobile app           *)
(* (apps/mobile/src/providers and screens).                                *)
(*                                                                         *)
(* The inbox stays mounted under the thread screen.  Both load again       *)
(* whenever the user changes, which also an answer to a sign-in does that  *)
(* comes after the demo account was entered.  A load started by a render   *)
(* is one step with the change that caused it: the effect carries nothing  *)
(* but the user.  An answer for a screen that was left changes nothing.    *)
(***************************************************************************)
EXTENDS Naturals, FiniteSets

CONSTANTS
    MaxSignIns,     \* bound: sign-ins and registrations
    MaxLoads,       \* bound: loads of a screen in flight
    MaxReplies      \* bound: replies sent

VARIABLES
    user,           \* whose token the api client has
    signingIn,      \* sign-ins and registrations in flight
    signIns,        \* bound: those begun
    stored,         \* the backend holds a thread with the demo thread's id
    inbox,          \* the inbox screen
    thread,         \* the thread screen
    sending,        \* the reply on its way, with the closure it was sent from
    replies         \* bound: replies sent

mobileVars == <<user, signingIn, signIns, stored, inbox, thread, sending, replies>>

(* What a thread screen shows: where it is from, and the replies the app   *)
(* appended to it itself.                                                  *)
Shown(source, saved) == [source |-> source, saved |-> saved]
Nothing == Shown("nothing", {})
DemoThread == Shown("demo", {})

ClosedInbox == [open |-> FALSE, demo |-> FALSE, error |-> FALSE, loading |-> FALSE, loads |-> 0]
ClosedThread == [open |-> FALSE, shown |-> Nothing, error |-> FALSE, loads |-> 0]
NoReply == [reply |-> 0, base |-> Nothing]

MobileInit ==
    /\ user = "none"
    /\ signingIn = 0 /\ signIns = 0
    /\ stored \in BOOLEAN
    /\ inbox = ClosedInbox
    /\ thread = ClosedThread
    /\ sending = NoReply
    /\ replies = 0

-----------------------------------------------------------------------------
(* loadThreads and loadThread up to their call.                            *)
LoadInbox(i) == [i EXCEPT !.loading = TRUE, !.error = FALSE, !.loads = @ + 1]
LoadThread(t) == [t EXCEPT !.error = FALSE, !.loads = @ + 1]

(* setAuth: the mounted screens load again.                                *)
SetAuth(u) ==
    /\ user' = u
    /\ inbox' = IF inbox.open THEN LoadInbox(inbox) ELSE inbox
    /\ thread' = IF thread.open THEN LoadThread(thread) ELSE thread

(* login or register.  Each form disables its own button only, and a       *)
(* registration form that is opened again is a new one.                    *)
SignIn ==
    /\ user = "none"
    /\ signIns < MaxSignIns
    /\ signIns' = signIns + 1 /\ signingIn' = signingIn + 1
    /\ UNCHANGED <<user, stored, inbox, thread, sending, replies>>

SignInAnswered ==
    /\ signingIn > 0
    /\ signingIn' = signingIn - 1
    /\ SetAuth("account")
    /\ UNCHANGED <<signIns, stored, sending, replies>>

SignInFailed ==
    /\ signingIn > 0
    /\ signingIn' = signingIn - 1
    /\ UNCHANGED <<user, signIns, stored, inbox, thread, sending, replies>>

(* enterDemo, of the login screen: only without a user is it mounted.      *)
EnterDemo ==
    /\ user = "none"
    /\ SetAuth("demo")
    /\ UNCHANGED <<signingIn, signIns, stored, sending, replies>>

-----------------------------------------------------------------------------
(* The inbox.  The main screens are reached with a user only, and no       *)
(* screen calls logout: the branches without a user never run.             *)
OpenInbox ==
    /\ user # "none" /\ ~inbox.open
    /\ inbox' = LoadInbox([ClosedInbox EXCEPT !.open = TRUE])
    /\ UNCHANGED <<user, signingIn, signIns, stored, thread, sending, replies>>

RefreshInbox ==
    /\ inbox.open /\ ~inbox.loading /\ inbox.loads < MaxLoads
    /\ inbox' = LoadInbox(inbox)
    /\ UNCHANGED <<user, signingIn, signIns, stored, thread, sending, replies>>

(* The answer is a page with the threads in it, and the list is given the  *)
(* page: it has no length, and nothing is rendered.                        *)
InboxAnswered ==
    /\ inbox.loads > 0
    /\ inbox' = [inbox EXCEPT !.loads = @ - 1, !.loading = FALSE, !.demo = FALSE]
    /\ UNCHANGED <<user, signingIn, signIns, stored, thread, sending, replies>>

InboxFailed ==
    /\ inbox.loads > 0
    /\ inbox' = [inbox EXCEPT !.loads = @ - 1, !.loading = FALSE,
                              !.demo = TRUE, !.error = TRUE]
    /\ UNCHANGED <<user, signingIn, signIns, stored, thread, sending, replies>>

-----------------------------------------------------------------------------
(* The thread screen.  Only the demo threads can be tapped.                *)
OpenThread ==
    /\ inbox.demo /\ ~thread.open
    /\ thread' = LoadThread([ClosedThread EXCEPT !.open = TRUE, !.shown = DemoThread])
    /\ UNCHANGED <<user, signingIn, signIns, stored, inbox, sending, replies>>

LeaveThread ==
    /\ thread.open
    /\ thread' = ClosedThread
    /\ sending' = NoReply
    /\ UNCHANGED <<user, signingIn, signIns, stored, inbox, replies>>

ThreadAnswered ==
    /\ thread.loads > 0 /\ stored
    /\ thread' = [thread EXCEPT !.loads = @ - 1, !.shown = Shown("backend", {})]
    /\ UNCHANGED <<user, signingIn, signIns, stored, inbox, sending, replies>>

(* The network fails, or the backend has no such thread.                   *)
ThreadFailed ==
    /\ thread.loads > 0
    /\ thread' = [thread EXCEPT !.loads = @ - 1, !.shown = DemoThread, !.error = TRUE]
    /\ UNCHANGED <<user, signingIn, signIns, stored, inbox, sending, replies>>

(* handleSend: the button is disabled while a reply is sent.               *)
Send ==
    /\ thread.open /\ sending = NoReply
    /\ replies < MaxReplies /\ replies' = replies + 1
    /\ sending' = [reply |-> replies + 1, base |-> thread.shown]
    /\ thread' = [thread EXCEPT !.error = FALSE]
    /\ UNCHANGED <<user, signingIn, signIns, stored, inbox>>

SendAnswered ==
    /\ sending # NoReply /\ stored
    /\ thread' = [thread EXCEPT !.shown = Shown("backend", {})]
    /\ sending' = NoReply
    /\ UNCHANGED <<user, signingIn, signIns, stored, inbox, replies>>

(* The reply is appended to the thread the screen was opened with.         *)
AppendedToParams(base, reply) == Shown("demo", {reply})

(* The reply is appended to the thread of the closure it was sent from.    *)
Appended(base, reply) == Shown(base.source, base.saved \cup {reply})

SendFailed ==
    /\ sending # NoReply
    /\ thread' = [thread EXCEPT !.shown = Appended(sending.base, sending.reply), !.error = TRUE]
    /\ sending' = NoReply
    /\ UNCHANGED <<user, signingIn, signIns, stored, inbox, replies>>

MobileNext ==
    \/ SignIn \/ SignInAnswered \/ SignInFailed \/ EnterDemo
    \/ OpenInbox \/ RefreshInbox \/ InboxAnswered \/ InboxFailed
    \/ OpenThread \/ LeaveThread \/ ThreadAnswered \/ ThreadFailed
    \/ Send \/ SendAnswered \/ SendFailed
-----------------------------------------------------------------------------
(* Demo threads and demo messages are never shown as the user's own: the   *)
(* screen says so, or is still loading or sending.                         *)
DemoIsAnnounced ==
    /\ inbox.demo => inbox.error \/ inbox.loads > 0
    /\ thread.shown.source = "demo" =>
          thread.error \/ thread.loads > 0 \/ sending # NoReply

(* A reply that could not be sent, and which the app says it saved, leaves *)
(* the screen with the answer to a load or to a later reply, or with the   *)
(* screen; another reply that fails takes none away.                       *)
RepliesSurvive ==
    [][thread.shown.saved \subseteq thread'.shown.saved
       \/ thread'.loads < thread.loads
       \/ thread'.shown.source = "backend"
       \/ ~thread'.open]_mobileVars
=============================================================================
