----------------------------- MODULE WebSession -----------------------------
(***************************************************************************)
(* Signing in, signing up and signing out in the web app                   *)
(* (apps/web/src/app/login, app/signup, lib/auth.ts).                      *)
(*                                                                         *)
(* A form asks the API for a token, keeps the token in the localStorage    *)
(* and then has NextAuth ask the API again and set the session cookie.     *)
(* The tabs of one browser share the localStorage and the cookie.          *)
(***************************************************************************)
EXTENDS Naturals, FiniteSets

CONSTANTS
    Tabs,       \* the tabs with a login or a sign-up form
    Accounts,   \* the accounts, by their email
    Nobody      \* no account

VARIABLES
    registered, \* the accounts the API knows
    writable,   \* the browser lets the app write to its localStorage
    form,       \* the form of each tab
    local,      \* the account whose token the localStorage has
    cookie,     \* the account of the session cookie
    lastSession,\* history: the account of the last session that began
    stray,       \* history: the account of a token stored for a session that did
                \* not begin, by a form nothing told so
    overlapped  \* history: two forms were submitted at once

sessionVars == <<registered, writable, form, local, cookie, lastSession, stray, overlapped>>

Form(stage, account) == [stage |-> stage, account |-> account]
IdleForm == Form("idle", Nobody)

SessionInit ==
    /\ registered \in SUBSET Accounts
    /\ writable \in BOOLEAN
    /\ form = [t \in Tabs |-> IdleForm]
    /\ local = Nobody /\ cookie = Nobody /\ lastSession = Nobody /\ stray = Nobody
    /\ overlapped = FALSE

Submitted(t) == form[t].stage # "idle"

(* handleSubmit of either form, up to its call: the button is disabled     *)
(* while the form is submitted.                                            *)
Submit(t, kind, a) ==
    /\ ~Submitted(t)
    /\ form' = [form EXCEPT ![t] = Form(kind, a)]
    /\ overlapped' = (overlapped \/ \E u \in Tabs : Submitted(u))
    /\ UNCHANGED <<registered, writable, local, cookie, lastSession, stray>>

(* api.auth.login or api.auth.register is answered: persistAuth, and then  *)
(* signIn.  A write the browser refuses is ignored.                        *)
Authorized(t) ==
    /\ \/ form[t].stage = "login" /\ form[t].account \in registered
          /\ form' = [form EXCEPT ![t].stage = "signIn"]
          /\ UNCHANGED registered
       \/ form[t].stage = "register" /\ form[t].account \notin registered
          /\ form' = [form EXCEPT ![t].stage = "signUp"]
          /\ registered' = registered \cup {form[t].account}
    /\ local' = IF writable THEN form[t].account ELSE local
    /\ UNCHANGED <<writable, cookie, lastSession, stray, overlapped>>

SigningIn(t) == form[t].stage \in {"signIn", "signUp"}
Ends(t) == form' = [form EXCEPT ![t] = IdleForm]

(* The answer to register is lost: the account is there.                   *)
RegisterLost(t) ==
    /\ form[t].stage = "register" /\ form[t].account \notin registered
    /\ registered' = registered \cup {form[t].account}
    /\ Ends(t)
    /\ local' = Nobody /\ stray' = Nobody
    /\ UNCHANGED <<writable, cookie, lastSession, overlapped>>

(* authorize logs in once more, and its answer sets the cookie.            *)
SignedIn(t) ==
    /\ SigningIn(t)
    /\ Ends(t)
    /\ cookie' = form[t].account /\ lastSession' = form[t].account /\ stray' = Nobody
    /\ UNCHANGED <<registered, writable, local, overlapped>>

(* signIn comes back with no session and no error: with nothing at all, or *)
(* with an answer that has a url.  The login form takes the one for a      *)
(* failure and not the other, the sign-up form neither.                    *)
NoSession == {"nothing", "url"}
Accepts(stage, answer) == stage = "signUp" \/ answer = "url"
WentOn(t) ==
    /\ SigningIn(t)
    /\ \E answer \in NoSession : Accepts(form[t].stage, answer)
    /\ Ends(t)
    /\ stray' = form[t].account
    /\ UNCHANGED <<registered, writable, local, cookie, lastSession, overlapped>>

(* The tab is reloaded or left with its form submitted: the API may carry  *)
(* the call out, and nothing else is done about it.                        *)
Leave(t) ==
    /\ Submitted(t)
    /\ Ends(t)
    /\ \/ /\ ~SigningIn(t)
          /\ registered' \in {registered} \cup
                IF form[t].stage = "register" THEN {registered \cup {form[t].account}} ELSE {}
          /\ UNCHANGED <<cookie, lastSession, stray>>
       \/ /\ SigningIn(t)
          /\ cookie' = form[t].account /\ lastSession' = form[t].account /\ stray' = Nobody
          /\ UNCHANGED registered
       \/ /\ SigningIn(t)
          /\ stray' = form[t].account
          /\ UNCHANGED <<registered, cookie, lastSession>>
    /\ UNCHANGED <<writable, local, overlapped>>

(* A call fails and the token stays in the localStorage.                   *)
FailKeepingToken(t) ==
    /\ Submitted(t)
    /\ Ends(t)
    /\ UNCHANGED <<registered, writable, local, cookie, lastSession, stray, overlapped>>

(* The API refuses, a call is lost or signIn comes back with an error, or  *)
(* with nothing to the login form: the catch of both forms takes the token *)
(* out of the localStorage, whoever put it there.                          *)
Fail(t) ==
    /\ Submitted(t)
    /\ Ends(t)
    /\ local' = Nobody /\ stray' = Nobody
    /\ UNCHANGED <<registered, writable, cookie, lastSession, overlapped>>

(* signOut, or the cookie expires: the localStorage keeps its token.       *)
SignOut ==
    /\ cookie # Nobody
    /\ cookie' = Nobody
    /\ UNCHANGED <<registered, writable, form, local, lastSession, stray, overlapped>>

SessionNext ==
    \/ \E t \in Tabs, kind \in {"login", "register"}, a \in Accounts : Submit(t, kind, a)
    \/ \E t \in Tabs :
          \/ Authorized(t) \/ RegisterLost(t) \/ SignedIn(t) \/ Fail(t)
          \/ WentOn(t) \/ Leave(t)
    \/ SignOut
-----------------------------------------------------------------------------
(* The token in the localStorage is of the account of the last session     *)
(* that began, or there is none, as long as no two forms of the browser    *)
(* were ever submitted at once: a sign-in that fails between its two calls *)
(* leaves no token behind.  Two ways do leave one: a tab that is closed or *)
(* reloaded between the calls, and a second call that ends with neither a  *)
(* session nor an error; the next form to end, well or not, makes up for   *)
(* them.                                                                   *)
LocalIsOfLastSession ==
    ~overlapped /\ (\A t \in Tabs : ~Submitted(t)) =>
        local \in {Nobody, lastSession} \/ (stray # Nobody /\ local = stray)
=============================================================================
