----------------------------- MODULE Authentication -----------------------------
(***************************************************************************)
(* One account: AuthService, OtpDeliveryService and JwtStrategy            *)
(* (apps/backend/src/modules/auth) over its User row, one-time codes and   *)
(* device sessions, with the calls of UsersService that change the row.    *)
(*                                                                         *)
(* Every statement stands alone but for the transaction at the end of a    *)
(* password reset.  Time passes in ticks; an age stops at its bound.  A    *)
(* code is named after the call that issued it, and whoever types one in   *)
(* may type any that was issued, or none of them.                          *)
(***************************************************************************)
EXTENDS Integers, FiniteSets, Sequences

CONSTANTS
    AuthCalls,  \* calls of the API, each made once
    Asks,       \* what a call may ask for
    Devices, NoDevice,  \* resolved device identifiers; none is resolved
    NoCode,     \* the code of a call that has found none
    OTP_TTL, OTP_COOLDOWN, OTP_DEVICE_RATE_WINDOW,  \* in ticks
    OTP_DEVICE_RATE_LIMIT,
    MAX_ATTEMPTS    \* 3 in the code

OtpPurpose == {"LOGIN", "PASSWORD_RESET", "MFA"}
NotificationChannel == {"EMAIL", "SMS", "PUSH", "IN_APP"}
NotGiven == "omitted"
Kind == {"register", "login", "me", "request", "verify", "confirm"}
Ask == [kind : Kind, purpose : OtpPurpose, device : Devices \cup {NoDevice},
        channel : NotificationChannel \cup {NotGiven}]

ASSUME AsksAssumption ==
    /\ Asks \subseteq Ask
    /\ \A a \in Asks : a.kind = "confirm" => a.purpose = "PASSWORD_RESET"
ASSUME TimesAssumption ==
    {OTP_TTL, OTP_COOLDOWN, OTP_DEVICE_RATE_WINDOW, OTP_DEVICE_RATE_LIMIT, MAX_ATTEMPTS} \subseteq Nat
ASSUME AuthCallsAssumption ==
    IsFiniteSet(AuthCalls) /\ NoCode \notin AuthCalls /\ NoDevice \notin Devices

MaxAge == IF OTP_COOLDOWN > OTP_DEVICE_RATE_WINDOW THEN OTP_COOLDOWN ELSE OTP_DEVICE_RATE_WINDOW + 1
NoAsk == [kind |-> "none"]
NoToken == [version |-> -1, proof |-> -1]
NoSeen == [version |-> -1, phone |-> FALSE]
NoOtp == [purpose |-> "LOGIN", device |-> NoDevice, channel |-> NotGiven]

VARIABLES
    account, phone, profile,    \* the User row and its UserProfile
    tokenVersion,               \* raised with every new password
    otp, issued,    \* OtpCode rows and the order of their createdAt
    age, life,      \* ticks since a code was created, and until it expires
    attempts, consumed,
    session,        \* DeviceSession rows
    tokens,         \* JWTs in the hands of clients
    at, ask,        \* a call, and where it is
    seen,           \* the user it read at the start
    found, token,   \* the code it found and the JWT it has signed
    accepted, wrong, \* by code: the calls that consumed it, and those that did not match it
    callsOverlap    \* whether calls ever overlap: chosen at the start

user == <<account, phone, profile, tokenVersion>>
codes == <<otp, issued, age, life, attempts, consumed>>
authCall == <<at, ask, seen, found, token>>
past == <<accepted, wrong, callsOverlap>>
authVars == <<user, codes, session, tokens, authCall, past>>

NoSession == [status |-> "NONE", token |-> NoToken]

AuthInit ==
    /\ account \in {"absent", "active"}
    /\ profile = (account = "active")
    /\ phone \in BOOLEAN
    /\ tokenVersion = 0
    /\ otp = [c \in AuthCalls |-> NoOtp]
    /\ issued = <<>>
    /\ age = [c \in AuthCalls |-> 0] /\ life = [c \in AuthCalls |-> 0]
    /\ attempts = [c \in AuthCalls |-> 0] /\ consumed = [c \in AuthCalls |-> FALSE]
    /\ session = [d \in Devices |-> NoSession]
    /\ tokens = IF account = "active" THEN {[version |-> 0, proof |-> 0]} ELSE {}
    /\ at = [c \in AuthCalls |-> "idle"]
    /\ ask = [c \in AuthCalls |-> NoAsk]
    /\ seen = [c \in AuthCalls |-> NoSeen]
    /\ found = [c \in AuthCalls |-> NoCode]
    /\ token = [c \in AuthCalls |-> NoToken]
    /\ accepted = [c \in AuthCalls |-> {}]
    /\ wrong = [c \in AuthCalls |-> {}]
    /\ callsOverlap \in BOOLEAN

Ended == {"done", "refused", "failed"}
MayCall(c) == at[c] = "idle" /\ (callsOverlap \/ \A b \in AuthCalls : at[b] \in {"idle"} \cup Ended)
Goto(c, label) == at' = [at EXCEPT ![c] = label]
\* What a call knew is forgotten when it ends without an answer
EndCall(c, label) ==
    /\ Goto(c, label)
    /\ ask' = [ask EXCEPT ![c] = NoAsk]
    /\ seen' = [seen EXCEPT ![c] = NoSeen]
    /\ found' = [found EXCEPT ![c] = NoCode]
    /\ token' = [token EXCEPT ![c] = NoToken]
Issued == {issued[i] : i \in DOMAIN issued}

--------------------------------------------------------------------------------
(* The first step of each call reads the user                              *)

ReadUser(c, a, next) ==
    /\ MayCall(c)
    /\ ask' = [ask EXCEPT ![c] = a]
    /\ seen' = [seen EXCEPT ![c] = [version |-> tokenVersion, phone |-> phone]]
    /\ Goto(c, next)
    /\ UNCHANGED <<user, codes, session, tokens, found, past>>

\* No active user is found, or one where there should be none, or the password that
\* login compares is not that of the user it read
StartRefused(c) ==
    /\ MayCall(c)
    /\ EndCall(c, "refused")
    /\ UNCHANGED <<user, codes, session, tokens, past>>

StartRegister(c, a) ==
    /\ a.kind = "register"
    /\ account # "active"
    /\ ReadUser(c, a, "create")
    /\ UNCHANGED token

StartLogin(c, a) ==
    /\ a.kind = "login"
    /\ account = "active"
    /\ ReadUser(c, a, "session")
    /\ token' = [token EXCEPT ![c] = [version |-> tokenVersion, proof |-> tokenVersion]]

\* JwtStrategy.validate
Valid(t) == account = "active" /\ t.version = tokenVersion
StartMe(c, a, t) ==
    /\ a.kind = "me" /\ t \in tokens /\ Valid(t)
    /\ ReadUser(c, a, "me")
    /\ token' = [token EXCEPT ![c] = t]

StartCode(c, a) ==
    /\ a.kind \in {"request", "verify", "confirm"}
    /\ account = "active"
    /\ ReadUser(c, a, IF a.kind = "request" THEN "limit" ELSE "find")
    /\ UNCHANGED token

--------------------------------------------------------------------------------
(* register and me                                                         *)

\* user.create fails on the unique address, that of a deleted user included
CreateUser(c) ==
    /\ at[c] = "create"
    /\ \/ /\ account = "absent"
          /\ account' = "active"
          /\ token' = [token EXCEPT ![c] = [version |-> 0, proof |-> 0]]
          /\ Goto(c, "profile")
          /\ UNCHANGED <<ask, seen, found>>
       \/ /\ account # "absent"
          /\ EndCall(c, "failed")
          /\ UNCHANGED account
    /\ UNCHANGED <<phone, profile, tokenVersion, codes, session, tokens, past>>

EnsureUserProfile(c) ==
    /\ at[c] = "profile"
    /\ profile' = TRUE
    /\ Goto(c, "answer")
    /\ UNCHANGED <<account, phone, tokenVersion, codes, session, tokens, ask, seen, found, token, past>>

\* findById reads the user again and signs what it reads
Me(c) ==
    /\ at[c] = "me"
    /\ \/ /\ account = "active"
          /\ Goto(c, "answer")
          /\ token' = [token EXCEPT ![c] = [version |-> tokenVersion, proof |-> @.proof]]
          /\ UNCHANGED <<ask, seen, found>>
       \/ account # "active" /\ EndCall(c, "refused")
    /\ UNCHANGED <<user, codes, session, tokens, past>>

--------------------------------------------------------------------------------
(* requestOtp and requestPasswordReset                                     *)

Of(device) == {k \in Issued : otp[k].device = device}
Recent(device) == {k \in Of(device) : age[k] <= OTP_DEVICE_RATE_WINDOW}
\* enforceDeviceRateLimit counts the codes of the device in the window
DeviceLimitReached(c) ==
    ask[c].device # NoDevice /\ Cardinality(Recent(ask[c].device)) >= OTP_DEVICE_RATE_LIMIT

CheckDeviceLimit(c) ==
    /\ at[c] = "limit"
    /\ \/ DeviceLimitReached(c) /\ EndCall(c, "refused")
       \/ ~DeviceLimitReached(c) /\ Goto(c, "cooldown") /\ UNCHANGED <<ask, seen, found, token>>
    /\ UNCHANGED <<user, codes, session, tokens, past>>

\* enforceOtpCooldown looks at the last code, which is the youngest, of the purpose;
\* without a device, of any device
Cooling(c) ==
    \E k \in Issued : /\ otp[k].purpose = ask[c].purpose
                      /\ ask[c].device \in {otp[k].device, NoDevice}
                      /\ age[k] < OTP_COOLDOWN

CheckCooldown(c) ==
    /\ at[c] = "cooldown"
    /\ \/ Cooling(c) /\ EndCall(c, "refused")
       \/ ~Cooling(c) /\ Goto(c, "deliver") /\ UNCHANGED <<ask, seen, found, token>>
    /\ UNCHANGED <<user, codes, session, tokens, past>>

\* OtpDeliveryService.deliver: what cannot go by SMS goes by e-mail
Delivered(a, hasPhone) ==
    IF hasPhone /\ a.channel \in {"SMS", NotGiven} THEN "SMS" ELSE "EMAIL"

\* The code expires from here on, though it is created only after the delivery
Deliver(c) ==
    /\ at[c] = "deliver"
    /\ otp' = [otp EXCEPT ![c] = [purpose |-> ask[c].purpose, device |-> ask[c].device,
                                  channel |-> Delivered(ask[c], seen[c].phone)]]
    /\ life' = [life EXCEPT ![c] = OTP_TTL]
    /\ Goto(c, "insert")
    /\ UNCHANGED <<user, issued, age, attempts, consumed, session, tokens, ask, seen, found, token, past>>

InsertCode(c) ==
    /\ at[c] = "insert"
    /\ issued' = Append(issued, c)
    /\ Goto(c, IF ask[c].device = NoDevice THEN "done" ELSE "issued")
    /\ UNCHANGED <<user, otp, age, life, attempts, consumed, session, tokens, ask, seen, found, token, past>>

\* upsertDeviceSession never changes the status of a session there is
Upserted(s, t) ==
    [status |-> IF s.status = "NONE" THEN "ACTIVE" ELSE s.status,
     token  |-> IF t = NoToken THEN s.token ELSE t]

UpsertSession(c, t) ==
    session' = IF ask[c].device = NoDevice THEN session
               ELSE [session EXCEPT ![ask[c].device] = Upserted(@, t)]

RecordIssue(c) ==
    /\ at[c] = "issued"
    /\ UpsertSession(c, NoToken)
    /\ Goto(c, "done")
    /\ UNCHANGED <<user, codes, tokens, ask, seen, found, token, past>>

--------------------------------------------------------------------------------
(* consumeOtp, of verifyOtp and confirmPasswordReset                       *)

\* mutant: no phone is thought of
ResolveToEmail(a, hasPhone) == IF a.channel # NotGiven THEN a.channel ELSE "EMAIL"
ResolveChannel(a, hasPhone) ==
    IF a.channel # NotGiven THEN a.channel ELSE IF hasPhone THEN "SMS" ELSE "EMAIL"

\* mutants: a used code is found again; any code of the user is found
FindableAgain(c) ==
    {k \in Of(ask[c].device) :
        /\ otp[k].purpose = ask[c].purpose /\ life[k] > 0
        /\ otp[k].channel = ResolveChannel(ask[c], seen[c].phone)}
FindableAnywhere(c) ==
    {k \in Issued :
        /\ ~consumed[k] /\ life[k] > 0
        /\ otp[k].channel = ResolveChannel(ask[c], seen[c].phone)}
Findable(c) ==
    {k \in Of(ask[c].device) :
        /\ otp[k].purpose = ask[c].purpose
        /\ ~consumed[k] /\ life[k] > 0
        /\ otp[k].channel = ResolveChannel(ask[c], seen[c].phone)}

Newest(K) == {k \in K : \E i \in DOMAIN issued :
                 issued[i] = k /\ \A j \in DOMAIN issued : issued[j] \in K => j <= i}

\* mutant: one attempt too many
AttemptsLeftStill(k) == attempts[k] <= MAX_ATTEMPTS
AttemptsLeft(k) == attempts[k] < MAX_ATTEMPTS

FindCode(c) ==
    /\ at[c] = "find"
    /\ \/ \E k \in Newest(Findable(c)) :
             /\ AttemptsLeft(k)
             /\ found' = [found EXCEPT ![c] = k]
             /\ Goto(c, "compare")
             /\ UNCHANGED <<ask, seen, token>>
       \/ /\ \A k \in Newest(Findable(c)) : ~AttemptsLeft(k)
          /\ EndCall(c, "refused")
    /\ UNCHANGED <<user, codes, session, tokens, past>>

\* bcrypt.compare of what was typed in
Compare(c, typed) ==
    /\ at[c] = "compare"
    /\ \/ typed = found[c] /\ Goto(c, "consume") /\ UNCHANGED wrong
       \/ /\ typed # found[c]
          /\ Goto(c, "count")
          /\ wrong' = [wrong EXCEPT ![found[c]] = @ \cup {c}]
    /\ UNCHANGED <<user, codes, session, tokens, ask, seen, found, token, accepted, callsOverlap>>

\* mutant: the attempts are set, not incremented
CountFirstAttempt(c) ==
    /\ at[c] = "count"
    /\ attempts' = [attempts EXCEPT ![found[c]] = 1]
    /\ EndCall(c, "refused")
    /\ UNCHANGED <<user, otp, issued, age, life, consumed, session, tokens, past>>
CountAttempt(c) ==
    /\ at[c] = "count"
    /\ attempts' = [attempts EXCEPT ![found[c]] = @ + 1]
    /\ EndCall(c, "refused")
    /\ UNCHANGED <<user, otp, issued, age, life, consumed, session, tokens, past>>

Consume(c) ==
    /\ at[c] = "consume"
    /\ consumed' = [consumed EXCEPT ![found[c]] = TRUE]
    /\ accepted' = [accepted EXCEPT ![found[c]] = @ \cup {c}]
    /\ Goto(c, IF ask[c].kind = "confirm" THEN "reset" ELSE "verified")
    /\ UNCHANGED <<user, otp, issued, age, life, attempts, session, tokens, ask, seen, found, token, wrong, callsOverlap>>

\* verifyOtp records the device, then signs for the user it read at the start
RecordVerified(c) ==
    /\ at[c] = "verified"
    /\ UpsertSession(c, NoToken)
    /\ token' = [token EXCEPT ![c] = [version |-> seen[c].version, proof |-> seen[c].version]]
    /\ Goto(c, "session")
    /\ UNCHANGED <<user, codes, tokens, ask, seen, found, past>>

\* confirmPasswordReset: password, version and sessions in one transaction
ResetPassword(c) ==
    /\ at[c] = "reset"
    /\ tokenVersion' = tokenVersion + 1
    /\ session' = [d \in Devices |->
                      IF session[d].status = "NONE" /\ d # ask[c].device THEN session[d]
                      ELSE [status |-> "REVOKED", token |-> session[d].token]]
    /\ Goto(c, "done")
    /\ UNCHANGED <<account, phone, profile, codes, tokens, ask, seen, found, token, past>>

--------------------------------------------------------------------------------
(* buildAuthResponse of login and verifyOtp, and the answers               *)

RecordSession(c) ==
    /\ at[c] = "session"
    /\ UpsertSession(c, token[c])
    /\ Goto(c, "answer")
    /\ UNCHANGED <<user, codes, tokens, ask, seen, found, token, past>>

\* The token leaves with the answer; login's lastLoginAt before it is not read
AnswerToken(c) ==
    /\ at[c] = "answer"
    /\ tokens' = tokens \cup {token[c]}
    /\ Goto(c, "done")
    /\ UNCHANGED <<user, codes, session, ask, seen, found, token, past>>

\* Any statement fails, or the process dies: what was written stays
Fail(c) ==
    /\ at[c] \notin {"idle"} \cup Ended
    /\ EndCall(c, "failed")
    /\ UNCHANGED <<user, codes, session, tokens, past>>

--------------------------------------------------------------------------------
(* The user row changes, and time passes                                   *)

\* UsersService.update may set and clear the phone
ChangePhone ==
    /\ account = "active"
    /\ phone' = ~phone
    /\ UNCHANGED <<account, profile, tokenVersion, codes, session, tokens, authCall, past>>

SoftDelete ==
    /\ account = "active"
    /\ account' = "deleted"
    /\ UNCHANGED <<phone, profile, tokenVersion, codes, session, tokens, authCall, past>>

Older(a) == IF a < MaxAge THEN a + 1 ELSE a
Shorter(l) == IF l > 0 THEN l - 1 ELSE 0

\* Codes that are issued get older; those on their way already expire
Tick ==
    /\ age' = [c \in AuthCalls |-> IF c \in Issued THEN Older(age[c]) ELSE age[c]]
    /\ life' = [c \in AuthCalls |-> Shorter(life[c])]
    /\ <<age, life>>' # <<age, life>>
    /\ UNCHANGED <<user, otp, issued, attempts, consumed, session, tokens, authCall, past>>

StartCall(c, a) ==
    StartRegister(c, a) \/ StartLogin(c, a) \/ (\E t \in tokens : StartMe(c, a, t)) \/ StartCode(c, a)

Step(c) ==
    \/ CreateUser(c) \/ EnsureUserProfile(c) \/ Me(c)
    \/ CheckDeviceLimit(c) \/ CheckCooldown(c) \/ Deliver(c) \/ InsertCode(c) \/ RecordIssue(c)
    \/ FindCode(c) \/ CountAttempt(c) \/ Consume(c) \/ RecordVerified(c) \/ ResetPassword(c)
    \/ (\E typed \in Issued \cup {NoCode} : Compare(c, typed))
    \/ RecordSession(c) \/ AnswerToken(c)

AuthNext ==
    \/ \E c \in AuthCalls : StartRefused(c) \/ (\E a \in Asks : StartCall(c, a)) \/ Step(c) \/ Fail(c)
    \/ ChangePhone \/ SoftDelete \/ Tick

AuthSpec == AuthInit /\ [][AuthNext]_authVars
================================================================================
