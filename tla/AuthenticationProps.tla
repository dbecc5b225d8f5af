-------------------------- MODULE AuthenticationProps --------------------------
(***************************************************************************)
(* What Authentication promises of codes, tokens, sessions and accounts.   *)
(***************************************************************************)
EXTENDS Authentication

Version == Nat \cup {-1}
Token == [version : Version, proof : Version]
Otp == [purpose : OtpPurpose, device : Devices \cup {NoDevice},
        channel : NotificationChannel \cup {NotGiven}]
CodeStep == {"limit", "cooldown", "deliver", "insert", "issued",
             "find", "compare", "count", "consume", "verified", "reset"}
Label == {"idle", "create", "profile", "me", "session", "answer"} \cup CodeStep \cup Ended

UserTypes ==
    /\ account \in {"absent", "active", "deleted"}
    /\ phone \in BOOLEAN /\ profile \in BOOLEAN
    /\ tokenVersion \in Nat
CodeTypes ==
    /\ otp \in [AuthCalls -> Otp]
    /\ issued \in Seq(AuthCalls)
    /\ age \in [AuthCalls -> 0..MaxAge] /\ life \in [AuthCalls -> 0..OTP_TTL]
    /\ attempts \in [AuthCalls -> Nat] /\ consumed \in [AuthCalls -> BOOLEAN]
    /\ \A k \in Issued : otp[k].channel \in {"SMS", "EMAIL"}
CallTypes ==
    /\ at \in [AuthCalls -> Label]
    /\ ask \in [AuthCalls -> Ask \cup {NoAsk}]
    /\ seen \in [AuthCalls -> [version : Version, phone : BOOLEAN]]
    /\ found \in [AuthCalls -> AuthCalls \cup {NoCode}]
    /\ token \in [AuthCalls -> Token]
GivenTypes ==
    /\ session \in [Devices -> [status : {"NONE", "ACTIVE", "REVOKED"}, token : Token]]
    /\ tokens \subseteq [version : Nat, proof : Nat]
    /\ accepted \in [AuthCalls -> SUBSET AuthCalls] /\ wrong \in [AuthCalls -> SUBSET AuthCalls]
    /\ callsOverlap \in BOOLEAN

\* The types of everything; issued codes have a channel that delivers
AuthTypeOK == UserTypes /\ CodeTypes /\ CallTypes /\ GivenTypes

--------------------------------------------------------------------------------
(* Under any overlap                                                       *)

\* Every password reset spent a matched code that was issued for a reset on the
\* same device, though the code is looked up, compared and consumed in steps.
Resets == {c \in AuthCalls : at[c] = "done" /\ ask[c].kind = "confirm"}
ResetsSpendCodes ==
    /\ tokenVersion = Cardinality(Resets)
    /\ \A c \in Resets : \E k \in Issued :
          /\ c \in accepted[k] /\ consumed[k]
          /\ otp[k].purpose = "PASSWORD_RESET" /\ otp[k].device = ask[c].device

\* Wrong guesses are all counted in the end, however they overlap, unless the
\* statement that counts one fails.
GuessesAreCounted ==
    \A k \in AuthCalls :
        attempts[k] = Cardinality({c \in wrong[k] : at[c] = "refused"})

\* At most one of any number of registrations of an address is answered, and who
\* is answered has a profile.
OneRegistration ==
    LET registered == {c \in AuthCalls : at[c] \in {"answer", "done"} /\ ask[c].kind = "register"}
    IN  /\ \A b, c \in registered : b = c
        /\ registered # {} => profile

\* A code asked for without a channel is found without one, as long as the user
\* has the phone, or the lack of one, that it was delivered by.
InferredChannelsAgree ==
    \A c \in AuthCalls : \A k \in Issued :
        at[c] = "find" /\ at[k] = "done"
            /\ ask[c].channel = NotGiven /\ ask[k].channel = NotGiven /\ seen[c].phone = seen[k].phone
            /\ ask[c].purpose = ask[k].purpose /\ ask[c].device = ask[k].device
            /\ ~consumed[k] /\ life[k] > 0
        => k \in Findable(c)

--------------------------------------------------------------------------------
(* One call at a time                                                      *)

\* A code is accepted once, and only so many wrong guesses are compared with it.
SerialCodes ==
    ~callsOverlap => \A k \in AuthCalls :
        /\ Cardinality(accepted[k]) <= 1
        /\ Cardinality({c \in wrong[k] : at[c] # "failed"}) <= MAX_ATTEMPTS

\* Codes of one purpose and device are a cooldown apart, and no window of a device
\* holds more than the limit.
SerialPace ==
    ~callsOverlap =>
        /\ \A j, k \in Issued :
              j # k /\ otp[j].purpose = otp[k].purpose /\ otp[j].device = otp[k].device
                  => age[j] >= OTP_COOLDOWN \/ age[k] >= OTP_COOLDOWN
        /\ \A d \in Devices :
              Cardinality(Recent(d)) <= OTP_DEVICE_RATE_LIMIT

\* A token that is accepted goes back, through any number of renewals by me, to a
\* password or a code shown since the last reset; and a session that is active
\* holds the hash of a token that is of the current version.
SerialTokens ==
    ~callsOverlap =>
        /\ \A t \in tokens : t.version = tokenVersion => t.proof = tokenVersion
        /\ \A d \in Devices :
              session[d].status = "ACTIVE" => session[d].token.version \in {tokenVersion, -1}

\* What holds of codes and tokens when calls take turns, all of it
SerialAuth == SerialCodes /\ SerialPace /\ SerialTokens

--------------------------------------------------------------------------------
(* The abstract specification                                              *)

\* Codes are issued, missed, used and redeemed as OneTimeCodes says, each in the one
\* statement that does it: nobody resets twice with one acceptance, no acceptance is
\* of a code that was never issued, and when calls take turns nothing happens to a code
\* that was used or missed too often.
Promise == INSTANCE OneTimeCodes
    WITH Codes <- AuthCalls, Callers <- AuthCalls, MaxMisses <- MAX_ATTEMPTS,
         issued <- Issued, misses <- attempts, uses <- accepted, redeemed <- Resets,
         version <- tokenVersion, turns <- ~callsOverlap
ImplementsOneTimeCodes == Promise!Spec

--------------------------------------------------------------------------------
(* The invariant these rest on                                             *)

Running(c) == at[c] \notin {"idle"} \cup Ended
Holding == {"compare", "count", "consume", "verified", "reset"}

\* What a call knows at each step
Known(c) ==
    /\ Running(c) \/ at[c] = "done" => ask[c] \in Asks
    /\ Running(c) => seen[c].version \in 0..tokenVersion
    /\ at[c] \in Holding \/ (at[c] = "done" /\ ask[c].kind = "confirm") =>
          /\ found[c] \in Issued
          /\ otp[found[c]].purpose = ask[c].purpose /\ otp[found[c]].device = ask[c].device
    /\ at[c] \in {"verified", "reset"} \/ (at[c] = "done" /\ ask[c].kind = "confirm") =>
          c \in accepted[found[c]]
    /\ at[c] \in {"me", "session", "answer", "profile"} =>
          token[c].version \in 0..tokenVersion /\ token[c].proof \in 0..tokenVersion
    /\ at[c] \in CodeStep => account # "absent"
    /\ at[c] \in CodeStep \ {"limit", "cooldown", "deliver", "insert", "issued"} =>
          ask[c].kind \in {"verify", "confirm"}
    /\ at[c] = "reset" => ask[c].kind = "confirm"
    /\ at[c] = "verified" => ask[c].kind = "verify"
    /\ at[c] \in {"limit", "cooldown", "deliver", "insert", "issued"} => ask[c].kind = "request"
    /\ at[c] \in {"create", "profile"} => ask[c].kind = "register"
    /\ at[c] = "me" => ask[c].kind = "me"
    /\ at[c] = "session" => ask[c].kind \in {"login", "verify"}
    /\ at[c] = "answer" => ask[c].kind \notin {"request", "confirm"}
CallInv == \A c \in AuthCalls : Known(c)

\* A code row is what its call asked for
Asked(c) ==
    /\ c \in Issued => at[c] \in {"issued", "failed"} \/ (at[c] = "done" /\ ask[c].kind = "request")
    /\ at[c] \in {"insert", "issued"} \/ (at[c] = "done" /\ ask[c].kind = "request") =>
          /\ otp[c].purpose = ask[c].purpose /\ otp[c].device = ask[c].device
          /\ otp[c].channel = Delivered(ask[c], seen[c].phone)

\* A code is matched or missed only once issued, and a miss is counted or fails
Guessed(k) ==
    /\ k \notin Issued => accepted[k] = {} /\ wrong[k] = {} /\ attempts[k] = 0
    /\ accepted[k] # {} => consumed[k]
    /\ \A c \in AuthCalls :
          /\ c \in wrong[k] => at[c] \in {"count", "refused", "failed"}
          /\ at[c] = "count" => (c \in wrong[k] <=> found[c] = k)
CodeInv == \A c \in AuthCalls : Asked(c) /\ Guessed(c)

RegisterInv ==
    LET created == {c \in AuthCalls : at[c] \in {"profile", "answer", "done"} /\ ask[c].kind = "register"}
    IN  /\ \A b, c \in created : b = c
        /\ created # {} => account # "absent"
        /\ account = "absent" => tokenVersion = 0

\* One call at a time finds what it has read still so
StillSo(c) ==
    /\ Running(c) => seen[c].version = tokenVersion
    /\ at[c] \in {"me", "session", "answer", "profile"} =>
          token[c].version = tokenVersion /\ token[c].proof = tokenVersion
    /\ at[c] \in {"compare", "count", "consume"} => ~consumed[found[c]] /\ AttemptsLeft(found[c])
    /\ at[c] \in {"cooldown", "deliver", "insert"} => ~DeviceLimitReached(c)
    /\ at[c] \in {"deliver", "insert"} => ~Cooling(c)
SerialInv ==
    ~callsOverlap =>
        /\ \A b, c \in AuthCalls : Running(b) /\ Running(c) => b = c
        /\ \A c \in AuthCalls : StillSo(c)

\* No token is ahead of the password it was signed with, and a session that was never
\* opened holds none
TokenInv ==
    /\ \A t \in tokens : t.version \in 0..tokenVersion /\ t.proof \in 0..tokenVersion
    /\ \A d \in Devices : session[d].status = "NONE" => session[d].token = NoToken

\* Who has used a code has compared it, and is done with it or goes on with this one
AcceptedInv ==
    \A k, c \in AuthCalls :
        c \in accepted[k] =>
            /\ at[c] \in {"verified", "reset", "session", "answer", "done", "failed"}
            /\ at[c] \in {"verified", "reset"} => found[c] = k

AuthInv ==
    /\ AuthTypeOK /\ CallInv /\ CodeInv /\ RegisterInv /\ SerialInv /\ TokenInv
    /\ ResetsSpendCodes /\ GuessesAreCounted /\ OneRegistration /\ InferredChannelsAgree
    /\ SerialCodes /\ SerialPace /\ SerialTokens
================================================================================
