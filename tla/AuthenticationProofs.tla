-------------------------- MODULE AuthenticationProofs --------------------------
(***************************************************************************)
(* The safety of Authentication for every set of calls, devices and asks,  *)
(* and every limit.                                                        *)
(*                                                                         *)
(* A call's own step changes what is known of that call, and a step of     *)
(* another finds a world that only moved on: versions, issued codes and    *)
(* accepted guesses grow.  StepOf and MovesOn say so; the invariants       *)
(* about single calls then split on the call's own step.                   *)
(***************************************************************************)
EXTENDS AuthenticationProps, FiniteSetTheorems, TLAPS

\* A step leaves a call where it is
Same(c) ==
    /\ at'[c] = at[c] /\ ask'[c] = ask[c] /\ seen'[c] = seen[c]
    /\ found'[c] = found[c] /\ token'[c] = token[c]

\* A step of the call
Own(c) ==
    StartRefused(c) \/ (\E a \in Asks : StartCall(c, a)) \/ Step(c) \/ Fail(c)

--------------------------------------------------------------------------------
(* Which steps change what                                                 *)

\* Each call is left alone or takes the step itself.
LEMMA StepOf ==
    ASSUME CallTypes, [AuthNext]_authVars, NEW b \in AuthCalls
    PROVE  Same(b) \/ Own(b)
<1>1. ASSUME NEW c \in AuthCalls, Own(c), b # c PROVE Same(b)
  <2> USE DEF CallTypes, Same
  <2>1. CASE StartRefused(c)
    BY <1>1, <2>1 DEF StartRefused, EndCall, Goto
  <2>2. ASSUME NEW a \in Asks, StartCall(c, a) PROVE Same(b)
    BY <1>1, <2>2 DEF StartCall, StartRegister, StartLogin, StartMe, StartCode, ReadUser, Goto
  <2>3. CASE CreateUser(c) \/ EnsureUserProfile(c) \/ Me(c)
    BY <1>1, <2>3 DEF CreateUser, EnsureUserProfile, Me, EndCall, Goto
  <2>4. CASE CheckDeviceLimit(c) \/ CheckCooldown(c) \/ Deliver(c) \/ InsertCode(c) \/ RecordIssue(c)
    BY <1>1, <2>4 DEF CheckDeviceLimit, CheckCooldown, Deliver, InsertCode, RecordIssue, EndCall, Goto
  <2>5. CASE FindCode(c) \/ CountAttempt(c) \/ Consume(c) \/ RecordVerified(c) \/ ResetPassword(c)
    BY <1>1, <2>5 DEF FindCode, CountAttempt, Consume, RecordVerified, ResetPassword, EndCall, Goto
  <2>6. ASSUME NEW typed \in Issued \cup {NoCode}, Compare(c, typed) PROVE Same(b)
    BY <1>1, <2>6 DEF Compare, Goto
  <2>7. CASE RecordSession(c) \/ AnswerToken(c) \/ Fail(c)
    BY <1>1, <2>7 DEF RecordSession, AnswerToken, Fail, EndCall, Goto
  <2>8. QED
    BY <1>1, <2>1, <2>2, <2>3, <2>4, <2>5, <2>6, <2>7 DEF Own, Step
<1>2. CASE ChangePhone \/ SoftDelete \/ Tick \/ UNCHANGED authVars
  BY <1>2 DEF ChangePhone, SoftDelete, Tick, authVars, authCall, Same
<1>3. QED
  BY <1>1, <1>2 DEF AuthNext, Own

\* The steps that change the user, the codes, the sessions, the tokens and the past.
LEMMA Frames ==
    ASSUME [AuthNext]_authVars
    PROVE  /\ \/ UNCHANGED user
              \/ \E c \in AuthCalls : CreateUser(c) \/ EnsureUserProfile(c) \/ ResetPassword(c)
              \/ ChangePhone \/ SoftDelete
           /\ \/ UNCHANGED codes
              \/ \E c \in AuthCalls : Deliver(c) \/ InsertCode(c) \/ CountAttempt(c) \/ Consume(c)
              \/ Tick
           /\ \/ UNCHANGED session
              \/ \E c \in AuthCalls : RecordIssue(c) \/ RecordVerified(c) \/ ResetPassword(c) \/ RecordSession(c)
           /\ UNCHANGED tokens \/ \E c \in AuthCalls : AnswerToken(c)
           /\ \/ UNCHANGED <<accepted, wrong>>
              \/ \E c \in AuthCalls : Consume(c) \/ \E typed \in Issued \cup {NoCode} : Compare(c, typed)
           /\ UNCHANGED callsOverlap
<1> USE DEF user, codes, past
<1>1. ASSUME NEW c \in AuthCalls, StartRefused(c) \/ Fail(c)
      PROVE  UNCHANGED <<user, codes, session, tokens, past>>
  BY <1>1 DEF StartRefused, Fail
<1>2. ASSUME NEW c \in AuthCalls, NEW a \in Asks, StartCall(c, a)
      PROVE  UNCHANGED <<user, codes, session, tokens, past>>
  BY <1>2 DEF StartCall, StartRegister, StartLogin, StartMe, StartCode, ReadUser
<1>3. ASSUME NEW c \in AuthCalls, CreateUser(c) \/ EnsureUserProfile(c)
      PROVE  UNCHANGED <<codes, session, tokens, past>>
  BY <1>3 DEF CreateUser, EnsureUserProfile
<1>4. ASSUME NEW c \in AuthCalls, Me(c) \/ CheckDeviceLimit(c) \/ CheckCooldown(c) \/ FindCode(c)
      PROVE  UNCHANGED <<user, codes, session, tokens, past>>
  BY <1>4 DEF Me, CheckDeviceLimit, CheckCooldown, FindCode
<1>5. ASSUME NEW c \in AuthCalls, Deliver(c) \/ InsertCode(c) \/ CountAttempt(c)
      PROVE  UNCHANGED <<user, session, tokens, past>>
  BY <1>5 DEF Deliver, InsertCode, CountAttempt
<1>6. ASSUME NEW c \in AuthCalls, Consume(c)
      PROVE  UNCHANGED <<user, session, tokens, callsOverlap>>
  BY <1>6 DEF Consume
<1>7. ASSUME NEW c \in AuthCalls, NEW typed \in Issued \cup {NoCode}, Compare(c, typed)
      PROVE  UNCHANGED <<user, codes, session, tokens, callsOverlap>>
  BY <1>7 DEF Compare
<1>8. ASSUME NEW c \in AuthCalls, RecordIssue(c) \/ RecordVerified(c) \/ RecordSession(c)
      PROVE  UNCHANGED <<user, codes, tokens, past>>
  BY <1>8 DEF RecordIssue, RecordVerified, RecordSession
<1>9. ASSUME NEW c \in AuthCalls, ResetPassword(c)
      PROVE  UNCHANGED <<codes, tokens, past>>
  BY <1>9 DEF ResetPassword
<1>10. ASSUME NEW c \in AuthCalls, AnswerToken(c)
      PROVE  UNCHANGED <<user, codes, session, past>>
  BY <1>10 DEF AnswerToken
<1>11. ASSUME ChangePhone \/ SoftDelete
      PROVE  UNCHANGED <<codes, session, tokens, past>>
  BY <1>11 DEF ChangePhone, SoftDelete
<1>12. ASSUME Tick
      PROVE  UNCHANGED <<user, session, tokens, past>>
  BY <1>12 DEF Tick
<1>13. ASSUME UNCHANGED authVars
      PROVE  UNCHANGED <<user, codes, session, tokens, past>>
  BY <1>13 DEF authVars
<1> HIDE DEF user, codes
<1>14. QED
  BY <1>1, <1>2, <1>3, <1>4, <1>5, <1>6, <1>7, <1>8, <1>9, <1>10, <1>11, <1>12, <1>13
     DEF AuthNext, Step

--------------------------------------------------------------------------------
(* Types                                                                   *)

\* What stands for nothing has the type of something.
LEMMA NothingTypes ==
    /\ NoToken \in Token /\ NoSeen \in [version : Version, phone : BOOLEAN] /\ NoOtp \in Otp
    /\ MaxAge \in Nat
    /\ Version \subseteq Int /\ Nat \subseteq Version
BY TimesAssumption
   DEF NoToken, Token, Version, NoSeen, NoOtp, Otp, OtpPurpose, NotificationChannel, MaxAge

\* The user keeps the types.
LEMMA UserTypesKept == UserTypes /\ [AuthNext]_authVars => UserTypes'
<1> SUFFICES ASSUME UserTypes, [AuthNext]_authVars PROVE UserTypes'
  OBVIOUS
<1> USE DEF UserTypes
<1>1. CASE UNCHANGED user
  BY <1>1 DEF user
<1>2. ASSUME NEW c \in AuthCalls, CreateUser(c) \/ EnsureUserProfile(c) \/ ResetPassword(c)
      PROVE  UserTypes'
  <2>1. CASE CreateUser(c)
    BY <2>1 DEF CreateUser
  <2>2. CASE EnsureUserProfile(c)
    BY <2>2 DEF EnsureUserProfile
  <2>3. CASE ResetPassword(c)
    BY <2>3 DEF ResetPassword
  <2>4. QED
    BY <1>2, <2>1, <2>2, <2>3
<1>3. CASE ChangePhone \/ SoftDelete
  BY <1>3 DEF ChangePhone, SoftDelete
<1>4. QED
  BY <1>1, <1>2, <1>3, Frames

\* A code that is inserted joins the issued.
LEMMA IssuedGrows ==
    ASSUME issued \in Seq(AuthCalls), NEW c \in AuthCalls, issued' = Append(issued, c)
    PROVE  Issued' = Issued \cup {c} /\ issued' \in Seq(AuthCalls)
BY DEF Issued

\* The codes keep the types.
LEMMA CodeTypesKept == AuthInv /\ [AuthNext]_authVars => CodeTypes'
<1> SUFFICES ASSUME AuthInv, [AuthNext]_authVars PROVE CodeTypes'
  OBVIOUS
<1>0. CodeTypes /\ CallTypes /\ CallInv /\ CodeInv
  BY DEF AuthInv, AuthTypeOK
<1> USE DEF CodeTypes
<1>1. CASE UNCHANGED codes
  BY <1>0, <1>1 DEF codes, Issued
<1>2. ASSUME NEW c \in AuthCalls, Deliver(c) PROVE CodeTypes'
  <2>1. ask[c] \in Ask \cup {NoAsk} /\ at[c] = "deliver"
    BY <1>0, <1>2 DEF CallTypes, Deliver
  <2>2. c \notin Issued
    BY <1>0, <2>1 DEF CodeInv, Asked
  <2>3. UNCHANGED <<issued, age, attempts, consumed>> /\ Issued' = Issued
    BY <1>2 DEF Deliver, Issued
  <2>4. [purpose |-> ask[c].purpose, device |-> ask[c].device,
         channel |-> Delivered(ask[c], seen[c].phone)] \in Otp
    <3>1. ask[c] \in Ask
      BY <1>0, <2>1, AsksAssumption DEF CallInv, Known, Running, Ended
    <3>2. QED
      BY <3>1 DEF Ask, Otp, Delivered, NotificationChannel
  <2>5. otp' \in [AuthCalls -> Otp] /\ life' \in [AuthCalls -> 0..OTP_TTL]
    BY <1>0, <1>2, <2>4, TimesAssumption DEF Deliver
  <2>6. \A k \in Issued : otp'[k] = otp[k]
    BY <1>0, <1>2, <2>2 DEF Deliver, Issued
  <2>7. QED
    BY <1>0, <2>3, <2>5, <2>6
<1>3. ASSUME NEW c \in AuthCalls, InsertCode(c) PROVE CodeTypes'
  <2>1. Issued' = Issued \cup {c} /\ issued' \in Seq(AuthCalls)
    BY <1>0, <1>3, IssuedGrows DEF InsertCode
  <2>2. otp[c].channel \in {"SMS", "EMAIL"}
    BY <1>0, <1>3 DEF InsertCode, CodeInv, Asked, Delivered
  <2>3. QED
    BY <1>0, <1>3, <2>1, <2>2 DEF InsertCode
<1>4. ASSUME NEW c \in AuthCalls, CountAttempt(c) PROVE CodeTypes'
  <2>1. UNCHANGED <<otp, issued, age, life, consumed>> /\ Issued' = Issued
    BY <1>4 DEF CountAttempt, Issued
  <2>2. found[c] \in AuthCalls
    BY <1>0, <1>4 DEF CountAttempt, CallInv, Known, Holding, Issued
  <2>3. attempts' \in [AuthCalls -> Nat]
    BY <1>0, <1>4, <2>2 DEF CountAttempt
  <2>4. QED
    BY <1>0, <2>1, <2>3
<1>5. ASSUME NEW c \in AuthCalls, Consume(c) PROVE CodeTypes'
  BY <1>0, <1>5 DEF Consume, Issued
<1>6. CASE Tick
  <2>1. UNCHANGED <<otp, issued, attempts, consumed>> /\ Issued' = Issued
    BY <1>6 DEF Tick, Issued
  <2>2. \A a \in 0..MaxAge : Older(a) \in 0..MaxAge
    BY NothingTypes DEF Older
  <2>3. \A l \in 0..OTP_TTL : Shorter(l) \in 0..OTP_TTL
    BY TimesAssumption DEF Shorter
  <2>4. age' \in [AuthCalls -> 0..MaxAge] /\ life' \in [AuthCalls -> 0..OTP_TTL]
    BY <1>0, <1>6, <2>2, <2>3 DEF Tick
  <2>5. QED
    BY <1>0, <2>1, <2>4
<1>7. QED
  BY <1>1, <1>2, <1>3, <1>4, <1>5, <1>6, Frames

\* The calls keep the types.
LEMMA CallTypesKept == AuthInv /\ [AuthNext]_authVars => CallTypes'
<1> SUFFICES ASSUME AuthInv, [AuthNext]_authVars PROVE CallTypes'
  OBVIOUS
<1>0. UserTypes /\ CallTypes /\ GivenTypes /\ CodeTypes
  BY DEF AuthInv, AuthTypeOK
<1> USE DEF CallTypes, Label, CodeStep, Ended
<1>1. ASSUME NEW c \in AuthCalls, NEW label \in Label, EndCall(c, label) PROVE CallTypes'
  BY <1>0, <1>1, NothingTypes DEF EndCall, Goto
<1>2. ASSUME NEW c \in AuthCalls, StartRefused(c) \/ Fail(c) \/ CountAttempt(c) PROVE CallTypes'
  BY <1>1, <1>2 DEF StartRefused, Fail, CountAttempt
<1>3. ASSUME NEW c \in AuthCalls, NEW a \in Asks, StartCall(c, a) PROVE CallTypes'
  <2>1. [version |-> tokenVersion, phone |-> phone] \in [version : Version, phone : BOOLEAN]
    BY <1>0 DEF UserTypes, Version
  <2>2. [version |-> tokenVersion, proof |-> tokenVersion] \in Token
    BY <1>0 DEF UserTypes, Version, Token
  <2>3. a \in Ask
    BY AsksAssumption
  <2>4. tokens \subseteq Token
    BY <1>0, NothingTypes DEF GivenTypes, Token
  <2>5. CASE StartRegister(c, a)
    BY <1>0, <2>1, <2>3, <2>5 DEF StartRegister, ReadUser, Goto
  <2>6. CASE StartLogin(c, a)
    BY <1>0, <2>1, <2>2, <2>3, <2>6 DEF StartLogin, ReadUser, Goto
  <2>7. ASSUME NEW t \in tokens, StartMe(c, a, t) PROVE CallTypes'
    BY <1>0, <2>1, <2>3, <2>4, <2>7 DEF StartMe, ReadUser, Goto
  <2>8. CASE StartCode(c, a)
    BY <1>0, <2>1, <2>3, <2>8 DEF StartCode, ReadUser, Goto
  <2>9. QED
    BY <1>3, <2>5, <2>6, <2>7, <2>8 DEF StartCall
<1>4. ASSUME NEW c \in AuthCalls, CreateUser(c) \/ Me(c) PROVE CallTypes'
  <2>1. token[c] \in Token
    BY <1>0
  <2>2. /\ [version |-> 0, proof |-> 0] \in Token
        /\ [version |-> tokenVersion, proof |-> token[c].proof] \in Token
    BY <1>0, <2>1 DEF UserTypes, Token, Version
  <2>3. CASE EndCall(c, "failed") \/ EndCall(c, "refused")
    BY <1>1, <2>3
  <2>4. CASE ~ (EndCall(c, "failed") \/ EndCall(c, "refused"))
    BY <1>0, <1>4, <2>2, <2>4 DEF CreateUser, Me, Goto
  <2>5. QED
    BY <2>3, <2>4
<1>5. ASSUME NEW c \in AuthCalls, CheckDeviceLimit(c) \/ CheckCooldown(c) PROVE CallTypes'
  <2>1. CASE EndCall(c, "refused")
    BY <1>1, <2>1
  <2>2. CASE ~ EndCall(c, "refused")
    BY <1>0, <1>5, <2>2 DEF CheckDeviceLimit, CheckCooldown, Goto
  <2>3. QED
    BY <2>1, <2>2
<1>6. ASSUME NEW c \in AuthCalls, FindCode(c) PROVE CallTypes'
  <2>1. CASE EndCall(c, "refused")
    BY <1>1, <2>1
  <2>2. Findable(c) \subseteq AuthCalls
    BY <1>0 DEF CodeTypes, Findable, Of, Issued
  <2>3. CASE ~ EndCall(c, "refused")
    BY <1>0, <1>6, <2>2, <2>3 DEF FindCode, Goto, Newest
  <2>4. QED
    BY <2>1, <2>3
<1>7. ASSUME NEW c \in AuthCalls, EnsureUserProfile(c) \/ Deliver(c) \/ InsertCode(c) \/ RecordIssue(c)
      PROVE  CallTypes'
  BY <1>0, <1>7 DEF EnsureUserProfile, Deliver, InsertCode, RecordIssue, Goto
<1>8. ASSUME NEW c \in AuthCalls, NEW typed \in Issued \cup {NoCode}, Compare(c, typed)
      PROVE  CallTypes'
  BY <1>0, <1>8 DEF Compare, Goto
<1>9. ASSUME NEW c \in AuthCalls, RecordVerified(c) PROVE CallTypes'
  <2>1. [version |-> seen[c].version, proof |-> seen[c].version] \in Token
    BY <1>0 DEF Token
  <2>2. QED
    BY <1>0, <1>9, <2>1 DEF RecordVerified, Goto
<1>10. ASSUME NEW c \in AuthCalls, Consume(c) \/ ResetPassword(c) \/ RecordSession(c) \/ AnswerToken(c)
       PROVE  CallTypes'
  BY <1>0, <1>10 DEF Consume, ResetPassword, RecordSession, AnswerToken, Goto
<1>11. CASE ChangePhone \/ SoftDelete \/ Tick \/ UNCHANGED authVars
  BY <1>0, <1>11 DEF ChangePhone, SoftDelete, Tick, authVars, authCall
<1>12. QED
  BY <1>2, <1>3, <1>4, <1>5, <1>6, <1>7, <1>8, <1>9, <1>10, <1>11 DEF AuthNext, Step

\* A session is written with a token or without.
LEMMA UpsertedType ==
    ASSUME NEW s \in [status : {"NONE", "ACTIVE", "REVOKED"}, token : Token], NEW t \in Token
    PROVE  /\ Upserted(s, t) \in [status : {"NONE", "ACTIVE", "REVOKED"}, token : Token]
           /\ Upserted(s, t).status # "NONE"
BY DEF Upserted

\* What clients and the past were given keeps the types.
LEMMA GivenTypesKept == AuthInv /\ [AuthNext]_authVars => GivenTypes'
<1> SUFFICES ASSUME AuthInv, [AuthNext]_authVars PROVE GivenTypes'
  OBVIOUS
<1>0. CallTypes /\ GivenTypes /\ CodeTypes /\ CallInv /\ CodeInv /\ UserTypes
  BY DEF AuthInv, AuthTypeOK
<1> USE DEF GivenTypes
<1>1. session' \in [Devices -> [status : {"NONE", "ACTIVE", "REVOKED"}, token : Token]]
  <2>1. ASSUME NEW c \in AuthCalls, NEW t \in Token, UpsertSession(c, t)
        PROVE  session' \in [Devices -> [status : {"NONE", "ACTIVE", "REVOKED"}, token : Token]]
    <3>1. CASE ask[c].device \in Devices
      <4>1. session[ask[c].device] \in [status : {"NONE", "ACTIVE", "REVOKED"}, token : Token]
        BY <1>0, <3>1
      <4>2. Upserted(session[ask[c].device], t) \in [status : {"NONE", "ACTIVE", "REVOKED"}, token : Token]
        BY <4>1, UpsertedType
      <4>3. QED
        BY <1>0, <2>1, <4>2 DEF UpsertSession
    <3>2. CASE ask[c].device \notin Devices
      BY <1>0, <2>1, <3>2 DEF UpsertSession
    <3>3. QED
      BY <3>1, <3>2
  <2>2. ASSUME NEW c \in AuthCalls, RecordIssue(c) \/ RecordVerified(c) \/ RecordSession(c)
        PROVE  session' \in [Devices -> [status : {"NONE", "ACTIVE", "REVOKED"}, token : Token]]
    <3>1. NoToken \in Token /\ token[c] \in Token
      BY <1>0, NothingTypes DEF CallTypes
    <3>2. UpsertSession(c, NoToken) \/ UpsertSession(c, token[c])
      BY <2>2 DEF RecordIssue, RecordVerified, RecordSession
    <3>3. QED
      BY <2>1, <3>1, <3>2
  <2>3. ASSUME NEW c \in AuthCalls, ResetPassword(c)
        PROVE  session' \in [Devices -> [status : {"NONE", "ACTIVE", "REVOKED"}, token : Token]]
    BY <1>0, <2>3 DEF ResetPassword
  <2>4. QED
    BY <1>0, <2>2, <2>3, Frames
<1>2. tokens' \subseteq [version : Nat, proof : Nat]
  <2>1. ASSUME NEW c \in AuthCalls, AnswerToken(c)
        PROVE  tokens' \subseteq [version : Nat, proof : Nat]
    <3>1. token[c] \in Token /\ token[c].version \in 0..tokenVersion /\ token[c].proof \in 0..tokenVersion
      BY <1>0, <2>1 DEF CallTypes, CallInv, Known, AnswerToken
    <3>2. token[c] \in [version : Nat, proof : Nat]
      BY <1>0, <3>1 DEF Token, UserTypes
    <3>3. QED
      BY <1>0, <2>1, <3>2 DEF AnswerToken
  <2>2. QED
    BY <1>0, <2>1, Frames
<1>3. accepted' \in [AuthCalls -> SUBSET AuthCalls] /\ wrong' \in [AuthCalls -> SUBSET AuthCalls]
  <2>1. ASSUME NEW c \in AuthCalls, Consume(c)
        PROVE  accepted' \in [AuthCalls -> SUBSET AuthCalls] /\ wrong' \in [AuthCalls -> SUBSET AuthCalls]
    BY <1>0, <2>1 DEF Consume
  <2>2. ASSUME NEW c \in AuthCalls, NEW typed \in Issued \cup {NoCode}, Compare(c, typed)
        PROVE  accepted' \in [AuthCalls -> SUBSET AuthCalls] /\ wrong' \in [AuthCalls -> SUBSET AuthCalls]
    BY <1>0, <2>2 DEF Compare
  <2>3. QED
    BY <1>0, <2>1, <2>2, Frames
<1>4. callsOverlap' \in BOOLEAN
  BY <1>0, Frames
<1>5. QED
  BY <1>1, <1>2, <1>3, <1>4

--------------------------------------------------------------------------------
(* What a call knows                                                       *)

\* The world moves on: no version, issued code, accepted guess or account goes back.
LEMMA MovesOn ==
    ASSUME AuthInv, [AuthNext]_authVars
    PROVE  /\ Issued \subseteq Issued'
           /\ \A k \in Issued : otp'[k] = otp[k]
           /\ \A k \in AuthCalls : accepted[k] \subseteq accepted'[k] /\ (consumed[k] => consumed'[k])
           /\ tokenVersion <= tokenVersion'
           /\ account # "absent" => account' # "absent"
           /\ profile => profile'
<1>0. UserTypes /\ CodeTypes /\ CallTypes /\ GivenTypes /\ CodeInv
  BY DEF AuthInv, AuthTypeOK
<1>1. Issued \subseteq Issued' /\ \A k \in Issued : otp'[k] = otp[k]
  <2>1. ASSUME NEW c \in AuthCalls, Deliver(c)
        PROVE  Issued' = Issued /\ \A k \in Issued : otp'[k] = otp[k]
    <3>1. c \notin Issued
      BY <1>0, <2>1 DEF CodeInv, Asked, Deliver
    <3>2. QED
      BY <1>0, <2>1, <3>1 DEF Deliver, CodeTypes, Issued
  <2>2. ASSUME NEW c \in AuthCalls, InsertCode(c)
        PROVE  Issued \subseteq Issued' /\ \A k \in Issued : otp'[k] = otp[k]
    BY <1>0, <2>2, IssuedGrows DEF InsertCode, CodeTypes
  <2>3. CASE UNCHANGED <<otp, issued>>
    BY <2>3 DEF Issued
  <2>4. (\E c \in AuthCalls : Deliver(c) \/ InsertCode(c)) \/ UNCHANGED <<otp, issued>>
    <3>1. Tick => UNCHANGED <<otp, issued>>
      BY DEF Tick
    <3>2. \A c \in AuthCalls : CountAttempt(c) \/ Consume(c) => UNCHANGED <<otp, issued>>
      BY DEF CountAttempt, Consume
    <3>3. UNCHANGED codes => UNCHANGED <<otp, issued>>
      BY DEF codes
    <3>4. QED
      BY <3>1, <3>2, <3>3, Frames
  <2>5. QED
    BY <2>1, <2>2, <2>3, <2>4
<1>2. \A k \in AuthCalls : accepted[k] \subseteq accepted'[k]
  <2>1. ASSUME NEW c \in AuthCalls, Consume(c)
        PROVE  \A k \in AuthCalls : accepted[k] \subseteq accepted'[k]
    BY <1>0, <2>1 DEF Consume, GivenTypes
  <2>2. ASSUME NEW c \in AuthCalls, NEW typed \in Issued \cup {NoCode}, Compare(c, typed)
        PROVE  accepted' = accepted
    BY <2>2 DEF Compare
  <2>3. QED
    BY <2>1, <2>2, Frames
<1>3. \A k \in AuthCalls : consumed[k] => consumed'[k]
  <2>1. ASSUME NEW c \in AuthCalls, Consume(c)
        PROVE  \A k \in AuthCalls : consumed[k] => consumed'[k]
    BY <1>0, <2>1 DEF Consume, CodeTypes
  <2>2. (\E c \in AuthCalls : Consume(c)) \/ UNCHANGED consumed
    <3>1. Tick => UNCHANGED consumed
      BY DEF Tick
    <3>2. \A c \in AuthCalls : Deliver(c) \/ InsertCode(c) \/ CountAttempt(c) => UNCHANGED consumed
      BY DEF Deliver, InsertCode, CountAttempt
    <3>3. UNCHANGED codes => UNCHANGED consumed
      BY DEF codes
    <3>4. QED
      BY <3>1, <3>2, <3>3, Frames
  <2>3. QED
    BY <2>1, <2>2
<1>4. /\ tokenVersion <= tokenVersion'
      /\ account # "absent" => account' # "absent"
      /\ profile => profile'
  <2> USE DEF UserTypes
  <2>1. ASSUME NEW c \in AuthCalls, CreateUser(c)
        PROVE  tokenVersion' = tokenVersion /\ profile' = profile /\ (account # "absent" => account' # "absent")
    BY <2>1 DEF CreateUser
  <2>2. ASSUME NEW c \in AuthCalls, EnsureUserProfile(c)
        PROVE  tokenVersion' = tokenVersion /\ account' = account /\ profile'
    BY <2>2 DEF EnsureUserProfile
  <2>3. ASSUME NEW c \in AuthCalls, ResetPassword(c)
        PROVE  tokenVersion' = tokenVersion + 1 /\ account' = account /\ profile' = profile
    BY <2>3 DEF ResetPassword
  <2>4. ASSUME ChangePhone \/ SoftDelete
        PROVE  tokenVersion' = tokenVersion /\ profile' = profile /\ account' # "absent"
    BY <2>4 DEF ChangePhone, SoftDelete
  <2>5. ASSUME UNCHANGED user
        PROVE  tokenVersion' = tokenVersion /\ account' = account /\ profile' = profile
    BY <2>5 DEF user
  <2>6. QED
    BY <1>0, <2>1, <2>2, <2>3, <2>4, <2>5, Frames
<1>5. QED
  BY <1>1, <1>2, <1>3, <1>4

\* A call that ended without an answer knows nothing.
LEMMA NothingKnown ==
    ASSUME CallTypes, NEW c \in AuthCalls, EndCall(c, "refused") \/ EndCall(c, "failed")
    PROVE  Known(c)' /\ at'[c] \in {"refused", "failed"}
BY DEF CallTypes, EndCall, Goto, Known, Running, Ended, Holding, CodeStep

\* What calls know stays true.
LEMMA CallInvKept == AuthInv /\ [AuthNext]_authVars => CallInv'
<1> SUFFICES ASSUME AuthInv, [AuthNext]_authVars, NEW c \in AuthCalls PROVE Known(c)'
  BY DEF CallInv
<1>0. /\ UserTypes /\ CodeTypes /\ CallTypes /\ GivenTypes /\ TokenInv /\ CodeInv
      /\ Known(c)
  BY DEF AuthInv, AuthTypeOK, CallInv
<1> USE DEF Ended, Holding, CodeStep, Goto
<1>1. CASE Same(c)
  <2>1. Issued \subseteq AuthCalls
    BY <1>0 DEF CodeTypes, Issued
  <2>2. /\ found[c] \in Issued => found[c] \in Issued' /\ otp'[found[c]] = otp[found[c]]
        /\ found[c] \in Issued => accepted[found[c]] \subseteq accepted'[found[c]]
    BY <2>1, MovesOn
  <2>3. \A n \in 0..tokenVersion : n \in 0..tokenVersion'
    <3>1. UserTypes'
      BY <1>0, UserTypesKept
    <3>2. QED
      BY <1>0, <3>1, MovesOn DEF UserTypes
  <2>4. at'[c] = at[c] /\ ask'[c] = ask[c] /\ seen'[c] = seen[c] /\ found'[c] = found[c] /\ token'[c] = token[c]
    BY <1>1 DEF Same
  <2>5. account # "absent" => account' # "absent"
    BY MovesOn
  <2>6. QED
    BY <1>0, <2>2, <2>3, <2>4, <2>5 DEF Known, Running
<1>2. CASE StartRefused(c)
  BY <1>0, <1>2, NothingKnown DEF StartRefused
<1>3. ASSUME NEW a \in Asks, StartCall(c, a) PROVE Known(c)'
  BY <1>0, <1>3 DEF StartCall, StartRegister, StartLogin, StartMe, StartCode, ReadUser, Known, Running,
                    user, CallTypes, UserTypes, TokenInv
<1>4. CASE CreateUser(c)
  BY <1>0, <1>4, NothingKnown DEF CreateUser, CallTypes, UserTypes, Known, Running
<1>5. CASE EnsureUserProfile(c)
  BY <1>0, <1>5 DEF EnsureUserProfile, CallTypes, Known, Running
<1>6. CASE Me(c)
  BY <1>0, <1>6, NothingKnown DEF Me, user, CallTypes, UserTypes, Known, Running
<1>7. CASE CheckDeviceLimit(c) \/ CheckCooldown(c)
  BY <1>0, <1>7, NothingKnown DEF CheckDeviceLimit, CheckCooldown, user, CallTypes, Known, Running
<1>8. CASE Deliver(c) \/ InsertCode(c) \/ RecordIssue(c)
  BY <1>0, <1>8 DEF Deliver, InsertCode, RecordIssue, user, CallTypes, Known, Running
<1>9. CASE FindCode(c)
  BY <1>0, <1>9, NothingKnown DEF FindCode, Newest, Findable, Of, user, codes, Issued, CallTypes, Known, Running
<1>10. ASSUME NEW typed \in Issued \cup {NoCode}, Compare(c, typed) PROVE Known(c)'
  BY <1>0, <1>10 DEF Compare, user, codes, Issued, CallTypes, Known, Running
<1>11. CASE CountAttempt(c)
  BY <1>0, <1>11, NothingKnown DEF CountAttempt
<1>12. CASE Consume(c)
  <2>1. found[c] \in AuthCalls
    BY <1>0, <1>12 DEF Consume, Known, CodeTypes, Issued
  <2>2. /\ UNCHANGED <<user, otp, ask, seen, found, token>> /\ Issued' = Issued
        /\ at' = [at EXCEPT ![c] = IF ask[c].kind = "confirm" THEN "reset" ELSE "verified"]
        /\ accepted'[found[c]] = accepted[found[c]] \cup {c}
    BY <1>0, <1>12, <2>1 DEF Consume, Issued, GivenTypes
  <2>3. QED
    BY <1>0, <1>12, <2>2 DEF Consume, user, CallTypes, Known, Running
<1>13. CASE RecordVerified(c)
  BY <1>0, <1>13 DEF RecordVerified, user, CallTypes, Known, Running
<1>14. CASE ResetPassword(c)
  BY <1>0, <1>14 DEF ResetPassword, codes, past, Issued, CallTypes, Known, Running
<1>15. CASE RecordSession(c) \/ AnswerToken(c)
  BY <1>0, <1>15 DEF RecordSession, AnswerToken, user, CallTypes, Known, Running
<1>16. CASE Fail(c)
  BY <1>0, <1>16, NothingKnown DEF Fail
<1>17. QED
  BY <1>0, <1>1, <1>2, <1>3, <1>4, <1>5, <1>6, <1>7, <1>8, <1>9, <1>10, <1>11, <1>12, <1>13, <1>14,
     <1>15, <1>16, StepOf DEF Own, Step

--------------------------------------------------------------------------------
(* Codes and guesses                                                       *)

\* A call that ended takes no step; one about to count a miss, or to see to the profile
\* of a new user, does or fails.
LEMMA OwnFrom ==
    ASSUME NEW c \in AuthCalls, Own(c)
    PROVE  /\ at[c] \notin Ended
           /\ at[c] = "count" => CountAttempt(c) \/ Fail(c)
           /\ at[c] = "profile" => EnsureUserProfile(c) \/ Fail(c)
BY DEF Own, StartRefused, StartCall, StartRegister, StartLogin, StartMe, StartCode, ReadUser, MayCall,
       Step, CreateUser, EnsureUserProfile, Me, CheckDeviceLimit, CheckCooldown, Deliver, InsertCode,
       RecordIssue, FindCode, CountAttempt, Consume, RecordVerified, ResetPassword, Compare,
       RecordSession, AnswerToken, Fail, Ended

\* A call's code is written and issued by the call alone.
LEMMA CodeOf ==
    ASSUME CallTypes, CodeTypes, [AuthNext]_authVars, NEW c \in AuthCalls
    PROVE  \/ Deliver(c) \/ InsertCode(c)
           \/ otp'[c] = otp[c] /\ (c \in Issued' <=> c \in Issued)
<1>1. ASSUME NEW b \in AuthCalls, b # c, Deliver(b)
      PROVE  otp'[c] = otp[c] /\ Issued' = Issued
  BY <1>1 DEF Deliver, CodeTypes, Issued
<1>2. ASSUME NEW b \in AuthCalls, b # c, InsertCode(b)
      PROVE  otp'[c] = otp[c] /\ (c \in Issued' <=> c \in Issued)
  BY <1>2, IssuedGrows DEF InsertCode, CodeTypes
<1>3. ASSUME UNCHANGED <<otp, issued>>
      PROVE  otp'[c] = otp[c] /\ Issued' = Issued
  BY <1>3 DEF Issued
<1>4. /\ Tick \/ UNCHANGED codes => UNCHANGED <<otp, issued>>
      /\ \A b \in AuthCalls : CountAttempt(b) \/ Consume(b) => UNCHANGED <<otp, issued>>
  BY DEF Tick, codes, CountAttempt, Consume
<1>5. QED
  BY <1>1, <1>2, <1>3, <1>4, Frames

\* A code row stays what its call asked for.
LEMMA AskedKept == AuthInv /\ [AuthNext]_authVars => \A c \in AuthCalls : Asked(c)'
<1> SUFFICES ASSUME AuthInv, [AuthNext]_authVars, NEW c \in AuthCalls PROVE Asked(c)'
  OBVIOUS
<1>0. CallTypes /\ CodeTypes /\ Known(c) /\ Asked(c)
  BY DEF AuthInv, AuthTypeOK, CallInv, CodeInv
<1> USE DEF Goto
<1>1. CASE Deliver(c)
  <2>1. c \notin Issued /\ Issued' = Issued
    BY <1>0, <1>1 DEF Deliver, Asked, Issued
  <2>2. /\ at'[c] = "insert" /\ ask'[c] = ask[c] /\ seen'[c] = seen[c]
        /\ otp'[c] = [purpose |-> ask[c].purpose, device |-> ask[c].device,
                      channel |-> Delivered(ask[c], seen[c].phone)]
    BY <1>0, <1>1 DEF Deliver, CallTypes, CodeTypes
  <2>3. QED
    BY <2>1, <2>2 DEF Asked, Delivered
<1>2. CASE InsertCode(c)
  <2>1. /\ at'[c] \in {"issued", "done"} /\ ask'[c] = ask[c] /\ seen'[c] = seen[c]
        /\ ask[c].kind = "request" /\ otp'[c] = otp[c] /\ at[c] = "insert"
    BY <1>0, <1>2 DEF InsertCode, CallTypes, Known, CodeStep
  <2>2. QED
    BY <1>0, <2>1 DEF Asked, Delivered
<1>3. ASSUME otp'[c] = otp[c] /\ (c \in Issued' <=> c \in Issued), Same(c) PROVE Asked(c)'
  BY <1>0, <1>3 DEF Same, Asked, Delivered
<1>4. ASSUME otp'[c] = otp[c] /\ (c \in Issued' <=> c \in Issued), Own(c) PROVE Asked(c)'
  <2> USE <1>0, <1>4
  <2>1. CASE StartRefused(c) \/ Fail(c) \/ CountAttempt(c)
    BY <2>1 DEF StartRefused, Fail, CountAttempt, EndCall, MayCall, CallTypes, Asked
  <2>2. ASSUME NEW a \in Asks, StartCall(c, a) PROVE Asked(c)'
    BY <2>2 DEF StartCall, StartRegister, StartLogin, StartMe, StartCode, ReadUser, MayCall, CallTypes, Asked
  <2>3. CASE CreateUser(c) \/ EnsureUserProfile(c) \/ Me(c) \/ CheckDeviceLimit(c) \/ CheckCooldown(c)
             \/ FindCode(c)
    BY <2>3, NothingKnown
       DEF CreateUser, EnsureUserProfile, Me, CheckDeviceLimit, CheckCooldown, FindCode, CallTypes, Asked
  <2>4. CASE RecordIssue(c)
    BY <2>4 DEF RecordIssue, CallTypes, Asked, Delivered, Known
  <2>5. CASE Consume(c) \/ RecordVerified(c) \/ ResetPassword(c) \/ RecordSession(c) \/ AnswerToken(c)
    BY <2>5 DEF Consume, RecordVerified, ResetPassword, RecordSession, AnswerToken, CallTypes, Asked, Known
  <2>6. ASSUME NEW typed \in Issued \cup {NoCode}, Compare(c, typed) PROVE Asked(c)'
    BY <2>6 DEF Compare, CallTypes, Asked
  <2>7. QED
    BY <1>1, <1>2, <2>1, <2>2, <2>3, <2>4, <2>5, <2>6 DEF Own, Step
<1>5. QED
  BY <1>0, <1>1, <1>2, <1>3, <1>4, StepOf, CodeOf

\* The wrong guesses at a code grow by the calls that miss it.
LEMMA WrongGrows ==
    ASSUME CallTypes, CodeTypes, GivenTypes, CallInv, [AuthNext]_authVars, NEW k \in AuthCalls
    PROVE  \/ wrong'[k] = wrong[k] /\ \A c \in AuthCalls : at'[c] = "count" /\ at[c] # "count" => found'[c] # k
           \/ \E c \in AuthCalls :
                 /\ at[c] = "compare" /\ at'[c] = "count" /\ found[c] = k /\ found'[c] = k /\ k \in Issued
                 /\ wrong'[k] = wrong[k] \cup {c}
                 /\ \A b \in AuthCalls \ {c} : Same(b)
<1>1. ASSUME NEW c \in AuthCalls, NEW typed \in Issued \cup {NoCode}, Compare(c, typed)
      PROVE  /\ \A b \in AuthCalls \ {c} : Same(b)
             /\ found' = found /\ found[c] \in Issued /\ at[c] = "compare"
             /\ \/ at'[c] = "count" /\ wrong' = [wrong EXCEPT ![found[c]] = @ \cup {c}]
                \/ at'[c] = "consume" /\ wrong' = wrong
  BY <1>1 DEF Compare, Goto, Same, CallTypes, CallInv, Known, Holding
<1>2. ASSUME NEW c \in AuthCalls, at'[c] = "count", at[c] # "count"
      PROVE  \E typed \in Issued \cup {NoCode} : Compare(c, typed)
  <2>1. Own(c)
    BY <1>2, StepOf DEF Same
  <2>2. QED
    BY <1>2, <2>1 DEF CallTypes, Own, StartRefused, StartCall, StartRegister, StartLogin, StartMe, StartCode, ReadUser,
       Step, CreateUser, EnsureUserProfile, Me, CheckDeviceLimit, CheckCooldown, Deliver, InsertCode,
       RecordIssue, FindCode, CountAttempt, Consume, RecordVerified, ResetPassword,
       RecordSession, AnswerToken, Fail, EndCall, Goto
<1>3. CASE \E c \in AuthCalls : at[c] # "count" /\ at'[c] = "count"
  <2>1. PICK c \in AuthCalls : at[c] # "count" /\ at'[c] = "count"
    BY <1>3
  <2>2. /\ \A b \in AuthCalls \ {c} : Same(b)
        /\ found' = found /\ found[c] \in Issued /\ at[c] = "compare"
        /\ wrong' = [wrong EXCEPT ![found[c]] = @ \cup {c}]
    BY <1>1, <1>2, <2>1
  <2>3. CASE found[c] = k
    BY <2>1, <2>2, <2>3 DEF GivenTypes
  <2>4. CASE found[c] # k
    BY <2>1, <2>2, <2>4 DEF GivenTypes, Same
  <2>5. QED
    BY <2>3, <2>4
<1>4. CASE ~ \E c \in AuthCalls : at[c] # "count" /\ at'[c] = "count"
  <2>1. \A c \in AuthCalls : Consume(c) => wrong' = wrong
    BY DEF Consume
  <2>2. \A c \in AuthCalls, typed \in Issued \cup {NoCode} : Compare(c, typed) => wrong' = wrong
    BY <1>1, <1>4
  <2>3. QED
    BY <1>4, <2>1, <2>2, Frames
<1>5. QED
  BY <1>3, <1>4

\* Guesses stay matched or missed, and each miss is counted or fails.
LEMMA GuessedKept == AuthInv /\ [AuthNext]_authVars => \A k \in AuthCalls : Guessed(k)'
<1> SUFFICES ASSUME AuthInv, [AuthNext]_authVars, NEW k \in AuthCalls PROVE Guessed(k)'
  OBVIOUS
<1>0. CallTypes /\ CodeTypes /\ GivenTypes /\ CallInv /\ Guessed(k)
  BY DEF AuthInv, AuthTypeOK, CodeInv
<1>1. Issued \subseteq Issued'
  BY MovesOn
<1>2. k \notin Issued' => accepted'[k] = {} /\ wrong'[k] = {} /\ attempts'[k] = 0
  <2>1. SUFFICES ASSUME k \notin Issued PROVE accepted'[k] = {} /\ wrong'[k] = {} /\ attempts'[k] = 0
    BY <1>1
  <2>2. wrong'[k] = {}
    BY <1>0, <2>1, WrongGrows DEF Guessed
  <2>3. \A c \in AuthCalls : Consume(c) \/ CountAttempt(c) => found[c] \in Issued
    BY <1>0 DEF Consume, CountAttempt, CallInv, Known, Holding
  <2>4. accepted'[k] = accepted[k]
    <3>1. ASSUME NEW c \in AuthCalls, Consume(c) PROVE accepted'[k] = accepted[k]
      <4>1. found[c] # k
        BY <2>1, <2>3, <3>1
      <4>2. QED
        BY <1>0, <3>1, <4>1 DEF Consume, GivenTypes
    <3>2. \A c \in AuthCalls, typed \in Issued \cup {NoCode} : Compare(c, typed) => accepted' = accepted
      BY DEF Compare
    <3>3. QED
      BY <3>1, <3>2, Frames
  <2>5. attempts'[k] = attempts[k]
    <3>1. ASSUME NEW c \in AuthCalls, CountAttempt(c) PROVE attempts'[k] = attempts[k]
      <4>1. found[c] # k
        BY <2>1, <2>3, <3>1
      <4>2. QED
        BY <1>0, <3>1, <4>1 DEF CountAttempt, CodeTypes
    <3>2. \A c \in AuthCalls : Deliver(c) \/ InsertCode(c) \/ Consume(c) => attempts' = attempts
      BY DEF Deliver, InsertCode, Consume
    <3>3. Tick \/ UNCHANGED codes => attempts' = attempts
      BY DEF Tick, codes
    <3>4. QED
      BY <3>1, <3>2, <3>3, Frames
  <2>6. QED
    BY <1>0, <2>1, <2>2, <2>4, <2>5 DEF Guessed
<1>3. accepted'[k] # {} => consumed'[k]
  <2>1. ASSUME NEW c \in AuthCalls, Consume(c) PROVE accepted'[k] = accepted[k] \/ consumed'[k]
    BY <1>0, <2>1 DEF Consume, GivenTypes, CodeTypes
  <2>2. \A c \in AuthCalls, typed \in Issued \cup {NoCode} : Compare(c, typed) => accepted' = accepted
    BY DEF Compare
  <2>3. accepted'[k] = accepted[k] \/ consumed'[k]
    BY <2>1, <2>2, Frames
  <2>4. QED
    BY <1>0, <2>3, MovesOn DEF Guessed
<1>4. ASSUME NEW c \in AuthCalls
      PROVE  /\ c \in wrong'[k] => at'[c] \in {"count", "refused", "failed"}
             /\ at'[c] = "count" => (c \in wrong'[k] <=> found'[c] = k)
  <2>1. ASSUME at[c] \in {"count", "refused", "failed"}
        PROVE  at'[c] \in {"count", "refused", "failed"} /\ (at'[c] = "count" => at[c] = "count" /\ found'[c] = found[c])
    <3>1. CASE Same(c)
      BY <2>1, <3>1 DEF Same
    <3>2. CASE CountAttempt(c) \/ Fail(c)
      BY <1>0, <3>2, NothingKnown DEF CountAttempt, Fail
    <3>3. QED
      BY <1>0, <2>1, <3>1, <3>2, StepOf, OwnFrom DEF Ended
  <2>2. CASE /\ wrong'[k] = wrong[k]
             /\ at'[c] = "count" /\ at[c] # "count" => found'[c] # k
    BY <1>0, <2>1, <2>2 DEF Guessed
  <2>3. ASSUME NEW b \in AuthCalls,
               at[b] = "compare", at'[b] = "count", found'[b] = k, wrong'[k] = wrong[k] \cup {b},
               \A d \in AuthCalls \ {b} : Same(d)
        PROVE  /\ c \in wrong'[k] => at'[c] \in {"count", "refused", "failed"}
               /\ at'[c] = "count" => (c \in wrong'[k] <=> found'[c] = k)
    BY <1>0, <2>3 DEF Same, Guessed
  <2>4. QED
    BY <1>0, <2>2, <2>3, WrongGrows
<1>5. QED
  BY <1>2, <1>3, <1>4 DEF Guessed

\* The codes keep their invariant.
LEMMA CodeInvKept == AuthInv /\ [AuthNext]_authVars => CodeInv'
BY AskedKept, GuessedKept DEF CodeInv

--------------------------------------------------------------------------------
(* Accounts and tokens                                                     *)

\* A registration that has created the account
Created(c) == at[c] \in {"profile", "answer", "done"} /\ ask[c].kind = "register"

\* Only CreateUser makes it one.
LEMMA CreatedBy ==
    ASSUME CallTypes, CallInv, [AuthNext]_authVars, NEW c \in AuthCalls, Created(c)'
    PROVE  Created(c) \/ CreateUser(c)
<1> USE DEF Created
<1>1. CASE Same(c)
  BY <1>1 DEF Same
<1>2. CASE StartRefused(c) \/ Fail(c) \/ CountAttempt(c)
  BY <1>2, NothingKnown DEF StartRefused, Fail, CountAttempt
<1>3. ASSUME NEW a \in Asks, StartCall(c, a) PROVE FALSE
  BY <1>3 DEF StartCall, StartRegister, StartLogin, StartMe, StartCode, ReadUser, Goto, CallTypes
<1>4. CASE EnsureUserProfile(c) \/ Me(c) \/ RecordSession(c) \/ AnswerToken(c)
  BY <1>4 DEF EnsureUserProfile, Me, RecordSession, AnswerToken, EndCall, Goto, CallTypes,
                          CallInv, Known
<1>5. CASE CheckDeviceLimit(c) \/ CheckCooldown(c) \/ Deliver(c) \/ InsertCode(c) \/ RecordIssue(c)
  BY <1>5 DEF CheckDeviceLimit, CheckCooldown, Deliver, InsertCode, RecordIssue, EndCall, Goto,
                          CallTypes, CallInv, Known
<1>6. CASE FindCode(c) \/ Consume(c) \/ RecordVerified(c) \/ ResetPassword(c)
  BY <1>6 DEF FindCode, Consume, RecordVerified, ResetPassword, EndCall, Goto,
                          CallTypes, CallInv, Known
<1>7. ASSUME NEW typed \in Issued \cup {NoCode}, Compare(c, typed) PROVE FALSE
  BY <1>7 DEF Compare, Goto, CallTypes
<1>8. QED
  BY <1>1, <1>2, <1>3, <1>4, <1>5, <1>6, <1>7, StepOf DEF Own, Step

\* One registration at a time has created the account.
LEMMA RegisterInvKept == AuthInv /\ [AuthNext]_authVars => RegisterInv'
<1> SUFFICES ASSUME AuthInv, [AuthNext]_authVars PROVE RegisterInv'
  OBVIOUS
<1>0. UserTypes /\ CallTypes /\ CallInv /\ CodeInv /\ RegisterInv
  BY DEF AuthInv, AuthTypeOK
<1> USE DEF Created
<1>1. ASSUME NEW c \in AuthCalls, Created(c)' PROVE Created(c) \/ CreateUser(c)
  BY <1>0, <1>1, CreatedBy
<1>2. \A b, c \in AuthCalls : Created(b)' /\ Created(c)' => b = c
  <2>1. SUFFICES ASSUME NEW b \in AuthCalls, NEW c \in AuthCalls, b # c, Created(b)', Created(c)' PROVE FALSE
    OBVIOUS
  <2>2. ASSUME NEW d \in AuthCalls, CreateUser(d), Created(d)'
        PROVE  /\ account = "absent"
               /\ \A e \in AuthCalls \ {d} : ~ CreateUser(e)
    BY <1>0, <2>2 DEF CreateUser, EndCall, Goto, CallTypes
  <2>3. ~ (Created(b) /\ Created(c))
    BY <1>0, <2>1 DEF RegisterInv
  <2>4. account = "absent" => ~ Created(b) /\ ~ Created(c)
    BY <1>0 DEF RegisterInv
  <2>5. QED
    BY <1>1, <2>1, <2>2, <2>3, <2>4
<1>3. ASSUME NEW c \in AuthCalls, Created(c)' PROVE account' # "absent"
  <2>1. CASE Created(c)
    BY <1>0, <2>1, MovesOn DEF RegisterInv
  <2>2. CASE CreateUser(c)
    BY <1>0, <1>3, <2>2 DEF CreateUser, EndCall, Goto, CallTypes
  <2>3. QED
    BY <1>1, <1>3, <2>1, <2>2
<1>4. account' = "absent" => tokenVersion' = 0
  <2>1. ASSUME account' = "absent" PROVE tokenVersion' = tokenVersion
    <3>1. account = "absent"
      BY <2>1, MovesOn
    <3>2. \A c \in AuthCalls : ~ ResetPassword(c)
      BY <1>0, <3>1 DEF ResetPassword, CallInv, Known, CodeStep
    <3>3. /\ \A c \in AuthCalls : CreateUser(c) \/ EnsureUserProfile(c) => tokenVersion' = tokenVersion
          /\ ChangePhone \/ SoftDelete \/ UNCHANGED user => tokenVersion' = tokenVersion
      BY DEF CreateUser, EnsureUserProfile, ChangePhone, SoftDelete, user
    <3>4. QED
      BY <3>2, <3>3, Frames
  <2>2. QED
    BY <1>0, <2>1, MovesOn DEF RegisterInv
<1>5. QED
  BY <1>2, <1>3, <1>4 DEF RegisterInv

\* A session that is written is opened, and one that is not keeps its token.
LEMMA SessionSteps ==
    ASSUME CallTypes, GivenTypes, [AuthNext]_authVars, NEW d \in Devices
    PROVE  \/ session'[d] = session[d]
           \/ \E c \in AuthCalls :
                 \/ /\ RecordIssue(c) \/ RecordVerified(c)
                    /\ session'[d] = Upserted(session[d], NoToken)
                 \/ RecordSession(c) /\ session'[d] = Upserted(session[d], token[c])
                 \/ ResetPassword(c) /\ session'[d].status = "REVOKED"
<1>1. ASSUME NEW c \in AuthCalls, NEW t \in Token, UpsertSession(c, t)
      PROVE  session'[d] = session[d] \/ session'[d] = Upserted(session[d], t)
  BY <1>1 DEF UpsertSession, GivenTypes
<1>2. ASSUME NEW c \in AuthCalls, RecordIssue(c) \/ RecordVerified(c)
      PROVE  session'[d] = session[d] \/ session'[d] = Upserted(session[d], NoToken)
  BY <1>1, <1>2, NothingTypes DEF RecordIssue, RecordVerified
<1>3. ASSUME NEW c \in AuthCalls, RecordSession(c)
      PROVE  session'[d] = session[d] \/ session'[d] = Upserted(session[d], token[c])
  BY <1>1, <1>3 DEF RecordSession, CallTypes
<1>4. ASSUME NEW c \in AuthCalls, ResetPassword(c)
      PROVE  session'[d] = session[d] \/ session'[d].status = "REVOKED"
  BY <1>4 DEF ResetPassword
<1>5. QED
  BY <1>2, <1>3, <1>4, Frames

\* No token gets ahead of its password, and a session that was never opened holds none.
LEMMA TokenInvKept == AuthInv /\ [AuthNext]_authVars => TokenInv'
<1> SUFFICES ASSUME AuthInv, [AuthNext]_authVars PROVE TokenInv'
  OBVIOUS
<1>0. UserTypes /\ CallTypes /\ GivenTypes /\ CallInv /\ TokenInv /\ UserTypes'
  BY UserTypesKept DEF AuthInv, AuthTypeOK
<1>1. ASSUME NEW n \in 0..tokenVersion PROVE n \in 0..tokenVersion'
  BY <1>0, MovesOn DEF UserTypes
<1>2. ASSUME NEW t \in tokens' PROVE t.version \in 0..tokenVersion' /\ t.proof \in 0..tokenVersion'
  <2>1. ASSUME NEW c \in AuthCalls, AnswerToken(c)
        PROVE  t \in tokens \/ (t = token[c] /\ t.version \in 0..tokenVersion /\ t.proof \in 0..tokenVersion)
    BY <1>0, <2>1 DEF AnswerToken, CallInv, Known
  <2>2. t.version \in 0..tokenVersion /\ t.proof \in 0..tokenVersion
    BY <1>0, <2>1, Frames DEF TokenInv
  <2>3. QED
    BY <1>1, <2>2
<1>3. ASSUME NEW d \in Devices, session'[d].status = "NONE" PROVE session'[d].token = NoToken
  <2>1. session[d] \in [status : {"NONE", "ACTIVE", "REVOKED"}, token : Token]
    BY <1>0 DEF GivenTypes
  <2>2. \A c \in AuthCalls : Upserted(session[d], NoToken).status # "NONE" /\ Upserted(session[d], token[c]).status # "NONE"
    BY <1>0, <2>1, UpsertedType, NothingTypes DEF CallTypes
  <2>3. session'[d] = session[d]
    BY <1>0, <1>3, <2>2, SessionSteps
  <2>4. QED
    BY <1>0, <1>3, <2>3 DEF TokenInv
<1>4. QED
  BY <1>2, <1>3 DEF TokenInv

--------------------------------------------------------------------------------
(* Resets, guesses, registrations and channels                             *)

\* Sets of calls are finite, and one call more is one more.
LEMMA CallSets ==
    ASSUME NEW S \in SUBSET AuthCalls
    PROVE  /\ IsFiniteSet(S) /\ Cardinality(S) \in Nat
           /\ \A T \in SUBSET S : Cardinality(T) <= Cardinality(S)
           /\ \A c : c \notin S => Cardinality(S \cup {c}) = Cardinality(S) + 1
<1>1. IsFiniteSet(S)
  BY AuthCallsAssumption, FS_Subset
<1>2. QED
  BY <1>1, FS_CardinalityType, FS_Subset, FS_AddElement

\* A call's own step leaves the other calls where they are.
LEMMA OneMoves ==
    ASSUME CallTypes, [AuthNext]_authVars, NEW c \in AuthCalls, Own(c), ~ Same(c)
    PROVE  \A b \in AuthCalls \ {c} : Same(b)
<1> SUFFICES ASSUME NEW b \in AuthCalls \ {c} PROVE Same(b)
  OBVIOUS
<1> USE DEF CallTypes, Same
<1>1. CASE StartRefused(c) \/ Fail(c) \/ CountAttempt(c)
  BY <1>1 DEF StartRefused, Fail, CountAttempt, EndCall, Goto
<1>2. ASSUME NEW a \in Asks, StartCall(c, a) PROVE Same(b)
  BY <1>2 DEF StartCall, StartRegister, StartLogin, StartMe, StartCode, ReadUser, Goto
<1>3. CASE CreateUser(c) \/ EnsureUserProfile(c) \/ Me(c)
  BY <1>3 DEF CreateUser, EnsureUserProfile, Me, EndCall, Goto
<1>4. CASE CheckDeviceLimit(c) \/ CheckCooldown(c) \/ Deliver(c) \/ InsertCode(c) \/ RecordIssue(c)
  BY <1>4 DEF CheckDeviceLimit, CheckCooldown, Deliver, InsertCode, RecordIssue, EndCall, Goto
<1>5. CASE FindCode(c) \/ Consume(c) \/ RecordVerified(c) \/ ResetPassword(c)
  BY <1>5 DEF FindCode, Consume, RecordVerified, ResetPassword, EndCall, Goto
<1>6. ASSUME NEW typed \in Issued \cup {NoCode}, Compare(c, typed) PROVE Same(b)
  BY <1>6 DEF Compare, Goto
<1>7. CASE RecordSession(c) \/ AnswerToken(c)
  BY <1>7 DEF RecordSession, AnswerToken, Goto
<1>8. QED
  BY <1>1, <1>2, <1>3, <1>4, <1>5, <1>6, <1>7 DEF Own, Step

\* The resets are the calls that have taken ResetPassword, and it alone raises the version.
LEMMA ResetsGrow ==
    ASSUME AuthInv, [AuthNext]_authVars
    PROVE  \/ \E c \in AuthCalls : /\ ResetPassword(c) /\ c \notin Resets
                                  /\ Resets' = Resets \cup {c} /\ tokenVersion' = tokenVersion + 1
           \/ /\ \A c \in AuthCalls : ~ ResetPassword(c)
              /\ Resets' = Resets /\ tokenVersion' = tokenVersion
<1>0. /\ UserTypes /\ CodeTypes /\ CallTypes /\ CallInv
      /\ CallInv' /\ CodeTypes'
  BY CallInvKept, CodeTypesKept DEF AuthInv, AuthTypeOK
<1>1. ASSUME NEW c \in AuthCalls, ResetPassword(c)
      PROVE  c \notin Resets /\ Resets' = Resets \cup {c} /\ tokenVersion' = tokenVersion + 1
  <2>1. /\ at[c] = "reset" /\ ask[c].kind = "confirm" /\ at'[c] = "done" /\ ask'[c] = ask[c]
        /\ tokenVersion' = tokenVersion + 1
        /\ \A b \in AuthCalls \ {c} : at'[b] = at[b] /\ ask'[b] = ask[b]
    BY <1>0, <1>1 DEF ResetPassword, Goto, CallTypes, CallInv, Known
  <2>2. QED
    BY <2>1 DEF Resets
<1>2. ASSUME NEW c \in AuthCalls, c \in Resets', ~ ResetPassword(c) PROVE c \in Resets
  <2>0. at'[c] = "done" /\ ask'[c].kind = "confirm"
    BY <1>2 DEF Resets
  <2>1. CASE Same(c)
    BY <1>2, <2>1 DEF Same, Resets
  <2>2. CASE StartRefused(c) \/ Fail(c) \/ CountAttempt(c)
    BY <1>0, <2>0, <2>2, NothingKnown DEF StartRefused, Fail, CountAttempt
  <2>3. ASSUME NEW a \in Asks, StartCall(c, a) PROVE FALSE
    BY <1>0, <2>0, <2>3 DEF StartCall, StartRegister, StartLogin, StartMe, StartCode, ReadUser, Goto, CallTypes
  <2>4. CASE CreateUser(c) \/ EnsureUserProfile(c) \/ Me(c) \/ RecordSession(c) \/ AnswerToken(c)
    BY <1>0, <2>0, <2>4
       DEF CreateUser, EnsureUserProfile, Me, RecordSession, AnswerToken, EndCall, Goto, CallTypes, CallInv, Known
  <2>5. CASE CheckDeviceLimit(c) \/ CheckCooldown(c) \/ Deliver(c) \/ InsertCode(c) \/ RecordIssue(c)
    BY <1>0, <2>0, <2>5
       DEF CheckDeviceLimit, CheckCooldown, Deliver, InsertCode, RecordIssue, EndCall, Goto, CallTypes, CallInv, Known
  <2>6. CASE FindCode(c) \/ Consume(c) \/ RecordVerified(c)
    BY <1>0, <2>0, <2>6 DEF FindCode, Consume, RecordVerified, EndCall, Goto, CallTypes
  <2>7. ASSUME NEW typed \in Issued \cup {NoCode}, Compare(c, typed) PROVE FALSE
    BY <1>0, <2>0, <2>7 DEF Compare, Goto, CallTypes
  <2>8. QED
    BY <1>0, <1>2, <2>1, <2>2, <2>3, <2>4, <2>5, <2>6, <2>7, StepOf DEF Own, Step
<1>3. ASSUME NEW c \in Resets PROVE c \in Resets'
  <2>1. Same(c)
    BY <1>0, StepOf, OwnFrom DEF Resets, Ended
  <2>2. QED
    BY <2>1 DEF Same, Resets
<1>4. CASE \E c \in AuthCalls : ResetPassword(c)
  BY <1>1, <1>4
<1>5. CASE ~ \E c \in AuthCalls : ResetPassword(c)
  <2>1. Resets' = Resets
    BY <1>2, <1>3, <1>5 DEF Resets
  <2>2. /\ \A c \in AuthCalls : EnsureUserProfile(c) \/ CreateUser(c) => tokenVersion' = tokenVersion
        /\ ChangePhone \/ SoftDelete \/ UNCHANGED user => tokenVersion' = tokenVersion
    BY DEF CreateUser, EnsureUserProfile, ChangePhone, SoftDelete, user
  <2>3. tokenVersion' = tokenVersion
    BY <1>5, <2>2, Frames
  <2>4. QED
    BY <1>5, <2>1, <2>3
<1>6. QED
  BY <1>4, <1>5

\* Every reset spends a code of its own purpose and device.
LEMMA ResetsSpendCodesKept == AuthInv /\ [AuthNext]_authVars => ResetsSpendCodes'
<1> SUFFICES ASSUME AuthInv, [AuthNext]_authVars PROVE ResetsSpendCodes'
  OBVIOUS
<1>0. ResetsSpendCodes /\ CallInv' /\ CodeInv' /\ CodeTypes'
  BY CallInvKept, CodeInvKept, CodeTypesKept DEF AuthInv
<1>4. tokenVersion' = Cardinality(Resets')
  <2>1. Resets \in SUBSET AuthCalls
    BY DEF Resets
  <2>2. QED
    BY <1>0, <2>1, CallSets, ResetsGrow DEF ResetsSpendCodes
<1>5. ASSUME NEW c \in Resets'
      PROVE  /\ found'[c] \in Issued' /\ found'[c] \in AuthCalls
             /\ c \in accepted'[found'[c]] /\ consumed'[found'[c]]
             /\ otp'[found'[c]].purpose = "PASSWORD_RESET" /\ otp'[found'[c]].device = ask'[c].device
  <2>1. c \in AuthCalls /\ at'[c] = "done" /\ ask'[c].kind = "confirm"
    BY DEF Resets
  <2>2. /\ ask'[c] \in Asks /\ found'[c] \in Issued' /\ c \in accepted'[found'[c]]
        /\ otp'[found'[c]].purpose = ask'[c].purpose /\ otp'[found'[c]].device = ask'[c].device
    BY <1>0, <2>1 DEF CallInv, Known
  <2>3. found'[c] \in AuthCalls
    BY <1>0, <2>2 DEF CodeTypes, Issued
  <2>4. consumed'[found'[c]]
    BY <1>0, <2>2, <2>3 DEF CodeInv, Guessed
  <2>5. QED
    BY <2>1, <2>2, <2>3, <2>4, AsksAssumption
<1>6. QED
  BY <1>4, <1>5 DEF ResetsSpendCodes

\* The attempts of a code count the refused guesses at it.
LEMMA GuessesKept == AuthInv /\ [AuthNext]_authVars => GuessesAreCounted'
<1> SUFFICES ASSUME AuthInv, [AuthNext]_authVars, NEW k \in AuthCalls
             PROVE  attempts'[k] = Cardinality({c \in wrong'[k] : at'[c] = "refused"})
  BY DEF GuessesAreCounted
<1>0. CodeTypes /\ CallTypes /\ GivenTypes /\ CallInv /\ Guessed(k)
  BY DEF AuthInv, AuthTypeOK, CodeInv
<1> DEFINE R == {c \in wrong[k] : at[c] = "refused"}
           Rn == {c \in wrong'[k] : at'[c] = "refused"}
<1>1. wrong[k] \in SUBSET AuthCalls /\ wrong'[k] \in SUBSET AuthCalls /\ attempts[k] = Cardinality(R)
  <2>1. GivenTypes'
    BY GivenTypesKept
  <2>2. QED
    BY <1>0, <2>1 DEF GivenTypes, AuthInv, GuessesAreCounted
<1>2. R \subseteq Rn
  <2>1. ASSUME NEW c \in R PROVE at'[c] = "refused"
    BY <1>0, <1>1, StepOf, OwnFrom DEF Same, Ended
  <2>2. QED
    BY <1>0, <2>1, WrongGrows
<1>3. ASSUME NEW c \in Rn, c \notin R PROVE c \in wrong[k] /\ CountAttempt(c)
  <2>1. c \in AuthCalls /\ at'[c] = "refused"
    BY <1>1
  <2>2. c \in wrong[k]
    BY <1>0, <2>1, WrongGrows
  <2>3. at[c] = "count"
    <3>1. at[c] \in {"count", "refused", "failed"} /\ at[c] # "refused"
      BY <1>0, <1>3, <2>1, <2>2 DEF Guessed
    <3>2. at[c] # "failed"
      BY <1>0, <2>1, StepOf, OwnFrom DEF Same, Ended
    <3>3. QED
      BY <3>1, <3>2
  <2>4. ~ Fail(c)
    BY <1>0, <2>1 DEF Fail, EndCall, Goto, CallTypes
  <2>5. QED
    BY <1>0, <2>1, <2>2, <2>3, <2>4, StepOf, OwnFrom DEF Same
<1>4. ASSUME NEW c \in AuthCalls, CountAttempt(c)
      PROVE  attempts'[k] = Cardinality(Rn)
  <2>1. /\ at[c] = "count" /\ at'[c] = "refused" /\ wrong' = wrong
        /\ \A b \in AuthCalls \ {c} : Same(b)
    BY <1>0, <1>4 DEF CountAttempt, EndCall, Goto, Same, CallTypes, past
  <2>2. found[c] \in AuthCalls /\ (c \in wrong[k] <=> found[c] = k)
    BY <1>0, <2>1 DEF CallInv, Known, Holding, CodeTypes, Issued, Guessed
  <2>3. CASE found[c] = k
    <3>1. Rn = R \cup {c} /\ c \notin R
      BY <1>1, <2>1, <2>2, <2>3 DEF Same
    <3>2. attempts'[k] = attempts[k] + 1
      BY <1>0, <1>4, <2>3 DEF CountAttempt, CodeTypes
    <3>3. QED
      BY <1>1, <3>1, <3>2, CallSets
  <2>4. CASE found[c] # k
    <3>1. Rn = R
      BY <1>1, <2>1, <2>2, <2>4 DEF Same
    <3>2. attempts'[k] = attempts[k]
      BY <1>0, <1>4, <2>4 DEF CountAttempt, CodeTypes
    <3>3. QED
      BY <1>1, <3>1, <3>2
  <2>5. QED
    BY <2>3, <2>4
<1>5. CASE ~ \E c \in AuthCalls : CountAttempt(c)
  <2>1. Rn = R
    BY <1>1, <1>2, <1>3, <1>5
  <2>2. /\ \A c \in AuthCalls : Deliver(c) \/ InsertCode(c) \/ Consume(c) => attempts' = attempts
        /\ Tick \/ UNCHANGED codes => attempts' = attempts
    BY DEF Deliver, InsertCode, Consume, Tick, codes
  <2>3. attempts' = attempts
    BY <1>5, <2>2, Frames
  <2>4. QED
    BY <1>1, <2>1, <2>3
<1>6. QED
  BY <1>4, <1>5

\* One registration is answered, with a profile.
LEMMA OneRegistrationKept == AuthInv /\ [AuthNext]_authVars => OneRegistration'
<1> SUFFICES ASSUME AuthInv, [AuthNext]_authVars PROVE OneRegistration'
  OBVIOUS
<1>0. CallTypes /\ CallInv /\ OneRegistration /\ RegisterInv'
  BY RegisterInvKept DEF AuthInv, AuthTypeOK
<1>1. ASSUME NEW c \in AuthCalls, at'[c] \in {"answer", "done"}, ask'[c].kind = "register" PROVE profile'
  <2>1. Created(c) \/ CreateUser(c)
    BY <1>0, <1>1, CreatedBy DEF Created
  <2>2. CASE CreateUser(c)
    BY <1>0, <1>1, <2>2 DEF CreateUser, EndCall, Goto, CallTypes
  <2>3. CASE Created(c) /\ at[c] # "profile"
    BY <1>0, <2>3, MovesOn DEF Created, OneRegistration
  <2>4. CASE at[c] = "profile"
    BY <1>0, <1>1, <2>4, StepOf, OwnFrom DEF Same, EnsureUserProfile, Fail, EndCall, Goto, CallTypes
  <2>5. QED
    BY <2>1, <2>2, <2>3, <2>4
<1>2. QED
  BY <1>0, <1>1 DEF OneRegistration, RegisterInv

\* A code is looked for by the channel it went by.
LEMMA InferredChannelsKept == AuthInv /\ [AuthNext]_authVars => InferredChannelsAgree'
<1> SUFFICES ASSUME AuthInv, [AuthNext]_authVars, NEW c \in AuthCalls, NEW k \in Issued',
                    at'[c] = "find", at'[k] = "done", ask'[c].channel = NotGiven, ask'[k].channel = NotGiven,
                    seen'[c].phone = seen'[k].phone, ask'[c].purpose = ask'[k].purpose,
                    ask'[c].device = ask'[k].device, ~ consumed'[k], life'[k] > 0
             PROVE  k \in Findable(c)'
  BY DEF InferredChannelsAgree
<1>0. CodeInv' /\ CodeTypes'
  BY CodeInvKept, CodeTypesKept
<1>1. k \in AuthCalls
  BY <1>0 DEF CodeTypes, Issued
<1>2. /\ otp'[k].purpose = ask'[k].purpose /\ otp'[k].device = ask'[k].device
      /\ otp'[k].channel = IF seen'[k].phone THEN "SMS" ELSE "EMAIL"
  BY <1>0, <1>1 DEF CodeInv, Asked, Delivered, NotGiven
<1>3. QED
  BY <1>2 DEF Findable, Of, ResolveChannel

--------------------------------------------------------------------------------
(* One call at a time                                                      *)

\* When calls do not overlap, the one that takes a step is alone.
LEMMA Alone ==
    ASSUME AuthInv, [AuthNext]_authVars, ~ callsOverlap, NEW c \in AuthCalls, Own(c)
    PROVE  \A b \in AuthCalls \ {c} : ~ Running(b) /\ Same(b) /\ ~ Running(b)'
<1>0. CallTypes /\ SerialInv
  BY DEF AuthInv, AuthTypeOK
<1>1. \A b \in AuthCalls \ {c} : ~ Running(b)
  <2>1. CASE Running(c)
    BY <1>0, <2>1 DEF SerialInv
  <2>2. CASE ~ Running(c)
    <3>1. at[c] = "idle"
      BY <2>2, OwnFrom DEF Running
    <3>2. MayCall(c)
      BY <3>1 DEF Own, StartRefused, StartCall, StartRegister, StartLogin, StartMe, StartCode, ReadUser,
           Step, CreateUser, EnsureUserProfile, Me, CheckDeviceLimit, CheckCooldown, Deliver, InsertCode,
           RecordIssue, FindCode, CountAttempt, Consume, RecordVerified, ResetPassword, Compare,
           RecordSession, AnswerToken, Fail
    <3>3. QED
      BY <3>2 DEF MayCall, Running
  <2>3. QED
    BY <2>1, <2>2
<1>2. ~ Same(c)
  BY <1>0 DEF CallTypes, Same, Own, StartRefused, StartCall, StartRegister, StartLogin, StartMe, StartCode, ReadUser,
       MayCall, Step, CreateUser, EnsureUserProfile, Me, CheckDeviceLimit, CheckCooldown, Deliver, InsertCode,
       RecordIssue, FindCode, CountAttempt, Consume, RecordVerified, ResetPassword, Compare,
       RecordSession, AnswerToken, Fail, EndCall, Goto, Ended
<1>3. \A b \in AuthCalls \ {c} : Same(b)
  BY <1>0, <1>2, OneMoves
<1>4. QED
  BY <1>1, <1>3 DEF Running, Same

\* Codes do not get younger.
LEMMA Ages ==
    ASSUME CodeTypes, [AuthNext]_authVars
    PROVE  \A k \in AuthCalls : age[k] \in Nat /\ age'[k] \in Nat /\ age'[k] >= age[k]
<1>1. \A k \in AuthCalls : age[k] \in Nat
  BY NothingTypes DEF CodeTypes
<1>2. ASSUME Tick, NEW k \in AuthCalls PROVE age'[k] \in Nat /\ age'[k] >= age[k]
  BY <1>1, <1>2 DEF Tick, Older
<1>3. /\ \A c \in AuthCalls : Deliver(c) \/ InsertCode(c) \/ CountAttempt(c) \/ Consume(c) => age' = age
      /\ UNCHANGED codes => age' = age
  BY DEF Deliver, InsertCode, CountAttempt, Consume, codes
<1>4. QED
  BY <1>1, <1>2, <1>3, Frames

\* No step but InsertCode makes a code recent, or puts a call in a cooldown.
LEMMA Paced ==
    ASSUME AuthInv, [AuthNext]_authVars, Issued' = Issued
    PROVE  /\ \A d : Recent(d)' \subseteq Recent(d)
           /\ \A d : Cardinality(Recent(d)') \in Nat /\ Cardinality(Recent(d)) \in Nat
           /\ \A d : Cardinality(Recent(d)') <= Cardinality(Recent(d))
           /\ \A c \in AuthCalls : ask'[c] = ask[c] =>
                 /\ ~ DeviceLimitReached(c) => ~ DeviceLimitReached(c)'
                 /\ ~ Cooling(c) => ~ Cooling(c)'
<1>0. CodeTypes /\ OTP_DEVICE_RATE_WINDOW \in Nat /\ OTP_COOLDOWN \in Nat /\ OTP_DEVICE_RATE_LIMIT \in Nat
  BY TimesAssumption DEF AuthInv, AuthTypeOK
<1>1. /\ Issued \subseteq AuthCalls
      /\ \A k \in Issued : otp'[k] = otp[k] /\ age[k] \in Nat /\ age'[k] \in Nat /\ age'[k] >= age[k]
  <2>1. Issued \subseteq AuthCalls
    BY <1>0 DEF CodeTypes, Issued
  <2>2. QED
    BY <1>0, <2>1, Ages, MovesOn
<1>2. \A d : Recent(d)' \subseteq Recent(d)
  BY <1>0, <1>1 DEF Recent, Of
<1>3. \A d : Recent(d) \in SUBSET AuthCalls
  BY <1>1 DEF Recent, Of
<1>4. ASSUME NEW d
      PROVE  /\ Cardinality(Recent(d)') \in Nat /\ Cardinality(Recent(d)) \in Nat
             /\ Cardinality(Recent(d)') <= Cardinality(Recent(d))
  <2>1. Recent(d) \in SUBSET AuthCalls /\ Recent(d)' \in SUBSET AuthCalls /\ Recent(d)' \in SUBSET Recent(d)
    BY <1>2, <1>3
  <2>2. QED
    BY <2>1, CallSets
<1>5. ASSUME NEW c \in AuthCalls, ask'[c] = ask[c], ~ DeviceLimitReached(c) PROVE ~ DeviceLimitReached(c)'
  BY <1>0, <1>4, <1>5 DEF DeviceLimitReached
<1>6. ASSUME NEW c \in AuthCalls, ask'[c] = ask[c], ~ Cooling(c) PROVE ~ Cooling(c)'
  BY <1>0, <1>1, <1>6 DEF Cooling
<1>7. QED
  BY <1>2, <1>4, <1>5, <1>6

\* Without a step of its own, a call finds what it has read still so.
LEMMA StillSoElse ==
    ASSUME AuthInv, [AuthNext]_authVars, ~ callsOverlap, NEW c \in AuthCalls, ~ Own(c)
    PROVE  StillSo(c)'
<1>0. UserTypes /\ CodeTypes /\ CallTypes /\ CallInv /\ SerialInv
  BY DEF AuthInv, AuthTypeOK
<1>1. Same(c)
  BY <1>0, StepOf
<1>2. CASE \E b \in AuthCalls : Own(b)
  <2>1. ~ Running(c)'
    BY <1>2, Alone
  <2>2. QED
    BY <2>1 DEF Running, StillSo, Ended
<1>3. CASE ~ \E b \in AuthCalls : Own(b)
  <2>1. ChangePhone \/ SoftDelete \/ Tick \/ UNCHANGED authVars
    BY <1>3 DEF AuthNext, Own
  <2>2. tokenVersion' = tokenVersion /\ consumed' = consumed /\ attempts' = attempts /\ issued' = issued
    BY <2>1 DEF ChangePhone, SoftDelete, Tick, authVars, user, codes
  <2>3. Issued' = Issued
    BY <2>2 DEF Issued
  <2>4. /\ ~ DeviceLimitReached(c) => ~ DeviceLimitReached(c)'
        /\ ~ Cooling(c) => ~ Cooling(c)'
    BY <1>1, <2>3, Paced DEF Same
  <2>5. QED
    BY <1>0, <1>1, <2>2, <2>4 DEF SerialInv, StillSo, Same, Running, AttemptsLeft
<1>4. QED
  BY <1>2, <1>3

\* After its own step, too.
LEMMA StillSoOwn ==
    ASSUME AuthInv, [AuthNext]_authVars, ~ callsOverlap, NEW c \in AuthCalls, Own(c)
    PROVE  StillSo(c)'
<1>0. /\ UserTypes /\ CodeTypes /\ CallTypes /\ CallInv /\ CodeInv /\ RegisterInv /\ TokenInv
      /\ StillSo(c) /\ SerialTokens /\ Known(c)
  BY DEF AuthInv, AuthTypeOK, SerialInv, CallInv
<1> USE DEF Goto, CallTypes
<1>1. ASSUME EndCall(c, "refused") \/ EndCall(c, "failed") PROVE StillSo(c)'
  BY <1>0, <1>1 DEF EndCall, StillSo, Running, Ended
<1>2. CASE StartRefused(c) \/ Fail(c) \/ CountAttempt(c)
  BY <1>1, <1>2 DEF StartRefused, Fail, CountAttempt
<1>3. ASSUME NEW a \in Asks, StartCall(c, a) PROVE StillSo(c)'
  <2>1. /\ seen'[c].version = tokenVersion /\ tokenVersion' = tokenVersion
        /\ at'[c] \in {"create", "session", "me", "limit", "find"}
    BY <1>0, <1>3 DEF StartCall, StartRegister, StartLogin, StartMe, StartCode, ReadUser, user
  <2>2. ASSUME at'[c] \in {"session", "me"}
        PROVE  token'[c].version = tokenVersion /\ token'[c].proof = tokenVersion
    <3>1. CASE StartLogin(c, a)
      BY <1>0, <3>1 DEF StartLogin
    <3>2. ASSUME NEW t \in tokens, StartMe(c, a, t)
          PROVE  token'[c].version = tokenVersion /\ token'[c].proof = tokenVersion
      BY <1>0, <3>2 DEF StartMe, Valid, SerialTokens
    <3>3. CASE StartRegister(c, a) \/ StartCode(c, a)
      BY <1>0, <2>2, <3>3 DEF StartRegister, StartCode, ReadUser
    <3>4. QED
      BY <1>3, <3>1, <3>2, <3>3 DEF StartCall
  <2>3. QED
    BY <2>1, <2>2 DEF StillSo
<1>4. CASE CreateUser(c)
  <2>1. CASE EndCall(c, "failed")
    BY <1>1, <2>1
  <2>2. CASE ~ EndCall(c, "failed")
    <3>1. /\ account = "absent" /\ at[c] = "create" /\ at'[c] = "profile"
          /\ token'[c] = [version |-> 0, proof |-> 0]
          /\ seen'[c] = seen[c] /\ tokenVersion' = tokenVersion
      BY <1>0, <1>4, <2>2 DEF CreateUser
    <3>2. tokenVersion = 0
      BY <1>0, <3>1 DEF RegisterInv
    <3>3. QED
      BY <1>0, <3>1, <3>2 DEF StillSo, Running, Ended
  <2>3. QED
    BY <2>1, <2>2
<1>5. CASE EnsureUserProfile(c) \/ RecordSession(c) \/ AnswerToken(c)
  BY <1>0, <1>5 DEF EnsureUserProfile, RecordSession, AnswerToken, user, StillSo, Running, Ended
<1>6. CASE Me(c)
  <2>1. CASE EndCall(c, "refused")
    BY <1>1, <2>1
  <2>2. CASE ~ EndCall(c, "refused")
    BY <1>0, <1>6, <2>2 DEF Me, user, StillSo, Running, Ended
  <2>3. QED
    BY <2>1, <2>2
<1>7. CASE CheckDeviceLimit(c) \/ CheckCooldown(c)
  <2>1. CASE EndCall(c, "refused")
    BY <1>1, <2>1
  <2>2. CASE ~ EndCall(c, "refused")
    <3>1. \/ at[c] = "limit" /\ at'[c] = "cooldown" /\ ~ DeviceLimitReached(c)
          \/ at[c] = "cooldown" /\ at'[c] = "deliver" /\ ~ DeviceLimitReached(c) /\ ~ Cooling(c)
      <4>1. CASE CheckDeviceLimit(c)
        BY <1>0, <2>2, <4>1 DEF CheckDeviceLimit
      <4>2. CASE CheckCooldown(c)
        BY <1>0, <2>2, <4>2 DEF CheckCooldown, StillSo
      <4>3. QED
        BY <1>7, <4>1, <4>2
    <3>2. seen'[c] = seen[c] /\ ask'[c] = ask[c] /\ tokenVersion' = tokenVersion /\ issued' = issued
      BY <1>7, <2>2 DEF CheckDeviceLimit, CheckCooldown, user, codes
    <3>3. /\ ~ DeviceLimitReached(c) => ~ DeviceLimitReached(c)'
          /\ ~ Cooling(c) => ~ Cooling(c)'
      BY <3>2, Paced DEF Issued
    <3>4. QED
      BY <1>0, <3>1, <3>2, <3>3 DEF StillSo, Running, Ended
  <2>3. QED
    BY <2>1, <2>2
<1>8. CASE Deliver(c)
  <2>1. /\ at[c] = "deliver" /\ at'[c] = "insert" /\ seen'[c] = seen[c] /\ ask'[c] = ask[c]
        /\ tokenVersion' = tokenVersion /\ issued' = issued
    BY <1>0, <1>8 DEF Deliver, user
  <2>2. /\ ~ DeviceLimitReached(c) => ~ DeviceLimitReached(c)'
        /\ ~ Cooling(c) => ~ Cooling(c)'
    BY <2>1, Paced DEF Issued
  <2>3. QED
    BY <1>0, <2>1, <2>2 DEF StillSo, Running, Ended
<1>9. CASE InsertCode(c) \/ RecordIssue(c)
  BY <1>0, <1>9 DEF InsertCode, RecordIssue, user, StillSo, Running, Ended
<1>10. CASE FindCode(c)
  <2>1. CASE EndCall(c, "refused")
    BY <1>1, <2>1
  <2>2. CASE ~ EndCall(c, "refused")
    <3>1. /\ at[c] = "find" /\ at'[c] = "compare" /\ seen'[c] = seen[c] /\ tokenVersion' = tokenVersion
          /\ consumed' = consumed /\ attempts' = attempts
      BY <1>0, <1>10, <2>2 DEF FindCode, user, codes
    <3>2. ~ consumed[found'[c]] /\ AttemptsLeft(found'[c])
      BY <1>0, <1>10, <2>2 DEF FindCode, Newest, Findable
    <3>3. QED
      BY <1>0, <3>1, <3>2 DEF StillSo, Running, Ended, AttemptsLeft
  <2>3. QED
    BY <2>1, <2>2
<1>11. ASSUME NEW typed \in Issued \cup {NoCode}, Compare(c, typed) PROVE StillSo(c)'
  <2>1. /\ at[c] = "compare" /\ at'[c] \in {"consume", "count"} /\ seen' = seen /\ found' = found
        /\ tokenVersion' = tokenVersion /\ consumed' = consumed /\ attempts' = attempts
    BY <1>0, <1>11 DEF Compare, user, codes
  <2>2. QED
    BY <1>0, <2>1 DEF StillSo, Running, Ended, AttemptsLeft
<1>12. CASE Consume(c)
  BY <1>0, <1>12 DEF Consume, user, StillSo, Running, Ended
<1>13. CASE RecordVerified(c)
  BY <1>0, <1>13 DEF RecordVerified, user, StillSo, Running, Ended
<1>14. CASE ResetPassword(c)
  BY <1>0, <1>14 DEF ResetPassword, StillSo, Running, Ended
<1>15. QED
  BY <1>2, <1>3, <1>4, <1>5, <1>6, <1>7, <1>8, <1>9, <1>10, <1>11, <1>12, <1>13, <1>14 DEF Own, Step

\* Calls that take turns keep taking turns.
LEMMA SerialInvKept == AuthInv /\ [AuthNext]_authVars => SerialInv'
<1> SUFFICES ASSUME AuthInv, [AuthNext]_authVars, ~ callsOverlap
             PROVE  /\ \A b, c \in AuthCalls : Running(b)' /\ Running(c)' => b = c
                    /\ \A c \in AuthCalls : StillSo(c)'
  BY Frames DEF SerialInv
<1>0. CallTypes /\ SerialInv
  BY DEF AuthInv, AuthTypeOK
<1>1. ASSUME NEW b \in AuthCalls, NEW c \in AuthCalls, Running(b)', Running(c)' PROVE b = c
  <2>1. CASE Own(b) \/ Own(c)
    BY <1>1, <2>1, Alone
  <2>2. CASE ~ Own(b) /\ ~ Own(c)
    BY <1>0, <1>1, <2>2, StepOf DEF Same, Running, SerialInv
  <2>3. QED
    BY <2>1, <2>2
<1>2. QED
  BY <1>1, StillSoElse, StillSoOwn

\* A code is accepted once and compared with few wrong guesses.
LEMMA SerialCodesKept == AuthInv /\ [AuthNext]_authVars => SerialCodes'
<1> SUFFICES ASSUME AuthInv, [AuthNext]_authVars, ~ callsOverlap, NEW k \in AuthCalls
             PROVE  /\ Cardinality(accepted'[k]) <= 1
                    /\ Cardinality({c \in wrong'[k] : at'[c] # "failed"}) <= MAX_ATTEMPTS
  BY Frames DEF SerialCodes
<1>0. /\ CodeTypes /\ CallTypes /\ GivenTypes /\ GivenTypes' /\ CallInv /\ Guessed(k)
      /\ SerialCodes /\ SerialInv /\ MAX_ATTEMPTS \in Nat
  BY GivenTypesKept, TimesAssumption DEF AuthInv, AuthTypeOK, CodeInv
<1>1. Cardinality(accepted'[k]) <= 1
  <2>1. ASSUME NEW c \in AuthCalls, Consume(c)
        PROVE  accepted'[k] = accepted[k] \/ accepted'[k] = {c}
    <3>1. at[c] = "consume" /\ accepted' = [accepted EXCEPT ![found[c]] = @ \cup {c}]
      BY <2>1 DEF Consume
    <3>2. ~ consumed[found[c]]
      BY <1>0, <3>1 DEF SerialInv, StillSo
    <3>3. CASE found[c] = k
      BY <1>0, <3>1, <3>2, <3>3 DEF Guessed, GivenTypes
    <3>4. CASE found[c] # k
      BY <1>0, <3>1, <3>4 DEF GivenTypes
    <3>5. QED
      BY <3>3, <3>4
  <2>2. \A c \in AuthCalls, typed \in Issued \cup {NoCode} : Compare(c, typed) => accepted' = accepted
    BY DEF Compare
  <2>3. accepted'[k] = accepted[k] \/ \E c \in AuthCalls : accepted'[k] = {c}
    BY <2>1, <2>2, Frames
  <2>4. Cardinality(accepted[k]) <= 1 /\ \A c \in AuthCalls : Cardinality({c}) = 1
    BY <1>0, FS_Singleton DEF SerialCodes
  <2>5. QED
    BY <2>3, <2>4
<1> DEFINE R == {c \in wrong[k] : at[c] = "refused"}
           W == {c \in wrong[k] : at[c] # "failed"}
           Wn == {c \in wrong'[k] : at'[c] # "failed"}
<1>2. wrong[k] \in SUBSET AuthCalls /\ wrong'[k] \in SUBSET AuthCalls
  BY <1>0 DEF GivenTypes
<1>3. ASSUME wrong'[k] = wrong[k] PROVE Cardinality(Wn) <= MAX_ATTEMPTS
  <2>1. ASSUME NEW c \in Wn PROVE c \in W
    <3>1. c \in AuthCalls /\ c \in wrong[k]
      BY <1>2, <1>3
    <3>2. at[c] # "failed"
      BY <1>0, <3>1, StepOf, OwnFrom DEF Same, Ended
    <3>3. QED
      BY <3>1, <3>2
  <2>2. Cardinality(W) <= MAX_ATTEMPTS /\ W \in SUBSET AuthCalls
    BY <1>0, <1>2 DEF SerialCodes
  <2>3. Wn \in SUBSET W /\ Wn \in SUBSET AuthCalls
    BY <1>2, <2>1
  <2>4. Cardinality(Wn) <= Cardinality(W) /\ Cardinality(Wn) \in Nat /\ Cardinality(W) \in Nat
    BY <2>2, <2>3, CallSets
  <2>5. QED
    BY <1>0, <2>2, <2>4
<1>4. ASSUME NEW b \in AuthCalls,
             at[b] = "compare", at'[b] = "count", found[b] = k, wrong'[k] = wrong[k] \cup {b},
             \A c \in AuthCalls \ {b} : Same(c)
      PROVE  Cardinality(Wn) <= MAX_ATTEMPTS
  <2>1. attempts[k] < MAX_ATTEMPTS /\ attempts[k] \in Nat
    BY <1>0, <1>4 DEF SerialInv, StillSo, AttemptsLeft, CodeTypes
  <2>2. attempts[k] = Cardinality(R)
    BY DEF AuthInv, GuessesAreCounted
  <2>3. ASSUME NEW c \in AuthCalls \ {b} PROVE at[c] # "count"
    BY <1>0, <1>4, <2>3 DEF SerialInv, Running, Ended
  <2>4. Wn = R \cup {b} /\ b \notin R
    <3>1. ASSUME NEW c \in Wn, c # b PROVE c \in R
      <4>1. c \in wrong[k] /\ c \in AuthCalls /\ at[c] = at'[c] /\ at'[c] # "failed"
        BY <1>2, <1>4, <3>1 DEF Same
      <4>2. QED
        BY <1>0, <2>3, <3>1, <4>1 DEF Guessed
    <3>2. ASSUME NEW c \in R PROVE c \in Wn
      BY <1>2, <1>4, <3>2 DEF Same
    <3>3. b \in Wn
      BY <1>4
    <3>4. QED
      BY <1>4, <3>1, <3>2, <3>3
  <2>5. Cardinality(Wn) = attempts[k] + 1
    BY <1>2, <2>2, <2>4, CallSets
  <2>6. QED
    BY <1>0, <2>1, <2>5
<1>5. Cardinality(Wn) <= MAX_ATTEMPTS
  BY <1>0, <1>3, <1>4, WrongGrows
<1>6. QED
  BY <1>1, <1>5

\* Codes keep their distance.
LEMMA SerialPaceKept == AuthInv /\ [AuthNext]_authVars => SerialPace'
<1> SUFFICES ASSUME AuthInv, [AuthNext]_authVars, ~ callsOverlap PROVE SerialPace'
  BY Frames DEF SerialPace
<1>0. /\ CodeTypes /\ CallTypes /\ CallInv /\ CodeInv /\ SerialPace /\ SerialInv
      /\ OTP_COOLDOWN \in Nat /\ OTP_DEVICE_RATE_LIMIT \in Nat
  BY TimesAssumption DEF AuthInv, AuthTypeOK
<1>1. Issued \subseteq AuthCalls /\ \A k \in AuthCalls : age[k] \in Nat /\ age'[k] \in Nat /\ age'[k] >= age[k]
  BY <1>0, Ages DEF CodeTypes, Issued
<1>2. CASE Issued' = Issued
  <2>1. ASSUME NEW j \in Issued, NEW k \in Issued, j # k, otp'[j].purpose = otp'[k].purpose,
               otp'[j].device = otp'[k].device
        PROVE  age'[j] >= OTP_COOLDOWN \/ age'[k] >= OTP_COOLDOWN
    <3>1. age[j] >= OTP_COOLDOWN \/ age[k] >= OTP_COOLDOWN
      BY <1>0, <2>1, MovesOn DEF SerialPace
    <3>2. QED
      BY <1>0, <1>1, <3>1
  <2>2. ASSUME NEW d \in Devices PROVE Cardinality(Recent(d)') <= OTP_DEVICE_RATE_LIMIT
    <3>1. Cardinality(Recent(d)) <= OTP_DEVICE_RATE_LIMIT
      BY <1>0 DEF SerialPace
    <3>2. QED
      BY <1>0, <1>2, <3>1, Paced
  <2>3. QED
    BY <1>2, <2>1, <2>2 DEF SerialPace
<1>3. ASSUME NEW c \in AuthCalls, InsertCode(c) PROVE SerialPace'
  <2>1. /\ Issued' = Issued \cup {c} /\ c \notin Issued /\ otp' = otp /\ age' = age /\ at[c] = "insert"
        /\ otp[c].purpose = ask[c].purpose /\ otp[c].device = ask[c].device
        /\ ~ DeviceLimitReached(c) /\ ~ Cooling(c)
    BY <1>0, <1>3, IssuedGrows DEF InsertCode, CodeTypes, CodeInv, Asked, SerialInv, StillSo
  <2>2. ASSUME NEW k \in Issued, otp[k].purpose = otp[c].purpose, otp[k].device = otp[c].device
        PROVE  age[k] >= OTP_COOLDOWN
    BY <1>0, <1>1, <2>1, <2>2 DEF Cooling
  <2>3. ASSUME NEW j \in Issued', NEW k \in Issued', j # k, otp'[j].purpose = otp'[k].purpose,
               otp'[j].device = otp'[k].device
        PROVE  age'[j] >= OTP_COOLDOWN \/ age'[k] >= OTP_COOLDOWN
    BY <1>0, <2>1, <2>2, <2>3 DEF SerialPace
  <2>4. ASSUME NEW d \in Devices PROVE Cardinality(Recent(d)') <= OTP_DEVICE_RATE_LIMIT
    <3>1. /\ Cardinality(Recent(d)) <= OTP_DEVICE_RATE_LIMIT
          /\ Recent(d) \in SUBSET AuthCalls /\ Cardinality(Recent(d)) \in Nat
      <4>1. Recent(d) \in SUBSET AuthCalls
        BY <1>1 DEF Recent, Of
      <4>2. QED
        BY <1>0, <4>1, CallSets DEF SerialPace
    <3>2. CASE Recent(d)' = Recent(d)
      BY <3>1, <3>2
    <3>3. CASE Recent(d)' # Recent(d)
      <4>1. Recent(d)' = Recent(d) \cup {c} /\ c \notin Recent(d) /\ otp[c].device = d
        BY <2>1, <3>3 DEF Recent, Of
      <4>2. Cardinality(Recent(d)) < OTP_DEVICE_RATE_LIMIT
        BY <1>0, <2>1, <3>1, <4>1, AuthCallsAssumption DEF DeviceLimitReached
      <4>3. Cardinality(Recent(d)') = Cardinality(Recent(d)) + 1
        BY <3>1, <4>1, CallSets
      <4>4. QED
        BY <1>0, <3>1, <4>2, <4>3
    <3>4. QED
      BY <3>2, <3>3
  <2>5. QED
    BY <2>3, <2>4 DEF SerialPace
<1>4. Issued' = Issued \/ \E c \in AuthCalls : InsertCode(c)
  <2>1. issued' = issued \/ \E c \in AuthCalls : InsertCode(c)
    <3>1. /\ Tick \/ UNCHANGED codes => issued' = issued
          /\ \A c \in AuthCalls : Deliver(c) \/ CountAttempt(c) \/ Consume(c) => issued' = issued
      BY DEF Tick, codes, Deliver, CountAttempt, Consume
    <3>2. QED
      BY <3>1, Frames
  <2>2. QED
    BY <2>1 DEF Issued
<1>5. QED
  BY <1>2, <1>3, <1>4

\* Tokens go back to what was shown since the last reset.
LEMMA SerialTokensKept == AuthInv /\ [AuthNext]_authVars => SerialTokens'
<1> SUFFICES ASSUME AuthInv, [AuthNext]_authVars, ~ callsOverlap
             PROVE  /\ \A t \in tokens' : t.version = tokenVersion' => t.proof = tokenVersion'
                    /\ \A d \in Devices :
                          session'[d].status = "ACTIVE" => session'[d].token.version \in {tokenVersion', -1}
  BY Frames DEF SerialTokens
<1>0. UserTypes /\ CallTypes /\ GivenTypes /\ SerialInv /\ SerialTokens /\ TokenInv
  BY DEF AuthInv, AuthTypeOK
<1>1. ASSUME NEW c \in AuthCalls, ResetPassword(c)
      PROVE  /\ \A t \in tokens' : t.version = tokenVersion' => t.proof = tokenVersion'
             /\ \A d \in Devices :
                   session'[d].status = "ACTIVE" => session'[d].token.version \in {tokenVersion', -1}
  <2>1. tokens' = tokens /\ tokenVersion' = tokenVersion + 1
    BY <1>1 DEF ResetPassword
  <2>2. \A t \in tokens : t.version # tokenVersion'
    BY <1>0, <2>1 DEF TokenInv, UserTypes
  <2>3. ASSUME NEW d \in Devices PROVE session'[d].status # "ACTIVE"
    BY <1>1 DEF ResetPassword
  <2>4. QED
    BY <2>1, <2>2, <2>3
<1>2. CASE ~ \E c \in AuthCalls : ResetPassword(c)
  <2>1. tokenVersion' = tokenVersion
    <3>1. /\ \A c \in AuthCalls : CreateUser(c) \/ EnsureUserProfile(c) => tokenVersion' = tokenVersion
          /\ ChangePhone \/ SoftDelete \/ UNCHANGED user => tokenVersion' = tokenVersion
      BY DEF CreateUser, EnsureUserProfile, ChangePhone, SoftDelete, user
    <3>2. QED
      BY <1>2, <3>1, Frames
  <2>2. ASSUME NEW c \in AuthCalls, AnswerToken(c) \/ RecordSession(c)
        PROVE  token[c].version = tokenVersion /\ token[c].proof = tokenVersion
    BY <1>0, <2>2 DEF AnswerToken, RecordSession, SerialInv, StillSo
  <2>3. ASSUME NEW t \in tokens' PROVE t \in tokens \/ (t.version = tokenVersion /\ t.proof = tokenVersion)
    <3>1. ASSUME NEW c \in AuthCalls, AnswerToken(c) PROVE tokens' = tokens \cup {token[c]}
      BY <3>1 DEF AnswerToken
    <3>2. QED
      BY <2>2, <3>1, Frames
  <2>4. ASSUME NEW d \in Devices, session'[d].status = "ACTIVE"
        PROVE  session'[d].token.version \in {tokenVersion, -1}
    <3>1. session[d].status \in {"NONE", "ACTIVE", "REVOKED"} /\ NoToken.version = -1
      BY <1>0 DEF GivenTypes, NoToken
    <3>2. session[d].status # "REVOKED" => session[d].token.version \in {tokenVersion, -1}
      BY <1>0, <3>1 DEF SerialTokens, TokenInv
    <3>3. CASE session'[d] = session[d]
      BY <2>4, <3>2, <3>3
    <3>4. CASE session'[d] = Upserted(session[d], NoToken)
      BY <2>4, <3>1, <3>2, <3>4 DEF Upserted
    <3>5. ASSUME NEW c \in AuthCalls, RecordSession(c), session'[d] = Upserted(session[d], token[c])
          PROVE  session'[d].token.version \in {tokenVersion, -1}
      BY <2>2, <2>4, <3>1, <3>2, <3>5 DEF Upserted
    <3>6. QED
      BY <1>0, <1>2, <3>3, <3>4, <3>5, SessionSteps
  <2>5. QED
    BY <1>0, <2>1, <2>3, <2>4 DEF SerialTokens
<1>3. QED
  BY <1>1, <1>2

--------------------------------------------------------------------------------
(* The invariant, and the properties                                       *)

\* Nothing has been asked for at the beginning.
LEMMA AuthInitInv == AuthInit => AuthInv
<1> SUFFICES ASSUME AuthInit PROVE AuthInv
  OBVIOUS
<1>1. Issued = {} /\ \A c \in AuthCalls : at[c] = "idle" /\ ~ Running(c) /\ wrong[c] = {} /\ accepted[c] = {}
  BY DEF AuthInit, Issued, Running
<1>2. AuthTypeOK
  <2>1. UserTypes
    BY DEF AuthInit, UserTypes
  <2>2. CodeTypes
    BY <1>1, NothingTypes, TimesAssumption DEF AuthInit, CodeTypes
  <2>3. CallTypes
    BY NothingTypes DEF AuthInit, CallTypes, Label
  <2>4. GivenTypes
    BY NothingTypes DEF AuthInit, GivenTypes, NoSession
  <2>5. QED
    BY <2>1, <2>2, <2>3, <2>4 DEF AuthTypeOK
<1>3. CallInv
  BY <1>1 DEF CallInv, Known, Holding, CodeStep
<1>4. CodeInv
  BY <1>1 DEF AuthInit, CodeInv, Asked, Guessed
<1>5. RegisterInv /\ OneRegistration
  BY <1>1 DEF AuthInit, RegisterInv, OneRegistration
<1>6. SerialInv
  BY <1>1 DEF SerialInv, StillSo
<1>7. TokenInv
  BY DEF AuthInit, TokenInv, NoSession
<1>8. ResetsSpendCodes
  <2>1. Resets = {}
    BY <1>1 DEF Resets
  <2>2. QED
    BY <2>1, FS_EmptySet DEF AuthInit, ResetsSpendCodes
<1>9. GuessesAreCounted
  <2>1. ASSUME NEW k \in AuthCalls PROVE {c \in wrong[k] : at[c] = "refused"} = {}
    BY <1>1
  <2>2. QED
    BY <2>1, FS_EmptySet DEF AuthInit, GuessesAreCounted
<1>10. InferredChannelsAgree
  BY <1>1 DEF InferredChannelsAgree
<1>11. SerialCodes
  <2>1. ASSUME NEW k \in AuthCalls PROVE accepted[k] = {} /\ {c \in wrong[k] : at[c] # "failed"} = {}
    BY <1>1
  <2>2. QED
    BY <2>1, FS_EmptySet, TimesAssumption DEF SerialCodes
<1>12. SerialPace
  <2>1. ASSUME NEW d \in Devices PROVE Recent(d) = {}
    BY <1>1 DEF Recent, Of
  <2>2. QED
    BY <1>1, <2>1, FS_EmptySet, TimesAssumption DEF SerialPace
<1>13. SerialTokens
  BY DEF AuthInit, SerialTokens, NoSession
<1>14. QED
  BY <1>2, <1>3, <1>4, <1>5, <1>6, <1>7, <1>8, <1>9, <1>10, <1>11, <1>12, <1>13 DEF AuthInv

\* Every step keeps the whole of it.
LEMMA AuthNextInv == AuthInv /\ [AuthNext]_authVars => AuthInv'
<1> SUFFICES ASSUME AuthInv, [AuthNext]_authVars PROVE AuthInv'
  OBVIOUS
<1>1. AuthTypeOK'
  <2>1. UserTypes
    BY DEF AuthInv, AuthTypeOK
  <2>2. QED
    BY <2>1, UserTypesKept, CodeTypesKept, CallTypesKept, GivenTypesKept DEF AuthTypeOK
<1>2. CallInv' /\ CodeInv' /\ RegisterInv' /\ SerialInv' /\ TokenInv'
  BY CallInvKept, CodeInvKept, RegisterInvKept, SerialInvKept, TokenInvKept
<1>3. ResetsSpendCodes' /\ GuessesAreCounted' /\ OneRegistration' /\ InferredChannelsAgree'
  BY ResetsSpendCodesKept, GuessesKept, OneRegistrationKept, InferredChannelsKept
<1>4. SerialCodes' /\ SerialPace' /\ SerialTokens'
  BY SerialCodesKept, SerialPaceKept, SerialTokensKept
<1>5. QED
  BY <1>1, <1>2, <1>3, <1>4 DEF AuthInv

\* The invariant holds of every execution of AuthService on an account.
THEOREM AuthInvariant == AuthSpec => []AuthInv
BY AuthInitInv, AuthNextInv, PTL DEF AuthSpec

\* The row, the codes, the sessions and the tokens of an account keep their types, and
\* every issued code went by a channel that delivers (OtpDeliveryService.deliver).
THEOREM AuthTypes == AuthSpec => []AuthTypeOK
<1>1. AuthInv => AuthTypeOK
  BY DEF AuthInv
<1>2. QED
  BY <1>1, AuthInvariant, PTL

\* The token version counts the resets, and each spent a matched code that was issued
\* for a reset on the same device (confirmPasswordReset), however calls overlap.
THEOREM ResetsSpend == AuthSpec => []ResetsSpendCodes
<1>1. AuthInv => ResetsSpendCodes
  BY DEF AuthInv
<1>2. QED
  BY <1>1, AuthInvariant, PTL

\* consumeOtp counts every refused guess at a code, however guesses overlap.
THEOREM GuessesCount == AuthSpec => []GuessesAreCounted
<1>1. AuthInv => GuessesAreCounted
  BY DEF AuthInv
<1>2. QED
  BY <1>1, AuthInvariant, PTL

\* register answers one of any number of registrations of an address, with a profile.
THEOREM RegistersOnce == AuthSpec => []OneRegistration
<1>1. AuthInv => OneRegistration
  BY DEF AuthInv
<1>2. QED
  BY <1>1, AuthInvariant, PTL

\* What requestOtp infers of a channel, consumeOtp infers too, for the same phone.
THEOREM ChannelsAgree == AuthSpec => []InferredChannelsAgree
<1>1. AuthInv => InferredChannelsAgree
  BY DEF AuthInv
<1>2. QED
  BY <1>1, AuthInvariant, PTL

\* When calls take turns, a code is accepted once and compared with few wrong guesses,
\* codes keep their distance, and tokens and sessions end with a reset.
THEOREM SerialCallsAreSafe == AuthSpec => []SerialAuth
<1>1. AuthInv => SerialAuth
  BY DEF AuthInv, SerialAuth
<1>2. QED
  BY <1>1, AuthInvariant, PTL
--------------------------------------------------------------------------------
(* The refinement of OneTimeCodes                                          *)

\* A call that has used a code goes on to its end.
LEMMA AcceptedKept == AuthInv /\ AcceptedInv /\ [AuthNext]_authVars => AcceptedInv'
<1> SUFFICES ASSUME AuthInv, AcceptedInv, [AuthNext]_authVars, NEW k \in AuthCalls, NEW c \in AuthCalls,
                    c \in accepted'[k]
             PROVE  /\ at'[c] \in {"verified", "reset", "session", "answer", "done", "failed"}
                    /\ at'[c] \in {"verified", "reset"} => found'[c] = k
  BY DEF AcceptedInv
<1>0. CallTypes /\ CodeTypes /\ GivenTypes
  BY DEF AuthInv, AuthTypeOK
<1>1. ASSUME c \in accepted[k]
      PROVE  /\ at'[c] \in {"verified", "reset", "session", "answer", "done", "failed"}
             /\ at'[c] \in {"verified", "reset"} => found'[c] = k
  <2>1. /\ at[c] \in {"verified", "reset", "session", "answer", "done", "failed"}
        /\ at[c] \in {"verified", "reset"} => found[c] = k
    BY <1>1 DEF AcceptedInv
  <2>2. CASE Same(c)
    BY <2>1, <2>2 DEF Same
  <2>3. CASE Own(c)
    BY <1>0, <2>1, <2>3
       DEF CallTypes, Own, StartRefused, StartCall, StartRegister, StartLogin, StartMe, StartCode, ReadUser,
       MayCall, Step, CreateUser, EnsureUserProfile, Me, CheckDeviceLimit, CheckCooldown, Deliver, InsertCode,
       RecordIssue, FindCode, CountAttempt, Consume, RecordVerified, ResetPassword, Compare,
       RecordSession, AnswerToken, Fail, EndCall, Goto
  <2>4. QED
    BY <1>0, <2>2, <2>3, StepOf
<1>2. ASSUME c \notin accepted[k]
      PROVE  Consume(c) /\ found[c] = k
  <2>1. \A b \in AuthCalls, typed \in Issued \cup {NoCode} : Compare(b, typed) => accepted' = accepted
    BY DEF Compare
  <2>2. PICK b \in AuthCalls : Consume(b)
    BY <1>2, <2>1, Frames
  <2>3. QED
    BY <1>0, <1>2, <2>2 DEF Consume, GivenTypes
<1>3. ASSUME Consume(c), found[c] = k
      PROVE  at'[c] \in {"verified", "reset"} /\ found'[c] = k
  BY <1>0, <1>3 DEF Consume, Goto, CallTypes
<1>4. QED
  BY <1>1, <1>2, <1>3

\* The steps that are not of a code are not seen in OneTimeCodes.
LEMMA CodeSteps ==
    ASSUME AuthInv, [AuthNext]_authVars
    PROVE  \/ \E c \in AuthCalls : InsertCode(c) \/ CountAttempt(c) \/ Consume(c) \/ ResetPassword(c)
           \/ UNCHANGED <<Issued, attempts, accepted, Resets, tokenVersion, callsOverlap>>
<1>1. ASSUME \A c \in AuthCalls : ~ (InsertCode(c) \/ CountAttempt(c) \/ Consume(c) \/ ResetPassword(c))
      PROVE  UNCHANGED <<Issued, attempts, accepted, Resets, tokenVersion, callsOverlap>>
  <2>1. Resets' = Resets /\ tokenVersion' = tokenVersion
    BY <1>1, ResetsGrow
  <2>2. /\ \A c \in AuthCalls : Deliver(c) => UNCHANGED <<issued, attempts>>
        /\ Tick \/ UNCHANGED codes => UNCHANGED <<issued, attempts>>
    BY DEF Deliver, Tick, codes
  <2>3. \A c \in AuthCalls, typed \in Issued \cup {NoCode} : Compare(c, typed) => accepted' = accepted
    BY DEF Compare
  <2>4. UNCHANGED <<issued, attempts, accepted, callsOverlap>>
    BY <1>1, <2>2, <2>3, Frames
  <2>5. QED
    BY <2>1, <2>4 DEF Issued
<1>2. QED
  BY <1>1

\* Every step of the calls is a step of OneTimeCodes, or of nothing it knows.
LEMMA CodesImplemented ==
    ASSUME AuthInv, AcceptedInv, [AuthNext]_authVars
    PROVE  [Promise!Next]_(Promise!vars)
<1>0. CallTypes /\ CodeTypes /\ GivenTypes /\ CallInv /\ CodeInv /\ SerialInv
  BY DEF AuthInv, AuthTypeOK
<1>1. ASSUME NEW c \in AuthCalls, InsertCode(c) PROVE Promise!Issue(c)
  <2>1. at[c] = "insert"
    BY <1>1 DEF InsertCode
  <2>2. c \notin Issued
    BY <1>0, <2>1 DEF CodeInv, Asked
  <2>3. Issued' = Issued \cup {c}
    BY <1>0, <1>1, IssuedGrows DEF InsertCode, CodeTypes
  <2>4. UNCHANGED <<attempts, accepted, tokenVersion, callsOverlap>>
    BY <1>1 DEF InsertCode, user, past
  <2>5. ~ ResetPassword(c) /\ \A b \in AuthCalls : ~ ResetPassword(b)
    BY <1>1 DEF InsertCode, ResetPassword, codes
  <2>6. QED
    BY <2>2, <2>3, <2>4, <2>5, ResetsGrow DEF Promise!Issue
<1>2. ASSUME NEW c \in AuthCalls, CountAttempt(c) PROVE found[c] \in AuthCalls /\ Promise!Miss(found[c])
  <2>1. at[c] = "count" /\ attempts' = [attempts EXCEPT ![found[c]] = @ + 1]
    BY <1>2 DEF CountAttempt
  <2>2. found[c] \in Issued /\ found[c] \in AuthCalls
    BY <1>0, <2>1 DEF CallInv, Known, Holding, CodeTypes, Issued
  <2>3. ~callsOverlap => accepted[found[c]] = {} /\ attempts[found[c]] < MAX_ATTEMPTS
    BY <1>0, <2>1, <2>2 DEF SerialInv, StillSo, AttemptsLeft, CodeInv, Guessed
  <2>4. UNCHANGED <<issued, accepted, tokenVersion, callsOverlap>>
    BY <1>2 DEF CountAttempt, user, past
  <2>5. \A b \in AuthCalls : ~ ResetPassword(b)
    BY <2>1, <2>2, <1>0 DEF ResetPassword, codes, CodeTypes
  <2>6. Resets' = Resets
    BY <2>5, ResetsGrow
  <2>7. QED
    BY <2>1, <2>2, <2>3, <2>4, <2>6 DEF Promise!Miss, Promise!Open, Issued
<1>3. ASSUME NEW c \in AuthCalls, Consume(c) PROVE found[c] \in AuthCalls /\ Promise!Use(found[c], c)
  <2>1. at[c] = "consume" /\ accepted' = [accepted EXCEPT ![found[c]] = @ \cup {c}]
    BY <1>3 DEF Consume
  <2>2. found[c] \in Issued /\ found[c] \in AuthCalls
    BY <1>0, <2>1 DEF CallInv, Known, Holding, CodeTypes, Issued
  <2>3. ~callsOverlap => accepted[found[c]] = {} /\ attempts[found[c]] < MAX_ATTEMPTS
    BY <1>0, <2>1, <2>2 DEF SerialInv, StillSo, AttemptsLeft, CodeInv, Guessed
  <2>4. \A j \in AuthCalls : c \notin accepted[j]
    BY <2>1 DEF AcceptedInv
  <2>5. UNCHANGED <<issued, attempts, tokenVersion, callsOverlap>>
    BY <1>3 DEF Consume, user
  <2>6. \A b \in AuthCalls : ~ ResetPassword(b)
    BY <1>0, <2>1, <2>2, <2>4 DEF ResetPassword, past, GivenTypes
  <2>7. Resets' = Resets
    BY <2>6, ResetsGrow
  <2>8. QED
    BY <2>1, <2>2, <2>3, <2>4, <2>5, <2>7 DEF Promise!Use, Promise!Open, Issued
<1>4. ASSUME NEW c \in AuthCalls, ResetPassword(c) PROVE \E b \in AuthCalls : found[b] \in AuthCalls /\ Promise!Redeem(found[b], b)
  <2>1. PICK b \in AuthCalls : /\ ResetPassword(b) /\ b \notin Resets
                               /\ Resets' = Resets \cup {b} /\ tokenVersion' = tokenVersion + 1
    BY <1>4, ResetsGrow
  <2>2. found[b] \in AuthCalls /\ b \in accepted[found[b]]
    BY <1>0, <2>1 DEF ResetPassword, CallInv, Known, Holding, CodeTypes, Issued
  <2>3. UNCHANGED <<issued, attempts, accepted, callsOverlap>>
    BY <2>1 DEF ResetPassword, codes, past
  <2>4. QED
    BY <2>1, <2>2, <2>3 DEF Promise!Redeem, Issued
<1>5. ASSUME UNCHANGED <<Issued, attempts, accepted, Resets, tokenVersion, callsOverlap>>
      PROVE  UNCHANGED Promise!vars
  BY <1>5 DEF Promise!vars
<1>6. QED
  BY <1>1, <1>2, <1>3, <1>4, <1>5, CodeSteps DEF Promise!Next

\* The one-time codes of any number of overlapping calls behave as OneTimeCodes says.
THEOREM CodesAreOneTime == AuthSpec => ImplementsOneTimeCodes
<1>1. AuthInit => Promise!Init /\ AcceptedInv
  <2>1. ASSUME AuthInit PROVE Issued = {} /\ Resets = {}
    BY <2>1 DEF AuthInit, Issued, Resets
  <2>2. QED
    BY <2>1 DEF AuthInit, Promise!Init, AcceptedInv
<1>2. AuthInv /\ AcceptedInv /\ [AuthNext]_authVars => AcceptedInv' /\ [Promise!Next]_(Promise!vars)
  BY AcceptedKept, CodesImplemented
<1>3. QED
  BY <1>1, <1>2, AuthInvariant, PTL DEF AuthSpec, ImplementsOneTimeCodes, Promise!Spec
================================================================================
