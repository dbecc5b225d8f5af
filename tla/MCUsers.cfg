\* Three calls on an account, or three on reviews beside an admin's
SPECIFICATION MCSpec
CONSTANTS
    d1 = d1
    r1 = r1
    r2 = r2
    AuthCalls = {c1, c2, c3}
    Devices = {d1}
    NoDevice = NoDevice
    NoCode = NoCode
    Asks <- MCAsks
    OTP_TTL = 1
    OTP_COOLDOWN = 1
    OTP_DEVICE_RATE_WINDOW = 1
    OTP_DEVICE_RATE_LIMIT = 1
    MAX_ATTEMPTS = 1
    Reviews = {r1, r2}
    Calls <- MCCalls
    Labels <- MCLabels
    Txns = {c1, c2, c3}
    Admins = {a1}
SYMMETRY Symmetry
PROPERTIES ImplementsOneTimeCodes
INVARIANTS ResetsSpendCodes GuessesAreCounted InferredChannelsAgree SerialAuth
    HeldIsFlagged OneReviewSeed ScoreFollowsRollup SerialConsistent NoCircularWait
CHECK_DEADLOCK FALSE
