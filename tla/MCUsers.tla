-------------------------------- MODULE MCUsers --------------------------------
(***************************************************************************)
(* The calls on one user side by side: those on the account                *)
(* (Authentication) and those on a seller's reviews and trust score        *)
(* (ReviewTrust).  They share no state: an initial state picks the part    *)
(* that runs, and the other stays as it began.                             *)
(***************************************************************************)
EXTENDS AuthenticationProps, ReviewTrustProps, TLC

CONSTANTS d1, r1, r2    \* a device, two reviews

VARIABLE part           \* the part that runs

A(kind, purpose, device, channel) ==
    [kind |-> kind, purpose |-> purpose, device |-> device, channel |-> channel]

\* On one device and on none
MCAsks ==
    {A("register", "LOGIN", NoDevice, NotGiven), A("login", "LOGIN", d1, NotGiven),
     A("me", "LOGIN", NoDevice, NotGiven),
     A("request", "PASSWORD_RESET", d1, NotGiven), A("confirm", "PASSWORD_RESET", d1, NotGiven),
     A("request", "LOGIN", NoDevice, "SMS"), A("verify", "LOGIN", NoDevice, "EMAIL")}

R(kind, r, rating, comment, status) ==
    [kind |-> kind, id |-> r, rating |-> rating, comment |-> comment, status |-> status]

\* A good review and a held one; edits of a text, a rating and a status; a removal
MCCalls ==
    {R("create", r1, 4, "profane", Omitted), R("create", r2, 5, Omitted, Omitted),
     R("update", r1, 0, "clean", Omitted), R("update", r2, 2, Omitted, Omitted),
     R("update", r1, 0, Omitted, "REJECTED"), R("remove", r2, 0, Omitted, Omitted)}
MCLabels == {"manual", Aggregate}

MCInit ==
    /\ part \in {"account", "reviews"}
    /\ AuthInit /\ (part # "account" => account = "absent" /\ phone /\ callsOverlap)
    /\ Init /\ (part # "reviews" => overlap)

MCNext ==
    \/ part = "account" /\ AuthNext /\ UNCHANGED <<part, vars>>
    \/ part = "reviews" /\ Next /\ UNCHANGED <<part, authVars>>

MCSpec == MCInit /\ [][MCNext]_<<part, authVars, vars>>

\* AuthCalls and Txns are the same three values
Symmetry == Permutations(AuthCalls)
================================================================================
