---------------------------- MODULE ApiContract ----------------------------
(***************************************************************************)
(* The typed client of the web and mobile apps                             *)
(* (packages/shared/src/api-client.ts), the schemas it reads the answers   *)
(* with (packages/shared/src/types.ts) and the routes and rows of the      *)
(* backend it talks to.  A value is known by its kind; a schema gives each *)
(* field the kinds it admits, the backend's rows the kinds it can hold.    *)
(*                                                                         *)
(* A call is sent, the backend carries it out or refuses it, and the       *)
(* client accepts the answer, or throws: after a refusal, after a lost     *)
(* answer, and when its schema does not admit the row.                     *)
(***************************************************************************)
EXTENDS FiniteSets, Naturals

VARIABLES
    gateway,    \* a gateway adds the backend's prefix to every path
    session,    \* whose token getAccessToken gives, "none" or "expired"
    call,       \* the call under way, or how the last one ended
    looseStored \* the stores that hold a row written from a loose body

contractVars == <<gateway, session, call, looseStored>>

Roles == {"BUYER", "SELLER", "ADMIN", "MODERATOR"}
Sessions == Roles \cup {"none", "expired"}

-----------------------------------------------------------------------------
(* Kinds of values.  z.string() admits every text, .uuid() and the like    *)
(* fewer; .optional() admits an absent field, .nullable() a null.          *)
Uuid == {"uuid"}
Email == {"email"}
Iso3 == {"iso3"}                       \* a text of three characters
Str == {"uuid", "email", "url", "iso3", "text"}
Date == {"date"}
Natural == {"natural"}
Number == {"natural", "negative"}
Json == {"json"}
Opt(kinds) == kinds \cup {"absent"}
(* .optional() written where the backend's column can hold a null.         *)
OptionalOnly(kinds) == kinds \cup {"absent"}
NullOpt(kinds) == kinds \cup {"null", "absent"}
OrNull(kinds) == kinds \cup {"null"}

ListingStatus == {"DRAFT", "PUBLISHED", "PAUSED"}
ListingVerdict == {"PENDING", "APPROVED", "REJECTED", "FLAGGED"}
OrderStatus == {"PENDING", "CONFIRMED", "PAID", "FULFILLED", "DELIVERED",
                "COMPLETED", "CANCELLED", "REFUNDED", "DISPUTED"}
PaymentStatus == {"PENDING", "AUTHORIZED", "CAPTURED", "SETTLED", "FAILED", "REFUNDED"}
ShipmentStatus == {"PENDING", "LABEL_CREATED", "IN_TRANSIT", "OUT_FOR_DELIVERY",
                   "DELIVERED", "RETURNED", "CANCELLED"}
EscrowStatus == {"HOLDING", "RELEASED", "REFUNDED", "DISPUTED"}
ReviewStatus == {"PENDING", "PUBLISHED", "REJECTED"}
MessageStatus == {"SENT", "DELIVERED", "READ", "DELETED"}
PartyRole == {"BUYER", "SELLER", "ADMIN", "SYSTEM"}
KycStatus == {"PENDING", "APPROVED", "REJECTED", "NOT_REQUIRED"}
DisputeStatus == {"OPEN", "UNDER_REVIEW", "RESOLVED", "ESCALATED"}

-----------------------------------------------------------------------------
(* The schemas the client reads answers with.  A nested object or list is  *)
(* a part of its own (Parts); z.object drops the fields it does not name.  *)
UserSchema == [id |-> Uuid, email |-> Email, name |-> NullOpt(Str), role |-> Roles]
AdminUserSchema == [id |-> Uuid, email |-> Email, name |-> NullOpt(Str)]
AuthSchema == [accessToken |-> Str, id |-> Uuid, email |-> Email,
               name |-> NullOpt(Str), role |-> Opt(Roles)]

VariantSchema == [
    id |-> Opt(Uuid), label |-> Str, priceCents |-> Natural, currency |-> Opt(Iso3),
    sku |-> NullOpt(Str), inventoryCount |-> NullOpt(Natural),
    metadata |-> NullOpt(Json), createdAt |-> Opt(Date), updatedAt |-> Opt(Date)]
ImageSchema == [
    id |-> Uuid, bucket |-> Opt(Str), storageKey |-> Opt(Str), url |-> Opt(Str),
    mimeType |-> NullOpt(Str), fileSize |-> NullOpt(Number), width |-> NullOpt(Number),
    height |-> NullOpt(Number), position |-> NullOpt(Number), createdAt |-> Opt(Date)]
ListingSchema == [
    id |-> Uuid, sellerId |-> Uuid, title |-> Str, description |-> Str,
    priceCents |-> Natural, currency |-> Iso3, status |-> ListingStatus,
    moderationStatus |-> Opt(Str \cup ListingVerdict), location |-> NullOpt(Str),
    metadata |-> NullOpt(Json), createdAt |-> Date, updatedAt |-> Date]
PageSchema == [total |-> Number, page |-> Number, pageSize |-> Number,
               pageCount |-> Number]

ItemSchema == [
    id |-> Uuid, listingId |-> Uuid, listingTitle |-> Str, variantId |-> NullOpt(Uuid),
    variantLabel |-> NullOpt(Str), quantity |-> Number, unitPriceCents |-> Number,
    currency |-> Str, metadata |-> NullOpt(Json)]
ShipmentSchema == [
    id |-> Uuid, carrier |-> NullOpt(Str), serviceLevel |-> NullOpt(Str),
    trackingNumber |-> NullOpt(Str), status |-> ShipmentStatus,
    shippedAt |-> NullOpt(Date), deliveredAt |-> NullOpt(Date)]
TimelineSchema == [id |-> Uuid, orderId |-> Uuid, status |-> OrderStatus,
                   note |-> NullOpt(Str), createdAt |-> Date]
PaymentSchema == [
    id |-> Uuid, orderId |-> Uuid, provider |-> Str, status |-> PaymentStatus,
    providerStatus |-> NullOpt(Str), amountCents |-> Number, currency |-> Str,
    providerRef |-> NullOpt(Str), metadata |-> NullOpt(Json),
    processedAt |-> NullOpt(Date), createdAt |-> NullOpt(Date)]
EscrowSchema == [id |-> Uuid, status |-> EscrowStatus, amountCents |-> Number,
                 currency |-> Str, releaseDate |-> NullOpt(Date)]
OrderSchema == [
    id |-> Uuid, orderNumber |-> Str, buyerId |-> Uuid, sellerId |-> Uuid,
    status |-> OrderStatus, paymentStatus |-> PaymentStatus, totalItemCents |-> Number,
    shippingCents |-> Number, feeCents |-> Number, currency |-> Str,
    metadata |-> NullOpt(Json), placedAt |-> NullOpt(Date)]

FlagSchema == [id |-> Uuid, reason |-> Str, notes |-> NullOpt(Str), createdAt |-> Date]
ReviewSchema == [
    id |-> Uuid, reviewerId |-> Uuid, recipientId |-> Uuid, listingId |-> Uuid,
    orderId |-> Uuid, rating |-> Number, comment |-> NullOpt(Str),
    status |-> ReviewStatus, moderationNotes |-> NullOpt(Str),
    createdAt |-> Date, updatedAt |-> Date]
RollupSchema == [
    sellerId |-> Uuid, averageRating |-> Number, reviewCount |-> Number,
    publishedCount |-> Number, pendingCount |-> Number, flaggedCount |-> Number,
    lastReviewAt |-> NullOpt(Date)]

AttachmentSchema == [
    id |-> Uuid, url |-> {"url"}, fileName |-> Str, mimeType |-> NullOpt(Str),
    fileSize |-> NullOpt(Number), metadata |-> NullOpt(Json)]
ReceiptSchema == [id |-> Uuid, userId |-> Uuid, deliveredAt |-> NullOpt(Date),
                  readAt |-> NullOpt(Date)]
MessageSchema == [
    id |-> Uuid, threadId |-> Uuid, authorId |-> Uuid, body |-> Str,
    status |-> Opt(MessageStatus), moderationStatus |-> Opt(ListingVerdict),
    moderationNotes |-> NullOpt(Str), metadata |-> NullOpt(Json), createdAt |-> Date]
ParticipantSchema == [id |-> Uuid, threadId |-> Uuid, userId |-> Uuid,
                      role |-> Opt(PartyRole)]
ThreadSchema == [id |-> Uuid, listingId |-> NullOpt(Uuid), subject |-> NullOpt(Str),
                 metadata |-> NullOpt(Json), createdAt |-> Date]

DocumentSchema == [
    id |-> Uuid, submissionId |-> Uuid, type |-> Str, status |-> KycStatus,
    url |-> NullOpt(Str), createdAt |-> Opt(Date), metadata |-> NullOpt(Json)]
SubmissionSchema == [
    id |-> Uuid, userId |-> Uuid, reviewerId |-> NullOpt(Uuid), status |-> KycStatus,
    rejectionReason |-> NullOpt(Str), submittedAt |-> Date, reviewedAt |-> NullOpt(Date)]
ModerationSchema == [
    id |-> Uuid, sellerId |-> Uuid, title |-> Str, status |-> ListingStatus,
    moderationStatus |-> ListingVerdict, moderationNotes |-> NullOpt(Str),
    createdAt |-> Date, updatedAt |-> Date]
DisputeSchema == [
    id |-> Uuid, escrowId |-> Uuid, orderId |-> Opt(Uuid), orderNumber |-> Opt(Str),
    status |-> DisputeStatus, reason |-> Str, resolution |-> NullOpt(Str),
    openedAt |-> Date, resolvedAt |-> NullOpt(Date), amountCents |-> Opt(Natural),
    currency |-> Opt(Iso3), messageCount |-> Opt(Natural)]

Schema == [
    auth |-> AuthSchema, user |-> UserSchema, adminUser |-> AdminUserSchema,
    listing |-> ListingSchema, variant |-> VariantSchema, image |-> ImageSchema,
    page |-> PageSchema, order |-> OrderSchema, item |-> ItemSchema,
    shipment |-> ShipmentSchema, timeline |-> TimelineSchema, payment |-> PaymentSchema,
    escrow |-> EscrowSchema, review |-> ReviewSchema, flag |-> FlagSchema,
    rollup |-> RollupSchema, thread |-> ThreadSchema, participant |-> ParticipantSchema,
    message |-> MessageSchema, attachment |-> AttachmentSchema, receipt |-> ReceiptSchema,
    submission |-> SubmissionSchema, document |-> DocumentSchema,
    moderation |-> ModerationSchema, dispute |-> DisputeSchema]

-----------------------------------------------------------------------------
(* What the backend answers with: the columns of the rows its serializers  *)
(* spread, for rows written from bodies the shared schemas admit, which    *)
(* LooseCells adds to.                                                     *)
AccountFields == [id |-> Uuid, email |-> Email, name |-> Str, role |-> Roles]
AuthRow == [accessToken |-> {"text"}, id |-> Uuid, email |-> Email, name |-> Str,
            role |-> Roles]

VariantRow == [
    id |-> Uuid, label |-> Str, priceCents |-> Natural, currency |-> Iso3,
    sku |-> OrNull(Str), inventoryCount |-> Natural, metadata |-> OrNull(Json),
    createdAt |-> Date, updatedAt |-> Date]
ImageRow == [
    id |-> Uuid, bucket |-> Str, storageKey |-> Str, url |-> {"url"},
    mimeType |-> OrNull(Str), fileSize |-> OrNull(Natural), width |-> OrNull(Natural),
    height |-> OrNull(Natural), position |-> Natural, createdAt |-> Date]
ListingRow == [
    id |-> Uuid, sellerId |-> Uuid, title |-> Str, description |-> Str,
    priceCents |-> Natural, currency |-> Iso3, status |-> ListingStatus,
    moderationStatus |-> ListingVerdict, location |-> OrNull(Str),
    metadata |-> OrNull(Json), createdAt |-> Date, updatedAt |-> Date]

(* No DTO of the backend is a schema the global pipe knows, so bodies are  *)
(* stored as they come, by store what a client can put into one that its   *)
(* own schemas refuse: the listing form asks for a currency that is not    *)
(* blank and prices that are numbers, and an order, with its dispute, takes *)
(* both from the listing; the sign-up form for an address that a browser   *)
(* accepts, user@localhost among them; and sendMessage puts metadata beside *)
(* attachments into a form, as a text.                                     *)
LooseCells == [
    listing |-> {<<"listing", "currency", "text">>, <<"listing", "priceCents", "negative">>,
                 <<"variant", "currency", "text">>, <<"variant", "priceCents", "negative">>,
                 <<"dispute", "currency", "text">>, <<"dispute", "amountCents", "negative">>},
    account |-> {<<p, "email", "text">> : p \in {"auth", "user", "adminUser"}},
    message |-> {<<"message", "metadata", "text">>}]
Stores == DOMAIN LooseCells

(* The same pipe leaves `page` the text of the query string; the page size *)
(* goes through Math.min.                                                  *)
PageRow == [total |-> Natural, page |-> {"text"}, pageSize |-> Natural,
            pageCount |-> Natural]

ItemRow == [
    id |-> Uuid, listingId |-> Uuid, listingTitle |-> Str, variantId |-> OrNull(Uuid),
    variantLabel |-> OrNull(Str), quantity |-> Natural, unitPriceCents |-> Natural,
    currency |-> Str, metadata |-> OrNull(Json)]
ShipmentRow == [
    id |-> Uuid, carrier |-> OrNull(Str), serviceLevel |-> OrNull(Str),
    trackingNumber |-> OrNull(Str), status |-> ShipmentStatus,
    shippedAt |-> OrNull(Date), deliveredAt |-> OrNull(Date)]
TimelineRow == [id |-> Uuid, orderId |-> Uuid, status |-> OrderStatus,
                note |-> OrNull(Str), createdAt |-> Date]
PaymentRow == [
    id |-> Uuid, orderId |-> Uuid, provider |-> {"text"}, status |-> PaymentStatus,
    providerStatus |-> OrNull(Str), amountCents |-> Natural, currency |-> Str,
    providerRef |-> OrNull(Str), metadata |-> OrNull(Json),
    processedAt |-> OrNull(Date), createdAt |-> Date]
EscrowRow == [id |-> Uuid, status |-> EscrowStatus, amountCents |-> Natural,
              currency |-> Str]
OrderRow == [
    id |-> Uuid, orderNumber |-> {"text"}, buyerId |-> Uuid, sellerId |-> Uuid,
    status |-> OrderStatus, paymentStatus |-> PaymentStatus, totalItemCents |-> Natural,
    shippingCents |-> Natural, feeCents |-> Natural, currency |-> Iso3,
    metadata |-> OrNull(Json), placedAt |-> OrNull(Date)]

FlagRow == [id |-> Uuid, reason |-> Str, notes |-> OrNull(Str), createdAt |-> Date]
ReviewRow == [
    id |-> Uuid, reviewerId |-> Uuid, recipientId |-> Uuid, listingId |-> Uuid,
    orderId |-> Uuid, rating |-> Natural, comment |-> OrNull(Str),
    status |-> ReviewStatus, moderationNotes |-> OrNull(Str),
    createdAt |-> Date, updatedAt |-> Date]
RollupRow == [
    sellerId |-> Uuid, averageRating |-> Natural, reviewCount |-> Natural,
    publishedCount |-> Natural, pendingCount |-> Natural, flaggedCount |-> Natural,
    lastReviewAt |-> OrNull(Date)]

AttachmentRow == [
    id |-> Uuid, url |-> {"url"}, fileName |-> Str, mimeType |-> OrNull(Str),
    fileSize |-> OrNull(Natural), metadata |-> OrNull(Json)]
ReceiptRow == [id |-> Uuid, userId |-> Uuid, deliveredAt |-> OrNull(Date),
               readAt |-> OrNull(Date)]
MessageRow == [
    id |-> Uuid, threadId |-> Uuid, authorId |-> Uuid, body |-> Str,
    status |-> MessageStatus, moderationStatus |-> ListingVerdict,
    moderationNotes |-> OrNull(Str), metadata |-> OrNull(Json), createdAt |-> Date]
ParticipantRow == [id |-> Uuid, threadId |-> Uuid, userId |-> Uuid, role |-> PartyRole]
ThreadRow == [id |-> Uuid, listingId |-> OrNull(Uuid), subject |-> OrNull(Str),
              metadata |-> OrNull(Json), createdAt |-> Date]

(* The admin service builds its answers field by field.                    *)
AdminUserRow == [id |-> Uuid, email |-> Email, name |-> Str]
SubmissionRow == [
    id |-> Uuid, userId |-> Uuid, reviewerId |-> Opt(Uuid), status |-> KycStatus,
    rejectionReason |-> OrNull(Str), submittedAt |-> Date, reviewedAt |-> OrNull(Date)]
DocumentRow == [
    id |-> Uuid, submissionId |-> Uuid, type |-> Str, status |-> KycStatus,
    url |-> OrNull(Str), createdAt |-> Date, metadata |-> OrNull(Json)]
ModerationRow == [
    id |-> Uuid, sellerId |-> Uuid, title |-> Str, status |-> ListingStatus,
    moderationStatus |-> ListingVerdict, moderationNotes |-> OrNull(Str),
    createdAt |-> Date, updatedAt |-> Date]
DisputeRow == [
    id |-> Uuid, escrowId |-> Uuid, orderId |-> Uuid, orderNumber |-> {"text"},
    status |-> DisputeStatus, reason |-> Str, resolution |-> OrNull(Str),
    openedAt |-> Date, resolvedAt |-> OrNull(Date), amountCents |-> Natural,
    currency |-> Iso3, messageCount |-> Natural]

Row == [
    auth |-> AuthRow, user |-> AccountFields, adminUser |-> AdminUserRow,
    listing |-> ListingRow, variant |-> VariantRow, image |-> ImageRow,
    page |-> PageRow, order |-> OrderRow, item |-> ItemRow,
    shipment |-> ShipmentRow, timeline |-> TimelineRow, payment |-> PaymentRow,
    escrow |-> EscrowRow, review |-> ReviewRow, flag |-> FlagRow,
    rollup |-> RollupRow, thread |-> ThreadRow, participant |-> ParticipantRow,
    message |-> MessageRow, attachment |-> AttachmentRow, receipt |-> ReceiptRow,
    submission |-> SubmissionRow, document |-> DocumentRow,
    moderation |-> ModerationRow, dispute |-> DisputeRow]

(* The parts of an answer: the object itself and what is nested in it.     *)
OrderParts == {"order", "item", "shipment", "timeline", "payment", "escrow"}
ThreadParts == {"thread", "participant", "message", "attachment", "receipt"}
ListingParts == {"listing", "variant", "image"}
Parts == [
    auth |-> {"auth"}, listing |-> ListingParts, search |-> ListingParts \cup {"page"},
    order |-> OrderParts, thread |-> ThreadParts,
    review |-> {"review", "flag", "user"}, rollup |-> {"rollup"},
    reviews |-> {"review", "flag", "user", "rollup"},
    submission |-> {"submission", "document", "adminUser"},
    moderation |-> {"moderation"}, dispute |-> {"dispute", "adminUser"},
    unread |-> {}]

-----------------------------------------------------------------------------
(* The client's methods: the verb and path of each, whether it sends the   *)
(* token, and the schema it reads the answer with.                         *)
Method(verb, path, auth, answer) ==
    [verb |-> verb, path |-> path, auth |-> auth, answer |-> answer]

AuthMethods == [
    login |-> Method("POST", "auth/login", FALSE, "auth"),
    register |-> Method("POST", "auth/register", FALSE, "auth"),
    me |-> Method("GET", "auth/me", TRUE, "auth")]
ListingMethods == [
    searchListings |-> Method("GET", "listings/search", FALSE, "search"),
    getListing |-> Method("GET", "listings/:id", FALSE, "listing"),
    createListing |-> Method("POST", "listings", TRUE, "listing"),
    updateListing |-> Method("PATCH", "listings/:id", TRUE, "listing"),
    uploadImage |-> Method("POST", "listings/:id/images", TRUE, "unread")]
OrderMethods == [
    listOrders |-> Method("GET", "orders", TRUE, "order"),
    getOrder |-> Method("GET", "orders/:id", TRUE, "order"),
    createOrder |-> Method("POST", "orders", TRUE, "order"),
    updateStatus |-> Method("PATCH", "orders/:id/status", TRUE, "order")]
ReviewMethods == [
    forListing |-> Method("GET", "reviews", FALSE, "reviews"),
    createReview |-> Method("POST", "reviews", TRUE, "review"),
    rollupOf |-> Method("GET", "reviews/seller/:id/rollup", FALSE, "rollup")]
MessagingMethods == [
    listThreads |-> Method("GET", "messages/threads", TRUE, "thread"),
    getThread |-> Method("GET", "messages/threads/:id", TRUE, "thread"),
    createThread |-> Method("POST", "messages/threads", TRUE, "thread"),
    sendMessage |-> Method("POST", "messages/threads/:id/messages", TRUE, "thread")]
NotificationMethods == [
    registerExpoPushToken |-> Method("POST", "notifications/expo-token", TRUE, "unread")]
AdminMethods == [
    listKycSubmissions |-> Method("GET", "admin/kyc/submissions", TRUE, "submission"),
    reviewKycSubmission |-> Method("PATCH", "admin/kyc/submissions/:id", TRUE, "submission"),
    listListingsForReview |-> Method("GET", "admin/moderations/listings", TRUE, "moderation"),
    reviewListing |-> Method("PATCH", "admin/moderations/listings/:id", TRUE, "moderation"),
    listDisputes |-> Method("GET", "admin/disputes", TRUE, "dispute"),
    resolveDispute |-> Method("PATCH", "admin/disputes/:id", TRUE, "dispute")]

Methods ==
    LET groups == {AuthMethods, ListingMethods, OrderMethods, ReviewMethods,
                   MessagingMethods, NotificationMethods, AdminMethods}
    IN  [name \in UNION {DOMAIN g : g \in groups} |->
            (CHOOSE g \in groups : name \in DOMAIN g)[name]]

(* The backend's routes of those paths, and who may use them: the          *)
(* controllers of listings, orders, reviews and messages have no guard.    *)
Route(verb, path) == <<verb, path>>
(* The review controller without the prefix of its rollup route.           *)
ReviewRoutesMoved == {
    Route("GET", "reviews"), Route("POST", "reviews"),
    Route("GET", "seller/:id/rollup")}
AuthRoutes == {Route("POST", "auth/login"), Route("POST", "auth/register")}
ListingRoutes == {
    Route("GET", "listings/search"), Route("GET", "listings/:id"),
    Route("POST", "listings"), Route("PATCH", "listings/:id"),
    Route("POST", "listings/:id/images")}
OrderRoutes == {
    Route("GET", "orders"), Route("GET", "orders/:id"), Route("POST", "orders"),
    Route("PATCH", "orders/:id/status")}
ReviewRoutes == {
    Route("GET", "reviews"), Route("POST", "reviews"),
    Route("GET", "reviews/seller/:id/rollup")}
MessageRoutes == {
    Route("GET", "messages/threads"), Route("GET", "messages/threads/:id"),
    Route("POST", "messages/threads"), Route("POST", "messages/threads/:id/messages")}
AdminRoutes == {
    Route("GET", "admin/kyc/submissions"), Route("GET", "admin/moderations/listings"),
    Route("GET", "admin/disputes")}
SignedInRoutes == {Route("GET", "auth/me")}
OpenRoutes == AuthRoutes \cup ListingRoutes \cup OrderRoutes \cup ReviewRoutes
              \cup MessageRoutes

(* new URL(path, base) with a path that starts with a slash keeps nothing  *)
(* of the base but its origin: the backend's prefix api/v1 is lost, unless *)
(* something between adds it.                                              *)
Reached(m) ==
    /\ gateway
    /\ Route(m.verb, m.path) \in OpenRoutes \cup SignedInRoutes \cup AdminRoutes

(* JwtAuthGuard, and RolesGuard with @Roles('ADMIN') on the admin routes.  *)
Permitted(m, token) ==
    CASE Route(m.verb, m.path) \in SignedInRoutes -> token \in Roles
      [] Route(m.verb, m.path) \in AdminRoutes    -> token = "ADMIN"
      [] OTHER                                    -> TRUE

(* The stores a method's body is written to that can come to hold one.     *)
StoresOf(name) ==
    CASE name \in {"createListing", "updateListing"} -> {"listing"}
      [] name = "register"                           -> {"account"}
      [] name = "sendMessage"                        -> {"message"}
      [] OTHER                                       -> {}

-----------------------------------------------------------------------------
(* A cell is a part, one of its fields and the kind of value it holds.     *)
Column(p, f) == IF f \in DOMAIN Row[p] THEN Row[p][f] ELSE {"absent"}
CellsOf(answer) ==
    UNION {UNION {{<<p, f, kind>> : kind \in Column(p, f)} : f \in DOMAIN Schema[p]} :
           p \in Parts[answer]}
LooseCellsOf(answer) ==
    {c \in UNION {LooseCells[store] : store \in looseStored} : c[1] \in Parts[answer]}

Admitted(cell) == cell[3] \in Schema[cell[1]][cell[2]]

(* Whether the schema admits one cell or another of an answer.             *)
Readings(answer) == {Admitted(cell) : cell \in CellsOf(answer) \cup LooseCellsOf(answer)}

(* A field none of whose kinds is admitted makes every answer unreadable.  *)
Readable(answer) ==
    \A p \in Parts[answer] : \A f \in DOMAIN Schema[p] : Column(p, f) \cap Schema[p][f] # {}

NoCall == [name |-> "none", token |-> "none", body |-> "strict", stage |-> "ended",
           outcome |-> "none"]

(* What is left of a call that ended.                                      *)
Ended(name, outcome) == [NoCall EXCEPT !.name = name, !.outcome = outcome]

ContractInit ==
    /\ gateway \in BOOLEAN
    /\ session = "none"
    /\ call = NoCall
    /\ looseStored \in SUBSET Stores    \* by others

(* The session changes at any time, also while a call is under way.        *)
SessionChanges(s) ==
    /\ session' = s /\ s # session
    /\ UNCHANGED <<gateway, call, looseStored>>

(* Two methods parse what they are given before they send it.              *)
ParsesFirst == {"searchListings", "createReview"}

Send(name, body) ==
    /\ call.stage = "ended"
    /\ LET checked == name \in ParsesFirst /\ body = "loose"
       IN  call' = IF checked THEN Ended(name, "rejected")
                   ELSE [name |-> name, body |-> body,
                         token |-> IF Methods[name].auth THEN session ELSE "none",
                         stage |-> "sent", outcome |-> "none"]
    /\ UNCHANGED <<gateway, session, looseStored>>

End(outcome) == call' = Ended(call.name, outcome)

(* The backend carries the call out ...                                    *)
Handle ==
    /\ call.stage = "sent"
    /\ LET m == Methods[call.name]
       IN  /\ Reached(m) /\ Permitted(m, call.token)
           /\ looseStored' = looseStored \cup (IF call.body = "loose" THEN StoresOf(call.name) ELSE {})
    /\ call' = [call EXCEPT !.stage = "handled"]
    /\ UNCHANGED <<gateway, session>>

(* ... or answers with an error, which request throws as an ApiError: no   *)
(* such route, no permission, or a reason of the handler's own.            *)
Refuse(reason) ==
    /\ call.stage = "sent"
    /\ LET m == Methods[call.name]
       IN  reason = CASE ~Reached(m)                -> "no route"
                      [] ~Permitted(m, call.token) -> "forbidden"
                      [] OTHER                     -> "refused"
    /\ End(reason)
    /\ UNCHANGED <<gateway, session, looseStored>>

(* fetch throws: the request or its answer is lost.                        *)
Lose ==
    /\ call.stage \in {"sent", "handled"}
    /\ End("lost")
    /\ UNCHANGED <<gateway, session, looseStored>>

(* The answer comes and the client's schema reads it, or parse throws.     *)
Answer(admitted) ==
    /\ call.stage = "handled"
    /\ End(IF admitted /\ Readable(Methods[call.name].answer)
           THEN "value" ELSE "unparsed")
    /\ UNCHANGED <<gateway, session, looseStored>>

(* uploadImage and the push token: the answer is taken as it is.           *)
TakeAnswer ==
    /\ call.stage = "handled" /\ Methods[call.name].answer = "unread"
    /\ End("value")
    /\ UNCHANGED <<gateway, session, looseStored>>

ContractNext ==
    \/ \E s \in Sessions : SessionChanges(s)
    \/ \E name \in DOMAIN Methods, body \in {"strict", "loose"} : Send(name, body)
    \/ Handle
    \/ \E reason \in {"no route", "forbidden", "refused"} : Refuse(reason)
    \/ Lose
    \/ /\ call.stage = "handled"
       /\ \E admitted \in Readings(Methods[call.name].answer) : Answer(admitted)
    \/ TakeAnswer
-----------------------------------------------------------------------------
(* A call ends without a readable answer only for a reason: the search,    *)
(* whose page number comes back as a text, or an answer with a part that a *)
(* body nobody checked was stored in.  Behind a gateway every method has   *)
(* its route, but for the push token and the decisions of the admin        *)
(* console.                                                                *)
CallsAreUnderstood ==
    /\ call.outcome = "unparsed" =>
          call.name = "searchListings" \/ LooseCellsOf(Methods[call.name].answer) # {}
    /\ gateway /\ call.outcome = "no route" =>
          call.name \in {"registerExpoPushToken", "reviewKycSubmission",
                        "reviewListing", "resolveDispute"}
=============================================================================
