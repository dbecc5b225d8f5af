# A verification project for forumo

forumo is a marketplace: a NestJS backend over PostgreSQL (Prisma) and Redis
(BullMQ), a Python moderation service, a Next.js web client and a mobile client.
The backend carries most of the program's own logic (`src/apps/backend/src/modules`); this
directory models the parts whose correctness depends on order: overlapping
requests, transactions, webhooks, queue workers and retries in the backend, and answers
that come late, out of order or not at all in the clients.

All paths below are relative to `src/`; `apps/backend/src/modules/` is shortened to
`modules/`.

## The system

| Component | State | Operations | Talks to |
|---|---|---|---|
| Orders and escrow (`modules/orders/orders.service.ts`, `orders.controller.ts`) | `Order`, `OrderTimelineEvent`, `EscrowHolding`, `EscrowTransaction`, `PaymentTransaction` rows | `create`, `updateStatus` (PATCH, release, refund), `updateStatusFromProvider` | Stripe (PaymentIntent), payments service inside its transactions |
| Payments (`payments.service.ts`, `payments.controller.ts`) | `WebhookEvent` records, `PaymentTransaction` | the Stripe webhook | orders service, rate limiter, audit log |
| Listings (`modules/listings/listings.service.ts`) | `Listing`, variants, images | `create`, `update`, `attachImage`, `softDelete` | moderation queue, storage |
| Listing moderation queue (`moderation-queue.service.ts`) | BullMQ jobs, dead-letter queue, `ListingModerationEvent` | enqueue, process, retry, give up | moderation service over HTTP |
| Moderation service (`apps/moderation`) | counters | `score_listing` | none |
| Listing search (`search.service.ts`) | result cache | `search` | PostgreSQL |
| Messaging (`modules/messaging`) | threads, messages, receipts, thread cache | create thread, send, mark delivered and read | message moderation, Socket.IO |
| Reviews, trust score (`modules/reviews`, `modules/users`) | reviews, `SellerReviewRollup`, `TrustScoreSeed`, `User.trustScore` | create, update, remove, recalculate | each other |
| Authentication (`modules/auth`) | OTP codes, device sessions, `tokenVersion` | register, login, OTP, password reset | OTP delivery, rate limiter |
| Cache (`common/services/cache.service.ts`) | entries in memory, each with its expiry | `get`, `set` | search, list of threads |
| Rate limit (`common/services/rate-limit.service.ts`) | fixed windows in memory | `enforce` | auth, webhook |
| Web client's thread page (`apps/web/src/app/messages/[threadId]`) | what it has fetched, its socket | fetch, acknowledge | messaging |
| Shared API client (`packages/shared/src/api-client.ts`, `types.ts`) | base address, a token's getter | a method per route, its answer's schema | every controller |
| Mock API (`apps/web/src/lib/api-client.ts`) | one state per tab, in memory and in `sessionStorage`, and one on the Next.js server | the client's methods | web pages, server actions |
| Web sign-in (`apps/web/src/app/login`, `signup`, `lib/auth.ts`) | forms, `localStorage`, session cookie | sign in, sign up, sign out | API twice per sign-in, NextAuth |
| Listing form (`apps/web/src/app/listings/_components/listing-form.tsx`) | fields, variants, files, message | edit, submit | listings, image uploads |
| Query cache (`apps/web/src/lib/react-query/hooks.ts`) | an entry per query | queries, mutations, invalidation | API, the pages |
| Mobile app (`apps/mobile/src`) | user, discovery list, inbox, thread | search, sign in, demo account, reply | API |
| Storage, admin, health, observability | none that feeds back | I/O, lists, probes | API |

Auctions, inventory, notifications, KYC, disputes and the outbox exist in the schema
and the documents only; no code changes their rows.

What is hard here: PostgreSQL's READ COMMITTED snapshots that go stale inside an
open transaction; checks made before a transaction or an `await`; Stripe's
at-least-once, unordered delivery; queue jobs that carry a decision about a listing
that has changed; aggregates recomputed outside the transaction that changed their
rows; one-time codes checked and consumed in two steps; React closures that are older than
what the screen shows; forms and caches that are between two calls. `PROJECT.json` lists each
hazard at its line.

## Plan

1. **Orders, escrow, webhook** (money): `EscrowLedger` (the promise), `OrderEscrow`,
   `StripeWebhook` composed with it; proofs. Done.
2. **Listing publication**: `ListingModeration` with the queue, its workers, retries and
   dead letters; proofs. Done.
3. **Messaging**: `Messaging`: moderation before delivery, receipts, status refresh, the
   web client that acknowledges; proofs. Done, but for the list of threads.
4. **Reviews and trust**: `ReviewTrust`: rollup, seed and score under concurrency; proofs.
   Done.
5. **Authentication**: `Authentication`: single use and attempts of codes, reset against
   tokens and sessions; proofs. Done.
6. **Search**: `ListingSearch`: pages and cache over listings that change; proofs. Done.
7. **Clients**: `ApiContract`, `MockApi`, `MobileDiscovery`, `MobileMessaging`, `WebSession`,
   `ListingForm`, `QueryCache`, put side by side by `Clients`; proofs. Done.
8. Left: the list of threads and its cache beside `Messaging`; the admin console.

## Modules

### EscrowLedger

The promise of the escrow without requests or locks. Per order a holding status and
a ledger; `Hold` once, then `Move` with its entry. With `Idempotent = TRUE` a
movement to where the money already is does not happen.

### OrderEscrow

`OrdersService.create` and `updateStatus` with the payment calls inside their
transactions. A request's transaction is modelled statement by statement:

| Action | Code |
|---|---|
| `MintIntent`, `CommitCreate`, `RollbackCreate` | the create transaction: Stripe is called inside it, so an intent survives a rollback |
| `Begin`, `BeginMissing` | `$transaction` takes a connection, `findUnique` reads the order with its escrow (`seen`) or throws |
| `MarkPayment` | `markPaymentCaptured`/`Refunded`: `updateMany` locks the payment row |
| `SkipHolding`, `InsertHolding`, `InsertConflict` | `ensureEscrowHolding` and the unique key on `orderId` |
| `ReadEscrow`, `SettleEscrow` | `handleEscrowRelease`/`Refund`: `order.escrow ?? findUnique`, the early return, the update and the ledger entry |
| `UpdateOrder`, `Commit`, `Rollback` | `order.update`, COMMIT, or an error, timeout or crash |

A SELECT sees committed rows and takes no lock; an UPDATE or INSERT holds its row
until the end; writes are visible at COMMIT. Foreign-key checks take no lock that
conflicts with these updates. Line items, prices, notes and provider texts are left
out: no branch of `updateStatus` reads them. `ensurePaymentTransaction` never inserts,
because `create` always commits a payment row with its order and nothing deletes it.

`OrderEscrowProps` states the properties and the invariants they rest on.

### Publication, OneTimeCodes, MessageReceipts

Three more promises in the manner of `EscrowLedger`, each without the requests, jobs,
statements and handlers that keep it:

- `Publication`: a listing's status and moderation state, and the statuses asked for by what
  is still under way. No change makes a listing public (`Revise`); only `Approve` does, with a
  status somebody still asks for; `Refuse` pauses.
- `OneTimeCodes`: each reset of the password follows one use of an issued code (`Use`,
  `Redeem`) and ends the tokens before it; where callers take turns a code is used once and
  not after too many misses (`Open`).
- `MessageReceipts`: the marks of a message's recipients come one by one and stay, and the status
  shown is one the marks have earned; with `exact`, the one they say.

`ListingModeration`, `Authentication` and `Messaging` implement them (`ImplementsPublication`,
`ImplementsOneTimeCodes`, `ImplementsReceipts`). The first holds under `NoBlindStatus`, below.

### StripeWebhook

Extends `OrderEscrow`: deliveries are requests that first walk through
`handleStripeWebhook` and `updateStatusFromProvider`. Stripe (external) emits events
along a payment's life, delivers each any number of times in any order, and retries
what was not answered 2xx. `Post` is an event that is not Stripe's: `validateStripeEvent` takes
a body without a signature as it is, and `confirmPayment` and `cancelPayment` of the orders page
post such bodies, so an order can be PAID, and its money HELD, with nothing collected.
`HeldMoneyHasASource` therefore says less than "held money was collected": that Stripe collected
it, or that a request of the API or a posted body said of that very order that it is paid.
`Throw` is any failing statement inside the `try`, `Refuse`
everything that ends the delivery without a 2xx: rate limit, bad signature, crash.
Requests of the API run beside it.

### ListingModeration

`ListingsService` and `ModerationQueueService` over one set of rows. A request makes its
statements one by one, a job likewise, and no two statements share a transaction.

| Action | Code |
|---|---|
| `CreateRow` | `create`: the row, paused if it is to be public, and its variants |
| `ReadForUpdate`, `UpdateRow` | `update`: `current` is read, then the row is written by what was read |
| `ReadForImage`, `HoldForImage`, `StoreImage` | `attachImage`: back to PENDING, the file, the image row |
| `Enqueue`, `FailRequest` | `enqueueListingScan`, the last step of each; any statement may fail, what is written stays |
| `SoftDelete` | `softDelete`; jobs still find the row |
| `ReadListing` | `processJob` up to the POST: the verdict depends on what is read here |
| `ApplyDecision`, `RecordDecision` | `applyDecision`: the row, then the event |
| `FailAttempt` | `processJob` throws: again after a backoff, or the last attempt |
| `Stall` | BullMQ (external): a job whose worker died runs again once, then fails with attempts left |
| `FlagForManualReview`, `RecordFlag`, `LoseHandler` | the `failed` handler: dead letter and flag, the event, or neither |

A text is one of three: clean, with a flagged keyword (`sensitive`), with a banned one;
that is all `score_listing` (`Verdict`) tells apart, beside an image of a flagged type.
`RequiresRemoderation` keeps the chain of `??` over the fields in its order: the first of title,
description, price and metadata that is given (`first`), then the location, the status and the
variants, each of which may be empty, since no pipe runs the DTO's validators (`main.ts`
installs nestjs-zod's only). `metadata: null` counts as not given and is written all the same, which is
a `text` behind `first = Absent`. Jobs run in any order: a retry that waits lets others pass.

`ListingModerationProps` states the properties. With one worker a listing that has come
to rest carries the verdict on what it says now (`SettledIsScored`), although decisions
are applied late. With two, only the weaker ones hold: nothing rejected or flagged
is public, only approvals publish, the history is complete. Several of them assume
`NoBlindStatus`, no update slips a status past `requiresRemoderation`; `SettledIsScored` and
`SerialPublicIsScored` assume `NoBlindText` as well, no update slips what the listing says
past it: `{title: '', description: ...}` changes the text of a public listing with no scan, so
both are false of such updates even with one worker and no overlap.

### ReviewTrust

`ReviewsService` and the trust seeds of `UsersService` on one seller. Sums are kept as the
set that is summed (a rollup holds the reviews it counts, a score the seeds it adds), so
that a lost or doubled summand shows.

| Action | Code |
|---|---|
| `Start` | `create`, or the `findUnique` of `update` and `remove` before their transaction |
| `DropFlags`, `WriteReview` | `reviewFlag.deleteMany`, then the review with the flags that `evaluate` gives its text (`NewRow`, `NewFlags`) |
| `CountReviews` | the four aggregates of `refreshRollups`, four statements |
| `Upsert` | `sellerReviewRollup.upsert`: holds the rollup's row until the commit |
| `FindSeed`, `ReplaceSeed` | `syncTrustSeed`: delete, update the one found, or create |
| `SumSeeds`, `Commit` | `recalculateTrustScore` and the end of the transaction |
| `Rollback`, `MustFail` | an error or timeout; the row to update or delete is gone |
| `CreateTrustSeed`, `DeleteTrustSeed`, `AdminSum`, `AdminWrite`, `AdminFail` | `UsersService`: three statements, no transaction |

`overlap` is chosen at the start and says whether calls ever overlap; what holds only
without is stated under `~overlap`. With overlap the rollup can miss a review for good (two
transactions count before either commits), so only what follows from the rollup is
claimed then. The model also shows that `update` without a status publishes a rejected
review that `evaluate` does not hold: `moderation.status ?? existing.status` never reaches
its second half.

### Messaging

`MessagingService`, `MessagingGateway` and the web client's thread page, which is the part
of a client that feeds back: it acknowledges what it is pushed as delivered and what it
fetches as read.

| Action | Code |
|---|---|
| `AddParticipants` | `createThread`'s second insert; a thread exists before it |
| `ReadThread`, `CheckParticipant`, `Scan`, `Store`, `Emit`, `FailSend` | `addMessage`: two reads of the participants, `scanMessage` with `mapDecision`, the message with its receipts, the push |
| `OpenPage`, `ClosePage` | the page is mounted and unmounted, its socket with it; what is on its way is lost or not |
| `DropSocket` | the connection breaks under an open page and is made again |
| `ReceivePush`, `Fetch` | the effects of the page |
| `Mark`, `FailMark` | `handleDelivered`, `handleRead` up to the receipt, which is marked or not |
| `ReadReceipts`, `WriteStatus`, `FailHandler` | then `refreshMessageStatus` in two statements |

`calm` says whether handlers neither overlap nor fail. Otherwise a status can lag behind
its receipts: `messaging.spec.ts` acknowledges one after the other only. A message sent
between the two inserts of `createThread` has no receipts and is never read. The page's effect
runs when the data it fetched differs from the last, so a page says that it has read a message
again only after something of the thread has changed. A failed refresh repairs itself: the
receipt was marked, its new date is a change, and the page says it again. What is lost on the wire
or by `ensureReceiptExists` and `updateMany` changes nothing and is lost for good, until
something else changes the thread or the page is opened anew: `lost` remembers it, and
`EventuallyRead` promises nothing for it. Held messages
are fetched and marked as read all the same; the moderation service of this repository has
no endpoint for messages, so with it every message is held (`error`).

### Authentication

`AuthService`, `OtpDeliveryService` and `JwtStrategy` on one account. A code is named after
the call that issued it; a password is the `tokenVersion` it came with. `proof` on a token
is a history variable: the version of the password or code that was shown for it.

| Action | Code |
|---|---|
| `Start...`, `StartRefused` | the first read of each call, its checks, `JwtStrategy.validate` |
| `CreateUser`, `EnsureUserProfile` | `register`, and the unique address |
| `CheckDeviceLimit`, `CheckCooldown`, `Deliver`, `InsertCode`, `RecordIssue` | `requestOtp` and `requestPasswordReset` |
| `FindCode`, `Compare`, `CountAttempt`, `Consume` | `consumeOtp`: look up, bcrypt, increment or consume |
| `RecordVerified`, `ResetPassword` | `verifyOtp`; the transaction of `confirmPasswordReset` |
| `RecordSession`, `AnswerToken`, `Me` | `buildAuthResponse`, the token leaves; `me` signs the version it reads last |
| `ChangePhone`, `SoftDelete`, `Tick`, `Fail` | `UsersService`, time, any failing statement |

With overlapping calls a code can be accepted twice, more than `MAX_ATTEMPTS` guesses
compared and the pace of codes exceeded; the properties named `Serial...` say what holds when
calls take turns. Whoever types a code may type any that was issued. A code asked for by
SMS without a phone is stored as EMAIL and not found when verified as SMS. The limits per
address in front of the controller and of failed logins are left out: they only refuse a
call before it begins.

### ListingSearch

`ListingSearchService.search` with `CacheService`, while `ListingsService` writes. `history`
keeps every state of the table, so that a property can say which state an answer shows.

| Action | Code |
|---|---|
| `Hit`, `Miss` | the cache; the bounds of price and date come as texts, so what the two range checks refuse is any search or none |
| `Count`, `Find` | the two statements of the transaction: two snapshots under READ COMMITTED |
| `Load` | with a keyword, the rows by id, whatever they are by then |
| `Respond` | the answer, stored under its key and returned |
| `Create`, `Update`, `SoftDelete`, `Tick` | the writers, and time for the cache |
| `Deliver`, `Fail` | the end of a call; `to_tsquery` fails on keywords with its operators |

Filters and orders are those of `buildWhereFilter`, `buildSqlConditions`, `buildPrismaOrder`
and `buildOrderByClause`; ties are any order. A keyword matches a word of the listing or of
the labels that are left: a tag filter removes the other tags from what the keyword is
matched with (`Joined`). Similarity, phrases, snippets and the ranking formula are
PostgreSQL's and left out.

### The clients

Seven modules, each of one part of a client. They share no state, so `Clients` puts them
side by side: an initial state picks the part that runs (`client`), the others stay as they
are. Each states its own properties; `Clients` joins those of one concern.

**`ApiContract`**: a method of `ForumoApiClient` is its verb, path, whether it sends the
token, and its answer's schema; the backend is the routes and guards of its controllers and
the columns of the rows its serializers spread. A value is known by its kind (`uuid`, `null`,
`absent`, a member of an enum), a schema is the kinds each field admits. `Send`, `Handle`,
`Refuse`, `Lose`, `Answer`, `TakeAnswer` are `request` and the method around it;
`SessionChanges` is a token that changes while a call is on its way. `CallsAreUnderstood`
tries every kind of every column against every schema that reads it. Nothing validates a body,
so what a loose one can leave in a store comes back in later answers (`LooseCells`, by store):
a listing's currency and price, an account's email that a browser accepts and zod does not
(`user@localhost`), the metadata that `sendMessage` puts beside attachments as a text. Whether
such a row is there, by this client or by another, is `looseStored`; only then, and for the
search's `page`, may an answer be unreadable.

**`MockApi`**: a method changes the state of its realm, a tab or the server, and persists it
(`Write`), `FirstCall` is `getMockState`, `Restart` a reload or a restart. A tab that was
reloaded goes on where it was, unless its storage refused the last write (`StorageAgrees`).

**`MobileDiscovery`**: `RunEffect` is the effect that loads page 1 whenever `loadPage` is made
anew, `EndReached`, `Refresh`, `Edit` are the gestures, `Answered` and `Failed` the two ends of
a search. `due` stands for the gap between a render and its effect, `rendered` says whether
the state has been on the screen: React puts what an answer sets and what the effect after it
sets into one render, so `DemoIsAnnounced` is about rendered states. Since `loading` is a
dependency, every load that ends starts the next one: the screen never comes to rest, and
that alone makes it converge (`ListConverges`; its mutant drops the dependency).

**`MobileMessaging`**: sign-in (`SignIn...`, `EnterDemo`), the inbox (`OpenInbox`, `Inbox...`)
and the thread (`OpenThread`, `Thread...`, `Send...`). A reply carries the closure it was sent
from (`sending.base`), which is what a failed one is appended to.

**`WebSession`**: `Submit`, `Authorized` (`persistAuth`), `SignedIn` (NextAuth's own login and
the cookie), `Fail` (the `catch` of both forms) and `SignOut`, in tabs that share the browser's
storage. `RegisterLost` is a registration that was carried out and not answered, `Leave` a reload or a
closed tab at any moment of a submission, `WentOn` a `signIn` that comes back with neither a
session nor an error: the login form takes nothing for a failure but not an answer with a
`url`, the sign-up form neither. Both leave the token of a session that did not begin
(`stray`), and that is what `LocalIsOfLastSession` excepts; a form that ends after it, well or
not, replaces or removes it.

**`ListingForm`**: `Submit`, then `Save`, then `Upload` per file, each `Answered` or `Failed`,
while the fields stay editable; `Open` is the edit page with the listing it fetched. The fields
followed are those that can go wrong: variants and files, which are many, and the location,
which may be empty. An empty one is left out of the payload and the backend keeps what it has
(`Given`), so the form says "saved" and the location it cleared is still there:
`SavedFormsAreComplete` promises the location but in that case, where it promises the old one.

**`QueryCache`**: `Mount`, `Unmount`, `Age`, `Refetch`, `Read`, `Deliver` of a query, `Mutate`,
`Store`, `Succeed` of a mutation, which invalidates by prefix of the key. The rules of React
Query are external: how an entry is marked, refetched, collected. What is the app's is which
query reads what, under which key, and which keys each mutation invalidates. The backend
answers the listing and the thread lists from result caches of 30 seconds that no change
empties: `Response` takes what is there, `Keep` is a request of anybody that stores what it read
some time ago, `Expire` the end of its time. So a refetch can bring the old list and count it as
fresh, and `OwnChangesAreShown` excepts those two queries when their data is of that cache. It
speaks of the mutations of the hooks: uploading an image, the walkthrough of `/orders` and the
acknowledgement of a message change tables with no hook (`WithoutHook`) and tell no query.
`Visits` is the pages a tab may visit, by their queries.

## Runs

| Run | Asks | Bounds |
|---|---|---|
| `orders_concurrent` | the safety invariants under overlap; do the escrow rows refine `EscrowLedger`? | 1 order, 4 requests, 3 connections |
| `orders_serial` | what holds when requests do not overlap? | 1 order, 4 requests, 1 connection |
| `orders_refunded` | finding, below | |
| `webhook_race` | is what was acknowledged applied? does escrow hold only what Stripe collected or somebody said was paid? | 2 events of 4 types, Stripe's or posted; 2 deliveries, 1 API request |
| `webhook_live` | does every delivery and every transaction end, every event get its answer? | 1 event, 2 deliveries, 1 API request, 2 connections |
| `listings_live` | does the last scan have the last word, is the history complete, is nothing adverse public? do the listings refine `Publication`? is every pending listing decided or under review? what holds while nothing overlaps? | 1 listing, 2 requests, 1 worker, 2 attempts |
| `users` | one of two parts: what is derived from the reviews, under overlap and without, and deadlock of transactions; codes, tokens, sessions and registrations, under overlap and without, and the refinement of `OneTimeCodes` | trust: 2 reviews, 3 review calls of 6 kinds, 1 admin call; authentication: 3 calls, 1 device and none, times, limits and attempts of 1 |
| `messaging` | statuses against receipts, pushes against moderation; refinement of `MessageReceipts`; is a message read in the end? | 2 users, 1 message, 2 handlers |
| `search` | what an answer shows, and for how long | 2 listings, 2 calls, 3 asks, 1 write, pages of 1 |
| `clients` | one of seven parts: does the client read what the backend writes; does storage agree with the app; is demo content announced; does the list follow the search box; do kept replies, saved forms and own changes show | 1 tab and the server with 2 calls; 2 keywords with 3 and 1 pages, 2 edits, 3 searches in flight; 2 sign-ins, loads and replies; 2 tabs and 2 accounts; 1 variant label, 2 files, 1 location and none, 2 listings, 2 submissions; 8 visits, two changes of a table, by anybody, and one where two queries meet |
| `listings_stale`, `listings_blind` | findings, below | |

Requests are made once each, so the number of requests bounds a run. Four are
enough for a payment, a settled state, and two requests that overlap in it, which is
what the deepest known violation (`orders_refunded`) takes. All nine statuses are
tried in every run. `MCUsers` and `MCClients` hold parts that share no state, one per initial
state, so the states of a run are the sum of its parts' states. Requests, connections, events and deliveries are symmetric.
Deadlock is not checked: a run stops when its requests are used up.

Listings do not interact, so one is enough. Two requests are a creation and a change, or two
changes of one listing, that overlap each other and the scan; two attempts tell the last
from the others. The edits tried are texts with and without a status, a status alone, and
variants that `requiresRemoderation` does not see (`Ordinary`); `listings_blind` adds
a status behind an empty location and a text behind an empty title. That more workers keep what they should is proved, not
checked here.

Three review calls are two that overlap in a seller's first review and a third that edits
or removes; an admin call beside them sums what they sum. Messages do not interact but
through the participants, so one is enough; two handlers are needed to overlap and two users
for an author and a reader. Three calls of the API are a code, its use, and a call that
overlaps either; times and limits of one tick make every boundary a step away. In `search`
the two listings, pages of one and one write make a page shift while it is read; entries
live until the next tick but one (`CACHE_TTL = 0`), and two calls let a slow one store last.

In the clients a bound is what a race needs: two keywords and three searches in flight for an
answer that comes last and is the oldest, two replies for one that takes the other away, two
accounts and two tabs for a token of the wrong one, two submissions for a failure and a changed
repetition, and a second change of a table by somebody else while an answer is on its
way. Entries of different queries meet only in the mutation that invalidates both,
so a listing's page is the one visit with two, the only two whose keys share a prefix, with one
change of each table; the other visits have one query and two changes. The contract has no bound: methods, columns and kinds are finite.

The type invariants, and `OnlyApprovalPublishes`, which `Publication` contains, are not repeated
by TLC: they hold for all constants (`TypeCorrect`, `TypeCorrectness`, `WebhookTypeCorrect`,
`AuthTypes`, `SearchTypeCorrect`, `ApprovalPublishes`).

**Fairness.** `FairSpec` assumes that a statement whose lock is free is run;
`FairWebhookSpec` adds that handlers go on and that Stripe retries. In
`ListingModeration` requests and jobs go on: BullMQ takes waiting jobs, and a POST has a
timeout. In `Messaging` an open page fetches whenever the thread has changed (every 30
seconds in the code), and an acknowledgement that arrives again and again is handled, which may
fail before a row is touched (`Mark` or `FailMark`; strongly, because handlers that are busy keep it
waiting only in the model). The two statements of a refresh are strongly fair: they are run
for every repeated acknowledgement, and a database that fails them every time is no part of the
promise. In `ListingSearch` time passes and a statement ends or
fails. In `MobileDiscovery` every search is answered or fails, as `fetch` does, and React runs
the effects of what it rendered; gestures may never come. Rollbacks,
timeouts, client calls and failures are never assumed to happen.

**Findings.**
- `orders_refunded`: a repeated refund that saw REFUNDED skips the holding, while a
  release takes the money; the order ends REFUNDED with the money at the seller. With
  one request at a time this cannot happen (`orders_serial`).
- `listings_stale`: with two workers, the default, the approval of an older text is
  applied after the rejection of the newer one, and the rejected text stays public.
- `listings_blind`: an update with an empty location and a status publishes a flagged
  listing, without a hold and without a scan; a text behind an empty title goes unscored by
  the same rule.

Also visible in the models, stated by no document: a refund handled before the payment it
refunds leaves refunded money held, since Stripe does not order its events; a release completes an order that was
never paid (`handleEscrowRelease` returns when there is no holding); two overlapping releases enter
RELEASE twice, which is why `ImplementsStrictLedger` is claimed for one connection
only; and the two events Stripe sends for every payment make one of two concurrent
deliveries fail on the unique key, to be retried.

In the clients:
- `buildUrl` resolves `/auth/login` against the base address, which drops the base's own path
  `/api/v1`: calls reach the backend only where something in front adds the prefix
  (`gateway`). Four methods have no route at all, and the admin console lets moderators in
  whom the API's guard refuses.
- No DTO of the backend is a schema the global pipe knows, so bodies are stored and query
  values stay texts: the search answers `page` as a text, which the client's schema refuses,
  and one listing with a loose currency or price, one account with a loose email, one message
  with attachments and metadata makes every answer that contains it unreadable.
- The discovery screen searches page 1 again after every load, so a second page does not stay.
- The inbox of the mobile app hands its list the page object of threads, so only the demo
  threads can be opened. A reply "saved locally" is gone with the next load.
- Sign-out and the end of the cookie leave the token in the `localStorage`, and a form that
  fails in one tab takes away the token another tab has just stored. A tab that is reloaded
  between the two calls of a sign-in, and a `signIn` without session or error, leave a token
  without a session.
- A location cannot be cleared: the form leaves it out and says "saved".
- The listing form is enabled again before its page is left, and stays in create mode after a
  failure: a second submission creates a second listing.
- A query whose first fetch is under way when a mutation succeeds is not fetched again: its
  old data counts as fresh for 30 seconds (`overtaken`). The lists the backend caches can be as old
  after a refetch (`cached`), and an image or an order of the walkthrough is not seen until
  its query is stale.

## Proofs

All for every set of orders, requests and connections, of events and deliveries, of
listings, requests, workers, edits and number of attempts, of reviews, calls and labels, of
users, messages and handlers, of calls, devices and limits of an account, of listings,
searches, page sizes and times to live, and of the clients' tabs, accounts, keywords, page
counts, labels, files, locations, visits and changes.

- `OrderEscrowProofs`: `TypeCorrect`; `InductiveInvariant` (`IInv`); from it
  `RefundSafety`, `EscrowExistence`, `LedgerSafety`. `RefundLeavesNoHolding` is not
  inductive: a refund about to commit must know that no payment can slip a new
  holding under it. That is `WriteInv` (its pending write fits the row) and rests on
  `LocksInv` and `RowLocksExclusive` (a refund and a payment exclude one another on
  the payment row from `markPayment` to the end) and on `SeenInv` (a stale snapshot
  is stale in one direction only).
  `LedgerRefinement`: every step maps to a step of `EscrowLedger` or a stutter;
  only COMMIT maps to one. With one connection the open transaction is alone (`ConnInv`),
  so its snapshot is current, and the strict ledger is implemented (`StrictLedgerRefinement`).
  `NobodyWaitsInACircle` and `TransactionsGoForward` are the safe half of
  `EveryTransactionEnds`: rows are locked in the order payment, holding, order
  (`LocksAreBehind`), so who is waited for is further on, one open transaction waits for
  nobody (`WaitsGoForward`, the last of finitely many places), and each of its statements is
  a step towards the end (`StepsGoForward`).
- `StripeWebhookProofs`: `OrdersRefinement`, every step is one of `OrderEscrow`, which
  brings its invariants along; with them `WebhookInvariant` (`HookInv`): the
  comparison `ReadStatus` makes is stale when it is used, but a status found in the
  timeline stays there, and an order that does not exist once its create is over never
  will (`AppliedKept`). From it `AckSafety`, `PaymentSafety` and `HeldSafety`.
  `NoDeliveryHangs` and `DeliveriesEnd` are the safe half of `EventuallyAcked`. A handler waits
  for its own transaction, for a row or for a connection, and the last two are always those of
  an open transaction (`ConnectionsAreUsed`, `LocksAreBehind`), of which one can go on; a call
  still finds its order (`BeforeTheCall`); and each step is made once, so what can go on ends.

- `ListingModerationProofs`: `TypeCorrect`; `InductiveInvariant` (`IInv`), from which
  `RecordSafety` and `ScoreSafety` follow. `SettledIsScored` is far from inductive: while
  work is under way the verdict may be wrong, so `ScoreInv` says who will correct it: a
  request that has yet to enqueue, a job that has yet to read, a job whose verdict fits, or
  a flag. The part that matters is its second half: a job whose verdict is out of date has
  a successor that has not read yet. With two workers the successor may have finished
  first. `RecordInv` does the same for the history. `AdverseSafety` and `ApprovalPublishes`
  need only that updates are those of `Edits` (`StageInv`). `PublicationRefinement` maps the
  statuses that requests and jobs carry to what `Publication` calls wanted (`Wanted`): a decision
  applied late is an `Approve` because the job still carries the status, and a write is a
  `Revise` because what could publish is held back. `NoneIsForgotten` and `WorkEnds` are the
  safe half of `EventuallyDecided`: a pending listing has a request that will enqueue it or a
  job that will decide or flag it, or one of these was lost (`PendingIsSeenTo`), and every step of a request or a job leaves it less to do
  (`WorkRunsOut`, by the attempts, stalls and statements that are left), so neither a retry
  nor a stall goes on for ever. `SerialSafety`: one at a time
  (`OneAtATime`), what was read is still so (`Fresh`), so nothing unscored is public.

- `ReviewTrustProofs`: `Invariance` (`IInv`), from which the five safety properties follow.
  `OneReviewSeed` and `ScoreFollowsRollup` rest on `LocksInv` (one transaction at a time
  holds the rollup, from `upsert` to its end) and on `PlanInv`: what the holder will do to
  the seeds fits the seeds there are, since only an admin can change them meanwhile.
  `SerialConsistency` adds `CountInv` and `SumInv`: alone, what was counted and summed is
  still so at the commit. `NobodyWaitsInACircle` is the order behind `NoCircularWait`: whoever
  waits for a row waits for a transaction further on, and one open transaction waits for
  nobody. `SomeTransactionGoesOn` proves `NoCircularWait` itself: who waits for nobody finds the
  review's and the rollup's row free (`ReviewFree`, `RollupFree`), which is all that a statement
  asks for (`CanGoOn`). With `TransactionsGoForward` each runs to its end.
- `MessagingProofs`: `Invariance` (`IInv`). `EarnedStatus` is not inductive: a status is
  written later than it was computed, so `FoundInv` says that what a handler has found stays
  earned, because receipts are marked for good and none is added to a stored message
  (`StoredInv`). `CalmStatus` adds that a lone handler's finding is current (`CalmInv`).
  `ReceiptsRefinement`: marks and written statuses map to the steps of `MessageReceipts`, the read
  of the receipts to none; from it, where handlers take turns, `NoTickIsTakenBack`
  (`NeverBack`). `ForgottenOnlyIfLost` is the safe half of `EventuallyRead`: whatever
  refreshes fail and pushes are lost, an open page has a fetch to make or an acknowledgement on
  its way for every message it was sent, unless its last one was lost (`SilentOnlyIfLost`).

- `AuthenticationProofs`: `AuthInvariant` (`AuthInv`). A step is a call's own or leaves the
  call where it is (`StepOf`), and then the world has only moved on: issued codes, accepted
  guesses, consumed marks and versions stay (`MovesOn`). So what a call has found
  (`CallInv`) is still an issued code of its purpose and device when the call consumes it
  and resets the password (`ResetsSpend`), although the look-up is stale by then; that the
  code is *unconsumed* does not survive, which is why the rest needs calls to take turns.
  `GuessesCount` is a bijection kept by hand: each wrong guess is counted, about to be, or
  failed (`Guessed`). For `SerialCallsAreSafe`, `SerialInv` says that a call alone finds what
  it has read still so, and `Paced` that time only makes codes older.
  `CodesAreOneTime` maps `InsertCode` to `Issue`, `CountAttempt` to `Miss`, `Consume` to `Use`
  and the transaction of the reset to `Redeem`; everything else is a stutter of `OneTimeCodes`.

- `ListingSearchProofs`: `SearchInvariant` (`SearchInv`), from which `SearchTypeCorrect`,
  `ShownSafety` and `QuietSafety` follow. `CacheInv` says of every entry what the properties
  say of an answer, `CallInv` of which states of the table a call's count and page are;
  `StaysTrue`: since an answer names the states it is of, later changes take nothing back. A
  page read by id shows rows, not gaps, because a listing once created stays in the table
  (`SavedInv`). That undisturbed pages share nothing and miss nothing is `PageIsExact`: if
  no two tie, a listing has as many before it as its place in the result says (`Place`, a
  bijection), and the division by the page size finds its page (`QuotientIs`).
  `OutdatedAnswersRunOut` (`OutdatedRunsOut`) is the safe half of `Converges`: while the listings
  stay as they are no search falls behind, only one that was behind stores an outdated answer
  (`RespondRunsOut`), and what is stored only grows older (`EntryStays`).

- `ClientProofs`: `ClientsInvariant` (`ClientsInv`), one invariant per part. A step of the whole
  is a step of one part or leaves it alone (`StepOfOne`), so each is shown by itself.
  `ContractInv`: every kind of every column fits the field that reads it (`RowsFitSchemas`),
  every method finds its route and sends what the route wants (`MethodsAreUnderstood`), so an
  answer can only be wrong where a row was stored from a loose body. `CacheInv`: an entry
  older than the tab's own change is marked to be fetched again, or the fetch that brought it
  crossed the change or was answered by the backend's cache (`Marked`); that each mutation invalidates every query of the tables it writes is
  `WritersInvalidate`, over the hooks' keys. `FormInv`: what is saved and attached so far is
  what was chosen without the files that are left, and the location is the one submitted or,
  where none was, the one it had (`SavedSoFar`), through failures and second
  submissions. `DiscoveryInv`: where demo listings are shown without the line, a search that replaces
  the list is under way (`Replacing`), and a page can be asked for behind them only while such
  a search is under way or due. `WebInv`: where sign-ins do not overlap, one form at most is
  submitted, and the token is the last session's or, until its session begins, that form's, or
  the one that a cut-off sign-in left (`stray`).
  `ThreadInv`: the closure a reply was sent from has every saved reply the screen shows, since
  one reply is under way at a time (`AppendedKeepsSaved`). `ListIsAskedForAgain` is the safe half of
  `ListConverges`: the discovery screen never rests (`ScreenNeverRests`).

The assumptions on the constants are that the null values are no orders, connections,
listings, workers, devices, users or messages, that the edits and the calls are well formed
(a creation has a rating and no status, a reset confirms a code for a reset), that review
calls and admin calls have different names, that the calls on an account are finitely many
and its limits natural numbers, that there is at least one attempt, that listings are
finitely many rows of numbers and texts, that pages and their size count from 1, that a file
is known by its number among those of its form, and that the empty search box is a keyword.

**Model-checked only.** Liveness: `EveryTransactionEnds`, `EventuallyAcked`,
`EventuallyDecided`, `EventuallyRead`, `Converges`, `ListConverges`. Fairness and ENABLED are
beyond the prover. What liveness rests on is proved where it is safety: nobody waits in a
circle and every step is forward (orders, webhook, reviews), no listing and no message is
forgotten and the work on a listing runs out, outdated answers only grow older, the discovery
screen never rests. The step from these to "in the end" is the fairness stated under Runs,
and TLC's. The three properties of the findings are false and so not proved; their
counterparts with their condition are (`SerialAgreement`, `ScoreSafety`, `SerialSafety`).

## Not modelled

- The list of threads and its cache (`listThreads`): the same cache as in `ListingSearch`, in
  front of a page of threads that nothing invalidates.
- `RateLimitService`: a dozen sequential lines. A call exactly one window after the first
  begins a new window, so twice the limit can pass around the boundary.
- Storage, health, observability: files, probes, counters, the audit log. Nothing reads them
  back. Of admin, the rows of its lists are in `ApiContract`; which rows, in which order, is not.
- Variant rows and image positions in the backend: `update` replaces the variants by two statements, and two
  images at once can get the same position; no other part depends on either.
- The `WebhookEvent` record of a request with a bad signature stays PENDING for ever; nothing
  reads the records again.
- In the web client: the admin console's pages, server actions and middleware, the dashboard
  with its fixed figures, the checkout page beside the simulator, the routes that forward to
  the API, which nothing calls. In the mobile app: the registration for push notifications.
  Layout and styles everywhere, which are most of the lines that remain.
- Which query of the cache a filter or a page number makes: one set of parameters per query.
- A query's key does not contain the token: what was fetched for one account is shown to the
  next of the same tab until it is stale. Sign-out and the cache are not composed.
- The text search of PostgreSQL, the hashes of passwords, codes and tokens, and the delivery
  of e-mail and SMS are external: a match, an equality, and a channel.
