# PayRescue NG: verification project

TLA+ models of PayRescue: its backend (`src/src`, TypeScript on Express 4,
Prisma and PostgreSQL) and its web client (`src/frontend`, React with a query
cache), the TLC runs that check them on small instances, and TLAPS proofs for
every instance.

## 1. The system

A Node process serves a REST API; all durable state is in PostgreSQL, and only
rate-limit counters and open requests live in the process.
Every handler is an `async` function. Between two `await`s no other handler of
the process runs; at an `await` any of them may, and so may other processes on
the same database. A handler typically reads rows in one statement, computes,
and writes in a later `prisma.$transaction`, which is atomic and locks the rows
it updates, but does not re-read them. That gap, and what happens when a handler
stops in it, is the subject of this project. Express 4 does not catch a rejected
async handler: the rejection is logged (`server.ts:47`), what was committed
stays, the request is never answered.

| component | state | operations that change it | what makes it correct |
|---|---|---|---|
| cases (`modules/cases`) | RescueCase, CaseEvent, CaseTimelineRecord | createCase, updateCaseStatus, escalateCase | row, event log and public timeline tell the same story, whatever handlers raced |
| escalations (`modules/escalations`) | the same rows, Notification; a scan's snapshot in memory | processSlaExpirations | a breach is recorded only if it was due, the level never credits more than happened, owners are told |
| complaints (`modules/complaints`) | Complaint, ComplaintSubmission; case status and timeline | generateComplaintPackage, recordSubmission | nothing is submitted that was not prepared; one record per row |
| evidence (`modules/evidence`) | Evidence, timeline; files in a storage driver | uploadEvidence | a row and its timeline record appear together |
| transactions (`modules/transactions`) | Transaction, TransactionEvent | createTransaction, updateTransactionStatus | the event log is a chain that ends in the present status |
| verification (`modules/verification`) | PaymentRequest, VerificationResult | createPaymentRequest, verifyPayment | a request is fulfilled only by a confirmed result over a settled transaction |
| reconciliation (`modules/reconciliation`) | ReconciliationJob, ReconciliationResult | reconcileBatch | counts add up; a match names a transaction with that amount |
| auth (`modules/auth`, `middleware/auth.ts`) | User, Session; the cookies of a client | register, login, refreshToken, logout, forgot/reset/changePassword | a rotated, revoked or pre-reset token stops working; the cookie a client holds is the current one |
| request pipeline (`app.ts`, `server.ts`, `middleware/*`) | in-memory rate buckets, open requests | rateLimiter, tenantIsolation, validate, errorHandler, gracefulShutdown | the limit per window, an answer for each request, an orderly stop |
| idempotency (`middleware/idempotency.ts`, mounted nowhere) | IdempotencyKey | lookup, delete when expired, store the answer | one execution per key in 24 h |
| API keys (`middleware/apiKey.ts`, mounted nowhere; `modules/developer`) | ApiKey, counters, WebhookDelivery | requireApiKey, create/revoke | deactivated keys stop working, the limit per minute |
| billing | Invoice, Payment | handlePaystackWebhook | one payment per reference although webhooks repeat |
| business membership | BusinessMember | addMember, removeMember | at most one membership per user; only its own owners and admins write it |
| notifications | Notification | sendNotification, markAsRead | sent after the fact it reports |
| admin | User.status, AuditLog | updateUserStatus | the audit names the status that was left |
| risk, classification, ocr | RiskSignal; none; none | evaluateTransactionRisk; pure functions | the action is monotone in the signals |
| providers, analytics, public | reference data; none | single-statement CRUD; reads | - |
| web client (`src/frontend`) | AuthContext, the cache of queries, requests of the pages, the wizard's form | login, logout, refreshUser, page changes, business switch, mutations, the wizard's steps | the page and the cookie name the same user; a page shows what was done on it; spinners end |

Interactions: all case handlers and the SLA engine share the RescueCase row, its
timeline and its events; createCase calls `TransactionsService.createTransaction`
and commits it separately; the SLA engine calls
`NotificationsService.sendNotification` after each commit; verification and
reconciliation read the ledger that transactions write; every request passes the
limiter, and those of a business pass `tenantIsolation` before their handler; the
web client reaches all of it through one axios instance and two cookies.

What is hard to test here: two handlers on one case in an order nobody wrote
down; a scan that works through a snapshot while requests go on; two scans at
once; a stop between a commit and the notification it owes; a long legal sequence
of status changes; two rotations of one refresh token, or a reset across a login;
a webhook or a request that comes again; a revocation while a key is in use; an
answer that arrives on a page, or for a user, other than the one that asked.
`PROJECT.json` lists these hazards line by line.

## 2. Modules

| module | models | how |
|---|---|---|
| `CaseStore` | the three tables of `prisma/schema.prisma:392-461`, the clock | `rescueCase`, `timeline`, `caseEvents`; `UpdateRow`, `AppendTimeline`, `AppendEvent` are the writes a transaction is made of; `DeadlinePasses` is time |
| `CasesService` | `cases.service.ts` | a slot of `caseRequest` is one request in flight with what it read; one read action and one commit action per handler, `CaseRequestFails` for a rejection or a crash |
| `ComplaintsService` | `complaints.service.ts` | the same, over `complaintRequest` |
| `EvidenceService` | `evidence.service.ts`, `storage.ts` | read, store the file, commit |
| `EscalationEngine` | `escalations.service.ts` and the notification it sends | `StartScan` takes the snapshot, `EscalateNext` is one loop transaction, `NotifyUser` the call after it, `ScanFails` an exception or a crash |
| `CaseJournal` | abstract specification | an append-only journal per case that determines its status, and a level that moves only with an escalation |
| `RescueCases` | composition of the above | all handlers interleaved; the properties |
| `TransactionLedger` | `transactions.service.ts` | `ledger` and `log` are the Transaction and TransactionEvent tables; `ReadStatus` and `CommitStatus` are the two halves of updateTransactionStatus |
| `PaymentVerification` | `verification.service.ts` | `AskAboutRequest` or `Ask`, `FindTransaction`, `SaveResult` are the three awaits of verifyPayment; `Confirms` and `Confidence` are its decision |
| `Reconciliation` | `reconciliation.service.ts` | `ReconcileBatch` takes the snapshot and runs the loop, which has no await; `SaveJob` commits; `Answer`, `ByReference` and `ByAmount` are the matching |
| `PaymentLedger` | composition of the three | all handlers interleaved; the properties |
| `AccountStore` | User, Session, AuditLog of `prisma/schema.prisma`, the clock, the tokens of `middleware/auth.ts` | `account`, `session`, `audit`; a token is a pair of user and second, as it is signed |
| `AuthService` | `auth.service.ts`, `auth.controller.ts`, `admin.service.ts:55-78` | a slot of `call` is a request in flight with what it read; `jar` holds the refresh cookie of each client; `AnswerArrives` sets it, `CallFails` is a rejection, a crash or a lost answer |
| `RefreshGrants` | abstract specification | which token opens which session; grant, renew, close |
| `Sessions` | composition | the properties |
| `RequestLimits` | `rateLimiter.ts`, the counter of `apiKey.ts` | a window per address and per key, the cleaning every 60 000 ms, the clock |
| `HttpServer` | `app.ts`, `server.ts`, `errorHandler.ts` | requests, clients that wait or leave, `Respond` and `Reject`, signals, `CleanExit`, `ForcedExit`, `Crash`, `Restart` |
| `Tenants` | `tenant.ts`, `apiKey.ts`, `business.service.ts`, `developer.service.ts` | membership and keys; arrival, the middleware's read, the handler's lookup and its write are steps of their own |
| `BillingService` | `billing.service.ts:41-74` | the webhook, delivered again until it is answered |
| `IdempotencyKeys` | `idempotency.ts` | lookup, the deletion nobody waits for, the handler, the storing nobody waits for |
| `Gateway` | composition of the five | one process; the properties |
| `WebContracts` | the routes' roles and schemas, the pages' enums | what the server admits of what the pages send |
| `WebScreens` | `App.tsx` and the 23 pages behind its routes | a page is a guard and the reads it opens with; an action is a page, the reads it changes at the server and those it refreshes |
| `QueryCache` | `main.tsx`, `api/client.ts`; the query library as the pages use it (external) | an entry per key: rows, staleness, the request in flight |
| `WebSession` | `AuthContext.tsx`, `RouteGuards.tsx`, `Topbar`, `Sidebar`, the login and register forms | user, business, cookie, page and the calls to `/auth` in flight; `Render` mounts the queries of what comes on the screen |
| `WebActions` | the mutations of the pages | `Ask`, `HandleAction`, then `Acknowledged` or `Rejected` |
| `DisputeAnalysis` | `classification.service.ts`, `risk.service.ts` | two pure functions |
| `RescueWizard` | `WhereIsMyMoneyPage.tsx` | its four steps and three requests |
| `WebClient` | composition of the web modules | one tab; fairness and the properties |
| `MCRescueCases`, `MCPaymentLedger`, `MCSessions`, `MCGateway`, `MCWeb` | instances for TLC | the symmetry of ids |
| `RescueCasesProofs`, `CaseCountProofs`, `PaymentLedgerProofs`, `GatewayProofs` | theorems about cases, the ledger and the gateway | section 5 |
| `SessionsProofs`, `CookieProofs`, `WebProofs`, `WebCacheProofs` | theorems about sessions and the tab | section 5 |

Abstractions. Ids are model values. `slaDeadline` is reduced to how it compares
with the clock (`"none"`, `"running"`, `"expired"`); no handler writes it after
the case was created. `resolvedAt` and `closedAt` are reduced to null or not.
Texts, titles, actors and money are left out. An event type `STATUS_<status>` is
a pair. Handlers that only read are left out, and so are requests refused by
validation and files refused by the scanner: they change nothing. Operations
whose definition begins with "Mutant" are wrong on purpose; they are in no
behaviour, and stand beside the definition they alter to show that a property
notices.

In the ledger modules an amount is an integer in 1/1000 NGN, so that 0.01 is 10.
At a difference of exactly 0.01 the code's comparison depends on the rounding of
doubles (`0.03 - 0.02 < 0.01` holds, `100.01 - 100 < 0.01` does not); the constant
`RoundsDown` names the amounts where it does. An expected amount of zero (a column
that rounded a smaller one) is falsy in the code and counts as none (`Expects`).
A reference is a key and a spelling: verification compares both,
reconciliation lower-cases. `findFirst` and `findMany` have no order, so a model
step may take any row and any order of rows. The counts of a job are those of
its result statuses and are left out; so is `expiresAt`, which nothing reads.
`businessId` of a transaction is what the caller passes in the context. No
mounted route that creates a transaction runs `tenantIsolation` or
`requireApiKey`, the only writers of `req.businessId` (`tenant.ts:28,59`,
`apiKey.ts:83`), so through the API as it is mounted every owner is null and
verification and reconciliation find nothing; the modules show what the
services do with the contexts they are written for.

The rescue cases and the ledger share only `createTransaction`, called by
createCase with no way back, so they are composed apart.

In the sessions modules a JWT is the pair of its user and the second it was signed
in, since nothing else of its payload varies: two tokens of one user and second
are equal, and the unique column of `Session.refreshToken` refuses the second.
`MaxNow` seconds pass. The expiry of the row is left out, because the token
expires no later; so are refused requests and wrong passwords, which change
nothing, and the USER_LOGIN records of the audit log. Passwords are compared by
value. The history variables `disturbed` (users whose calls of one client
overlapped or whose answer was lost), `loggedOut` and `swept` only serve the
properties.

In the gateway modules an instant is a number. Handlers that do not touch what a
property is about are left out; a handler that throws an error leaves its request
unanswered (`Reject`), a middleware that does so is answered by the error handler
(`Respond`), as Express 4 does. The controllers' "not found" and "conflict" are
such errors. `requestPath` of an idempotency row is stored and never compared.

In the web modules the cache library and React are external and modelled by what
they do for this code: an observer that mounts fetches what is stale or missing,
an invalidation cancels and repeats a fetch of rows that are there and joins one
of rows that are not, a failed read is repeated once (`main.tsx`), a mutation of a
page that has gone keeps the options it had. A version counts the changes of the
rows behind a key. Requests of the tab carry the cookie it has when they are sent.
The server is what its routes admit (`ReadOutcomes`, `Outcomes`): rows, a refusal, or
silence where a controller throws or one of its queries fails, `/auth/me` included
(`Restoring`); only the reads answered from memory (`FromMemory`) are never silent. One request per control is in flight, and a
page is reloaded when what it sent has been served. The pages that only pretend a
request (team, password change, forgotten password) have no action.

With `STORAGE_DRIVER=local` an upload always fails after the case lookup: the
key is `evidence/<caseId>/...` and nobody creates that directory
(`storage.ts:21-23`), so `UploadFile` is not enabled for that driver.

## 3. Runs

| run | question | result |
|---|---|---|
| `cases_safety` | twelve properties of the composition, refinement of `CaseJournal` included | all hold, 237 716 states up to symmetry |
| `cases_sla` | liveness of scans | holds, 52 170 states |
| `breach_unresolved` | is a recorded breach one "without provider resolution"? | no: the case may have been resolved after the snapshot |
| `level_regress` | does an automated breach advance the level? | no: it may undo a manual escalation, 2 to 1 |
| `ledger_safety` | eight properties of ledger, verification and reconciliation together | all hold, 700 899 states up to symmetry |
| `confirmed_settled` | is a confirmed payment settled when it is confirmed? | no: it may have been reversed since it was read |
| `sessions` | five properties of accounts, sessions and cookies, refinement of `RefreshGrants` | all hold, 207 376 states up to symmetry |
| `gateway` | limits, tenants, keys, payments, repeated requests | all hold, 213 120 states up to symmetry |
| `key_window` | is a key's limit kept in any minute, as "sliding-window" and "requests per minute" say? | no: up to one less than twice the limit passes around the boundary of two windows |
| `unanswered` | is every request answered with the envelope of the integration guide? | no: a handler that rejects is never answered |
| `web` | what a tab shows, and that it settles | all hold, 233 818 states |
| `wizard_files` | does a submitted claim of the wizard become a rescue case? | no: its categories and channels are not those of the server's schema |

Bounds of the rescue cases. `MaxRequests` = 4 lets a case be opened, moved to wait for its provider
and then be met by two more handlers during a scan; that is the shortest
behaviour in which all the races above occur, and the mutants show that each
property is within reach. Two cases tell "this case" from "another"; two request
slots and two scanners are the least that race. `MaxFailures` = 1 bounds failing
scans. `RequestedStatus` holds one status that awaits the provider, one that
resolves and the one that closes: the code tells no others apart. `Note` is empty
in the runs: no property reads notes. Deadlock is checked: a scan can always
start.

Bounds of the ledger. `MaxCalls` = 4 requests: a transaction and a payment
request are entered and two verifications race over them, or a verification
races an update, or two updates race and are read by a batch. Two transactions
may share a key, a spelling, both or neither. The amounts 0 and 20 with claims
of 25, 30 and 0 give an exact match, one within the tolerance, one on its
boundary that rounds down, a mismatch and an expected amount of zero. A batch
holds one claim: the claims of a batch do not influence each other. Deadlock is
not checked in these runs: when `MaxCalls` requests have been received and
answered, nothing is left to do.

Bounds of the sessions. `MaxCalls` = 5 requests of two clients in two slots: a
registration, two sign-ins, and then a rotation against a rotation, a logout, a
reset or a suspension. Three rows let a rotated, a swept and a late session stand
side by side. `MaxNow` = 2 with lifetimes of 1 and 2 makes each kind of token
expire in some behaviours; in one second two tokens coincide. One user, who is an
administrator as well: handlers of different users touch different rows, and the
proofs cover any number. For `AuditTellsStatus` that is thin: an administrator who
is suspended cannot go on, so the predecessor that another administrator made stale
is really covered by the theorem `AuditTells`.

Bounds of the gateway. `Focus` lists what meets in one behaviour (tenants with
keys; charges with faults; keys with time and faults; repeated requests with time,
and with faults), because the tables of these parts are disjoint: what they share is
the limiter, the process and its slots. `MaxCalls` and `ClockEnd` say for each focus how
many requests come and how many instants pass: three within two, and five within four
where keys meet time. An address has limit 1 per window of 1, a key limit 2 per window of
1: three passes of an address, and five of a key, lie in three windows, so that the
property about a row of twice the limit is put to the test, around a boundary, at its very
instant and across a cleaning. `MaxRestarts` = 1. The limits of the code are 100 per
15 minutes and the key's own per minute; `LimitsSpread` proves them all. `key_window` needs
one address, one slot and a window of 2; `unanswered` only charges, without a crash.

Bounds of the web client. `Focus` is fifteen stories of two or three pages each, the
keys and actions on them, one or two users and the events (sign-in, reload, time,
error, refresh, switch) that may happen; all 23 pages and all 17 actions
appear. `MaxActions` = 2 requests, `MaxSignIns` = 2, `MaxLoads` = 1, and versions
counted up to 1: enough for "older than my change". Queries of different keys do not
influence each other, and each story holds the keys whose pages it visits.

Deadlock is not checked in the runs of sessions, gateway and web: requests are bounded.

Fairness. `cases_sla`, `web` and `unanswered` are about liveness. `cases_sla` assumes weak fairness of the
steps of each scan and nothing else. A running scan goes on because Node resumes a settled promise; that scans
are started again and again is an assumption on the environment
(`escalations.routes.ts:10`: "Admin or Cron worker trigger"; the repository
schedules nothing). Requests need neither arrive nor complete. `web` assumes that a
read, an action, a sign-in, a sign-out and the restoring of a session that are under
way go on (`WF` on `Read(k)`, `Dealt(a)`, `SignInEnds`, `SignedOut`, `RestoreEnds`): the
server answers or the connection fails. A request that the server leaves unanswered is
under no such assumption and may stay open for ever, since axios has no timeout; it can
be any read, action or sign-in that waits for a query, and the call to `/auth/me` that
restores a session (`mute`). `ScreensSettle` excepts the spinners of just these. Users
need do nothing. `unanswered` assumes that the handler of a request goes on (`GoesOn`): its
queries come back or fail, none of them hangs.

## 4. What the runs say about the code

However handlers and scans interleave, the timeline determines the status of a
case, stamps and levels agree with it, and a breach was always due when the scan
looked. A stale read does show: an event may name a predecessor that is no longer
the present status (but always one the case had), a scan may escalate a case that
was resolved in the meantime, or lower its level. A scan that stops between a
commit and its notification leaves one breach untold, and later scans do not
repair it; `NotificationsFollowBreaches` and `BreachesAreTold` state exactly that
much and no more.

In the ledger, the event log of a transaction always ends in its status, and a
predecessor it names was once the status, though not always the one that was
replaced. A confirmation always names a transaction that had settled, in the
right business, with the reference and (unless it is zero) the amount expected,
but it may have been reversed before the confirmation was saved. What a
reconciliation reports stays true of owner, reference and amount, since no
operation changes them; but a claim may be matched in part with a settled row, though
the comment above the search says "among unsettled transactions"
(`reconciliation.service.ts:117`), and two claims with one row, though the reason it
writes says "unassigned" (`:131`). `AnswersAreComplete` leaves both open.

A refresh token opens at most one session and a session has at most one token; a
closed session never opens again. A client whose calls do not overlap and whose
answers arrive always holds the current token. Two rotations at once, or an answer
that is lost, leave it with a token no session has, and only a sign-in helps. A
login that compared the old password before a reset may open a session after the
sweep: `AnsweredResetsClosed` is about the sessions that existed. The web client never
calls `/auth/refresh`, so its sessions end with the access cookie (`CookieEnds`).

Fewer than twice the limit pass within a window's length (`PassesAreSpread`), which is
the best a fixed window can do and not what `apiKey.ts` announces: `key_window` shows more
than the limit within a window, and `rateLimiter.ts` counts the same way. A handler that
rejects leaves its client without an answer (`unanswered`), as `createCase` does when
its case number is taken or its provider does not exist. Redelivered webhooks never pay twice, but the second delivery is rejected by
the unique constraint and never answered, so Paystack keeps sending it. Repeating a
request with an idempotency key runs the handler again if the first is still under
way or failed, and once the row is older than a day. The last owner of a business can
remove itself.

In the web client the user on the screen is the one the cookie acts for, unless a
sign-in was sent while `/auth/me` was still under way: that answer, when it is late,
puts the earlier user back. Signing out keeps the cache, whose keys name no user;
what the next user may see of it is only what was still fresh or under way. A page
shows the effect of its own actions, unless the business was switched before the
answer came (then the other business's key is refreshed), the first load was still
under way, or the action is the webhook's test, which refreshes nothing. Categories
and channels of the wizard are not those of the server's schemas and its file names
no case, so every claim and every file it sends is refused or left unanswered, whatever
was chosen: `wizard_files` gives one such sequence. "Restoring session" may stay on the
screen for ever, when the query behind `/auth/me` fails.

Two more things the documents say were seen in the model and have no run: nothing keeps
two cases from naming one transaction ("One transaction → one rescue case.",
`docs/ARCHITECTURE.md:5`), since `createCase` takes any existing `transactionId`; and every
handler that writes a status moves a CLOSED case on, which the lifecycle diagram
(`docs/ARCHITECTURE.md:72`) draws as final.

## 5. Proofs

`RescueCasesProofs` proves for every set of cases, transactions, complaints,
evidence, request slots and scanners, and every bound:

- `TypeCorrect`: `TypeOK`, with one lemma per component (`CasesTyped`, ...).
- `HistoryCorrect`: the inductive invariant `HistoryInv`; `StatusCorrect`,
  `EventsCorrect`, `LevelCorrect`, `StampsCorrect`, `SubmissionsCorrect` and
  `BreachesCorrect` follow from it.
- `JournalRefinement`: `Spec => ImplementsJournal`.

The argument. The safety properties are not inductive: a commit writes what a
handler read earlier, so one must know what handlers remember. `ReadsAreHistory`
says it: a remembered status was announced by the timeline, a remembered level is
earned, a snapshot was due. It survives other handlers' steps because timelines
only grow (`HistoryKept`). To avoid proving each conjunct once per action, every
step is first shown to have an *effect* (`StepEffect`): it leaves the tables alone
or commits one record `e` and one row to one case, coherently; then each conjunct
is shown to survive any effect (`KeepsTimelineDeterminesStatus`, ...). The
refinement uses the same lemma.

`CaseCountProofs` counts, in the same case tables:

- `RowsCorrect` (`RowsMatchTimeline`). `Records(c, t)` is a cardinality of positions; a
  record appended adds one to its own type and none to another (`RecordsAppended`), and a
  complaint, submission or evidence row added is a set that gains one new member. The
  invariant also says that the rows are finitely many, that a complaint which does not exist
  has no submissions, and that a submission in flight is of its complaint's case (`RowsKnown`).
- `EventsMirrored` (`EventsMirrorTimeline`). A commit appends a record that announces a
  status together with its event: the announcing records grow by one, the earlier ones keep
  their ranks, and the new one ranks last, where its event is (`EventsMirrorCommitted`).
- `NotificationsCorrect` (`NotificationsFollowBreaches`). Every step of a scan keeps the
  balance of breaches committed, owners told, scans about to tell and failures
  (`BalancedStep`); the other handlers record no breach.

All three are inductive relative to `HistoryInv`.

`PaymentLedgerProofs` proves every property of `ledger_safety`, for every set of
rows, tenants, references and amounts, any number of handlers, and any bound:

- `LedgerInvariant`: the conjunction `LedgerInv` is inductive. What makes it so is
  `CallsRememberHistory`: a status, a request or a row that a handler read is
  still part of the history when the handler commits. Its argument is
  `StepKeeps`: no step changes owner, reference or amount of a row (`RowsKept`),
  removes an event (`LogsGrow`) or changes who issued a request and for how much
  (`RequestsKept`). `LogCorrect`, `PredecessorsCorrect`, `ConfirmedCorrect`,
  `FulfilledCorrect`, `JobsCorrect` and `LedgerTypeCorrect` follow.
- `AnswersCorrect`: the action property `AnswersAreComplete`, whose parts are about the
  reference, and about unsettled rows with the amount. The two searches are
  shown to find a row if there is one (`ByReferenceFinds`, `ByAmountFinds`), for
  any order of the rows: an order of a finite set enumerates it
  (`OrderEnumerates`, by the cardinality of an injection), and a nonempty set of
  indices has a first and a last one (`LeastIndex`, `GreatestIndex`, from the
  well-foundedness of the naturals).

The proofs assume only what the modules name: `NullAssumption`,
`MaxRequestsAssumption`, `RequestedStatusAssumption`, `StorageDriverAssumption`,
`MaxFailuresAssumption`; `LedgerAssumption`, `VerificationAssumption`,
`BatchAssumption` (null is no value of another kind, amounts are natural numbers,
the ids a database may hold are finitely many); `AccountAssumption`,
`AuthAssumption`; the assumptions of the gateway modules (numbers are numbers, null is
nobody); `PeopleAssumption` (null and "none" are nobody's names); `CacheAssumption`, `SessionAssumption`,
`ActionAssumption` (bounds are numbers, null is no request).

`SessionsProofs`: `TypeCorrect` with `RotatesOwn` (a rotation in flight is of a row that
exists, for that row's user), `ResetsClose` (a swept session was invalidated, and no
step makes an invalid row valid), `AuditTells` (the status an administrator read is in
the past of the account, and the log only grows) and `GrantsImplemented`: every step of
Session rows is a grant, a renewal, a closing or a stutter of `RefreshGrants`.

`CookieProofs`: `CookiesCurrent` and `LogoutsStick`, from one inductive invariant,
`CookieInv`. Neither property is inductive: a cookie is current only because the request
that is about to replace it writes the row first and is alone. The invariant says of the
users whose calls were orderly: the requests of one client do not overlap (`CallsAlone`);
what a client counts on, by its cookie or by a request that will answer it, is carried by a
session and counted on by no other client (`HoldsCurrent`); an answer brings the token that
was asked for (`AnswersOwn`); and a token logged out with is carried by closed sessions
only, with no rotation of theirs in flight (`LogoutsKill`).

`GatewayProofs`: `TypeCorrect`; `TenantsIsolated`, from what a write in flight remembers
of the membership that admitted it, which is kept when the member is removed;
`RevocationsHold`; `PaymentsHappenOnce`, an invoice and its payment being written by one
commit behind a unique reference; `LimitsSpread`, that 2N passes in a row take more than a
window, by relating the last passes of an address or a key to its window
(`Remembers`): those within the live window are no more than its count, and of those before
it all but the last N - 1 are more than a window's length older than its start (2N - 1 do
fit); `RepeatsRunOnce`, from the state of the requests
under way for a key.

`WebProofs`: `SessionsAgree`, by the
invariant `Own`: while a session is being restored and no sign-in has crossed it,
nobody is on the screen and the cookie is the restored user's or gone; `SignalsAddUp`, a
theorem about the operators of `DisputeAnalysis`: the score and the recommendation of
`evaluateTransactionRisk` are monotone in the signals. (Monotone is all they are: the
velocity signal stores REVIEW as its own action, `risk.service.ts:96`, while it alone
makes the recommendation VERIFY.)

`WebCacheProofs`:

- `WebTyped`: every step of the session renders, asks to sign out, loses its cookie or loads
  a document (`SessionSteps`); what each operation does to one entry of the cache is a
  lemma of its own (`MountedEntry`, `InvalidatedEntry`, `ArrivedEntry`, ...).
- `OwnChangesShown` (`ShowsOwnChanges`), by `DebtsInv`: rows that a page shows, *or could
  find fresh*, and rows that are on their way back are as new as what is owed. The tables of
  pages and actions enter by `PromisesAreRefreshed`: what an action owes its page it asks for again.
- `LeftoversFresh` (`LeftoversAreFresh`), by `LeftInv`: what a page asked for itself, while
  it was on the screen, it asks for as the user it shows or as nobody; rows everyone may read
  are nobody's; a form that waits covers the screen. A page that reads
  anything else is behind a guard (`PublicPages`), so while nobody is signed in, or a form
  is answered, nothing of a user is shown, and a change of user mounts every such entry
  anew, with the new cookie (`ObservedPrivate`, `RenderLeft`).

Both web invariants, and `CookieInv`, held in TLC on the instances of `web` and `sessions`
before they were proved.

With these, every invariant and every action property of a passing run is a theorem.
Model-checked only: the liveness properties `OverdueCasesMoveOn`, `BreachesAreTold` and
`ScreensSettle`, since the prover handles neither fairness nor ENABLED; and what the
violation runs of section 3 show, which is that something does not hold.

## 6. What is left

Hazards without a property: concurrent updates of `resolutionNotes`, the transaction
left over when a case cannot be created, the file left over when its row cannot be
committed (which no table shows), rows without a business, and a business whose last owner
is removed. Of the others the models have the behaviours; nothing in the repository says
what should hold of them. Several properties except a race that does go wrong in the code;
the note of the hazard in `PROJECT.json` says which.

## 7. Not modelled

- OCR: regular expressions over text, and one update of the row it read.
- Analytics and public endpoints: read-only queries and static answers (that pages
  read them is in `QueryCache`).
- Providers: CRUD on reference data, and adapters that answer fixed data.
- Reading notifications, system settings, feature flags, a business's profile: single
  updates of rows that no other modelled handler depends on.
- The user and business a registration opens beyond the account, phone numbers, KYB.
- Layout, form fields, filters, toasts and formatting of the web client; the hash it
  computes of a file, which the server computes again; the pages that only simulate a
  request.
- Swagger, the generated client contract, seed data beyond what exists initially,
  deployment files (the restart policy of `docker-compose.yml` is `Restart`).
