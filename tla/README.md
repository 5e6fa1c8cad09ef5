# Verification of next-level-api

TLA+ models of the parts of this API whose correctness depends on order, on
failure or on arithmetic: the session endpoints, the hashing of refresh tokens,
what a POST passes before its handler, the upload and the paging of receipts, the
migrations that run when a container starts, the token of the SoftOne adapter and the
requests that go to a tenant's ERP. TLC checks each model on a small instance; TLAPS proves the
safety properties for every value of the constants.

Paths are relative to the repository; where no directory is given, the file is
found under `src/src/`. Modules are run from this directory, for example

    tlc -config AuthSession.cfg MCAuthSession
    tlapm AuthSessionProofs.tla

## 1. Inventory

| Component | State it keeps | Operations | Hard behaviour |
|---|---|---|---|
| Sessions (`auth/`, `user/`) | `refresh_token_hash` of a user row; the pair of cookies in each browser | login, refresh, logout; JwtGuard, JwtRefreshGuard, LocalGuard | requests of one user interleave at every await; responses are lost or reordered; two token lifetimes |
| Refresh-token hashing (`auth.service.ts`) | what bcrypt has seen of a token | `bcrypt.hash`, `bcrypt.compare` on a JWT | bcrypt reads 72 bytes; a JWT is longer |
| Receipts (`receipt/`, `core/aws/`) | objects in the bucket, rows of `receipt` and `receipt_item` | `scanAndSave`; list, pages, one, items; presigned upload and view | three stores without a common transaction; a commit whose acknowledgement is lost; a process that dies; a webhook that does not answer; pages cut while receipts appear out of order or tie |
| SoftOne adapter (`erp/adapters/softone`) | `clientId`, `isAuthenticating`, `authPromise` | `getToken`, `authenticateFlow` | callers that arrive before, while and after a login settles |
| ERP dispatch and WME adapter (`erp/`) | none between requests; the books live in the ERP | four GET routes | requests of several tenants through one factory; books that change between two reads; text to number, rounding |
| Error mapping (`core/interceptors`, `core/filters`) | none | `NetworkErrorInterceptor`, `AllExceptionsFilter` | the same error code from different peers |
| Tenants (`tenant/`) | rows of `tenant`, never written | `findOneById` | a token that names a tenant the database does not hold |
| HTTP pipeline (`main.ts`, `app.module.ts`) | CSRF and access cookies of a browser | csrf protection and `GET csrf-token`, RolesGuard, Throttler, route guards, ValidationPipe | a CSRF token bound to a cookie that rotates under it; tabs that share the cookie; order of guards; shadowed routes |
| Schema and migrations (`database/`) | tables and the migrations run | eight migrations, up and down | columns added NOT NULL over existing rows; several containers that migrate at once and are killed; uploads that lock the same tables in another order |
| Encrypted configuration (`core/crypto`, `src/encrypt.js`) | none | `decrypt`, the script's `encrypt` | the layout of two hand-written codecs has to agree |
| Membership, tenant selection, seats | - | described in `src/README.md`, implemented nowhere in the source | - |
| Logging, Swagger, Helmet, CORS, DTOs | none of their own | configuration of libraries | - |

**Interactions.** A browser sends its cookies with each request. The route guards
validate a cookie (JwtRefreshGuard also against the user row) and give the
handler the user they found; from then on the handler works with what the guard
saw, at whatever moment it gets to run. The receipt controller's handler awaits,
in turn, the bucket, the n8n webhook and a database transaction. The ERP
controller's handlers read the tenant named in the access token, build an adapter
for this one request and await one or two calls of the ERP. An error of any
handler passes NetworkErrorInterceptor, then AllExceptionsFilter. Node runs one
continuation at a time, so a step of every model runs from one await to the next
and all interleaving is between awaits, plus what the other side (bucket,
database, ERP, network, browser) does meanwhile.

**What makes each part correct.**

- *Sessions.* Refresh and logout only against an open session; each admitted
  request takes effect at most once; a client is not locked out by lost or
  reordered responses; after a logout, access ends within one access lifetime.
- *Hashing.* Tokens of different users never match the same hash; what the hash
  does see of a token is the basis of the session model.
- *Receipts.* Every receipt keeps its picture; a receipt and its lines appear
  together; an answer tells the truth about what was recorded; an upload ends; a
  caller that follows the pages to the end misses a receipt only over another with
  the same `created_at`.
- *SoftOne token.* One login at a time, one token for all callers, a failed login
  is not handed on.
- *ERP requests.* A reply shows the books of the caller's own tenant, as they were
  at some moment between the request and the reply; totals are exact for them.
- *HTTP pipeline.* A page writes only as the user it asked its token for, and not once that
  user has been without a session for an access lifetime; tabs of one
  browser all come to a token that works.
- *Migrations.* The schema is always that of the migrations recorded as executed; the
  API serves only with the schema its entities describe; the schema stands still while an
  upload writes; a container fails for known reasons only; an unblocked deployment comes up.

`PROJECT.json` lists the hazards of the code, each at its line, with the
properties that would catch it.

## 2. Modules

| Module | Role |
|---|---|
| `JwtLayout`, `MCJwtLayout`, `JwtLayoutProofs` | which claims of a refresh token reach its bcrypt hash |
| `SessionRegister` | abstract: what the session endpoints promise |
| `BrowserCookies` | abstract: what the rest of the server sees of the session endpoints |
| `AuthSession`, `MCAuthSession`, `AuthSessionProofs` | login, refresh and logout at their awaits |
| `HttpPipeline`, `MCHttpPipeline`, `HttpPipelineProofs` | a POST from the CSRF check to its handler, composed with `BrowserCookies` |
| `ReceiptLedger` | abstract: what an upload promises its caller |
| `ReceiptScan`, `ReceiptScanProofs` | `scanAndSave` and the readers of a receipt |
| `ReceiptPages`, `ReceiptPagesProofs` | a caller that reads the list by pages, composed with `ReceiptScan` |
| `Deployment` | abstract: what a deployment promises whoever operates the API |
| `Migrations`, `MigrationsProofs` | the schema, its migrations and the containers that run them |
| `TokenService` | abstract: what `getToken` promises its callers |
| `SoftoneToken`, `MCSoftoneToken`, `SoftoneTokenProofs` | `SoftoneAdapter.getToken` |
| `ErpRequests`, `MCErpRequests`, `ErpRequestsProofs` | the four ERP routes, from the tenant of the token to the status of the reply |

Some modules hold a few *variants* of an operator, each named and commented as
one ("a guard that lets the request through without attaching the user").
They are not part of `Next`. Each is a plausible mistake in the code; put in
place of the operator it varies, it makes TLC report the property that
`PROJECT.json` pairs with it, which shows that the property depends on the code
being as it is.

### JwtLayout

`AuthService` stores `bcrypt.hash(refreshToken)` (`auth.service.ts:40`) and later
compares a presented token with it (`:175`). The machine reads a token one character
at a time, up to bcrypt's 72 bytes, and records which claims it has *touched* and
which it has read to the last digit. `ClaimOffset` is the byte of the payload at
which each value starts, in the order in which `login` and `refreshTokens` list
the claims; base64url turns byte *o* into the characters 8*o*/6 to (8*o*+7)/6. The
lengths of the claims are the constant `Shapes`. The header, the window, the
width of an instant and base64url belong to jsonwebtoken and bcrypt and are
marked external.

Two facts come out of it. The id is always read whole, so a token of one user
never matches the hash of another. `iat` and `exp` are never reached, so two
tokens of one user with the same claims are equal to bcrypt. `AuthSession` uses
both: its `BcryptInput(p)` is the id of `p`.

### AuthSession, implementing SessionRegister and BrowserCookies

| Model | Code |
|---|---|
| `refreshTokenHash` | the column of the user row; the value is the pair whose token was hashed |
| `jar` | the two cookies of a browser |
| `req` | a request in flight: its phase and the locals of its guard and handler |
| `released`, `revokedAt` | history: pairs put into a response; when the last logout of a user was saved |
| `Send` | the browser attaches its cookies to a call of the controller |
| `ValidateUser` / `ValidateCookie` / `Reject` | LocalGuard / JwtRefreshGuard with `validateRefreshTokens` / either guard throws |
| `GenerateTokens` | the turn that signs both tokens and calls `bcrypt.hash` |
| `SavePair`, `SaveLogout` | `updateUser`, then `res.cookie` or `res.clearCookie` in the same turn |
| `Deliver` | the response arrives; any order among responses of one client |
| `Fail` | the request or its response is lost, the process dies, or a database call throws |

An access token and the refresh token signed with it are one value, a pair
`[id, iat]`: same claims, same instant, two lifetimes. `updateUser` reads the
row, merges one field and saves; it is one step because `refresh_token_hash` is
the only column ever set through it, and a save of TypeORM writes the columns
that differ.

`SessionRegister` knows users with a session that is open or closed, and
tickets: a request is admitted (refresh and logout against an open session
only), and then takes effect once or is abandoned. The mapping: the column is
not null = open; a request between its guard and its save = a ticket. The register
says plainly that the effect of an admitted request is unconditional, because that
is how the code is: section 4 shows what follows from it.

`BrowserCookies` is the other view of the same module: the clock, the pair in
each browser, and per user since when it has no session (`ended`). There are no requests, no
hashes and no order of responses; any response may take a pair away or bring one that was signed
up to now, but none that is younger than the end of its user's session: login and refresh save
the hash before they set the cookies. The mapping is the identity on `now` and `jar`; a session
ends at the last logout (`revokedAt`) once the column is null. What is checked next to
`BrowserCookies` is checked for every behaviour of the auth module.

### HttpPipeline, composed with BrowserCookies

| Model | Code |
|---|---|
| `jar`, `now`, `ended` | the access cookies and the sessions, as `BrowserCookies` moves them |
| `csrf` | the CSRF cookie of a browser |
| `page` | a tab: the token in its memory, and the user whose access cookie its browser had when it asked for it |
| `fetch` | the response to `GET /auth/csrf-token` (`main.ts:99`) on its way |
| `status` | 500 if a page's last POST was answered so: it acts on nothing else |
| `SessionIdentifier`, `Valid` | `getSessionIdentifier` (`main.ts:72`), `doubleCsrfProtection` (`:105`) |
| `RefuseCsrf`, `Throttle`, `RefuseJwt`, `Handle` | the stations of a POST in their order |

The server keeps nothing about tokens. A token names the access token it was made
for (the hmac is over the session identifier), a valid cookie is repeated, and a
new token replaces one that is not (the library csrf-csrf with its default
options, external). A request is judged on what it took along, so the step that sends
it decides it; responses are what can be late.

The routes of the auth controller are exempt (`main.ts:89-93`), so a page cannot
lock itself out of signing in. `doubleCsrfProtection` throws an error of the package
http-errors, which is no `HttpException`: the filter logs it as unexpected and
answers 500, not 403 (`all-exceptions.filter.ts:47-64`). RolesGuard is
ahead of JwtGuard and would see no user, but no route names roles. `main.ts:68`
asks for a new CSRF token with every rotated refresh token; `refreshTokens` issues
none, so the next POST after a refresh is refused and the page has to fetch again.
`PagesConverge` says that this is enough: no tab is left with a token that
never works. It has a premise TLC asked for: tabs that fetch all the time, and not
only when they want a token, can take turns in undoing each other's cookie.
`NoWriteAfterLogout` is what the server really gives for the "immediate revocation" of
`src/README.md:70`: no handler runs for a user that has been without a session for an access
lifetime, whatever old token a browser holds and however late a response brings one.
`PagesSpec` is the pages by themselves; with any auth module that implements
`BrowserCookies` they make up `PipelineSpec` (section 5).

### ReceiptScan, implementing ReceiptLedger

A scan is one call of `scanAndSave` (`receipt.service.ts:100`), a phase per
await. `objects`, `receipts` and `items` are what the bucket and the *committed*
rows hold; writes of an open transaction are in no variable. Each await has its failures:

- `UploadFails` stores the object or does not; `s3Key` is unset either way;
- `ScanFails` covers errors of the webhook and the timeout of 30 s (`:85`);
- `ValidateFails` is `validateOrReject` refusing the answer of the webhook;
- `TransactionFails` rolls back; `CommitUnknown` commits and loses the
  acknowledgement. Neither reaches the catch block, since the promise
  of the transaction is returned without `await` (`:125`);
- `CleanupFails` is the delete whose error is logged and dropped;
- `ReplyLost`, and `Crash`, which ends all calls in flight where they stand.

`FindReceipt`, `ReceiptNotFound` and `FindByReceiptId` are `getReceiptForUser` and
`getReceiptItems`, two statements in no transaction.

`ReceiptPages` adds a caller of `findPageForUser` (`receipt.repository.ts:30`) that starts
at page 1 and goes on while `page * limit < total`. `findAndCount` is two
statements, and TypeORM spares the second when the page is not full
(`InferCount`). Pages are ordered by `created_at` alone, which PostgreSQL sets to the start of
the transaction: of two overlapping uploads the older may appear later,
*behind* newer ones. Nor is the instant unique: it is read from a clock that all
connections share, with a precision of microseconds. `Stamp` lets it show anything of
`Instants`, twice or out of order, and `FindPage` draws for every query one of the `Orders`
that agree with `created_at`, so that receipts that tie may change places between two
pages and one of them be missed. `WalkMissesOnlyTies` says that nothing else makes a caller
miss what was there at the start: it was given a receipt of the same instant in its
stead. Without ties it has seen everything, since receipts are never removed and so only move
towards later pages. The variant `OrdersUnsorted` is what the comment next to the order
suggests ("remove if you don't have createdAt"). Nothing in the source calls
`getReceiptPageForUser` yet (the controller lists all, `receipt.controller.ts:38`);
the caller is what its answer, `total` with `page` and `limit`, is made for.

`ReceiptLedger` says what a caller may believe: an upload is recorded at most
once and never after its answer; "created" is answered only for a recorded
upload; an error that the service itself reports (400, 500 of the catch
block) means it was not recorded; any other ending tells the caller nothing.

### Migrations, implementing Deployment

Each container runs `migration:run:prod && node dist/main.js` (`Dockerfile:47`).
TypeORM looks for its table of executed migrations (`HasTable`), creates it if there is none
(`CreateTable`, a statement by itself), reads it (`Load`), runs the rest in one
transaction (`Migrate`, `Commit`) and records them in it; PostgreSQL rolls
DDL back with the rest (`Fail`, `Crash`) and makes a second container wait for the
locks of the first (`AtMigration`). `Revert` is `migration:revert` (`package.json:24`) on a
database nothing else uses.

An earlier release may go on serving, and its uploads write into the tables that change
(`receipt.service.ts:125-156`). An upload `holds` a table from its insert to its commit and
keeps migrations out of it; it `wants` the tables it has yet to insert into, `receipt_item`
only if the receipt has lines, and waits for those a migration has locked. An upload inserts into `receipt` first, the
pending migrations may lock `receipt_item` first: when each waits for the other, PostgreSQL
aborts the migration (`LoseDeadlock`) or the upload (`UploadFails`). Reads of one statement hold
one table and cannot take part. That a waiting migration also holds up later uploads is left
out: without it more interleavings are possible, not fewer.

The schema is a set of tables and of columns added later than their table.
`Adds`, `Drops`, `Locks` and `NeedsEmpty` are a row per migration file; `up` adds and
drops, `down` does the opposite, as every `down` of the repository does. Four
migrations add a NOT NULL column without default and need their table empty
(`1769523612589`, `1769523803405`, `1769524755485`, `1770093102405`).

`FailsOnlyForCause` lists every way in which the command can end without success while the
database can be reached. Two containers that start together can both see the same pending migrations. The
second waits, then fails at a table or column that exists, rolls back, exits, and
finds nothing to do when it is started again. On a fresh database they can both find no
table of migrations, and one fails to create it with everything still pending. A deadlock
with an upload is lost at one place only: before the seventh migration, the first one of
`receipt`, by a transaction that began with a migration of `receipt_item`, so that the release that serves
is older than the sixth. After each of these the next start goes on
(`EveryContainerServes`). Over rows, a blocking migration fails at every
start, for ever: the premise of `EveryContainerServes`.

`SchemaStillUnderUpload` says that no migration is committed between the two inserts of an
upload. No single lock gives this; it holds because all pending migrations are one transaction
and the last of them locks the table every upload begins with.

`Deployment` is what is left of all this for an operator: a version that goes to the last
one in one step, which is taken only over data that fit every migration on the way and
loses none of them; an undo that loses the rows of the tables its migration had created;
an API that serves at the last version only. The mapping: `version` is `done`,
`Creates` is `Adds` without the columns, a `Commit` is the whole of a deployment and
what a container did before it is nothing; `CommitUpload` stores rows, in one table or in both. What makes it true is that locks are
held from the statement that looked at the rows to the commit: the variant
`MigrateEach`, which commits each migration by itself, breaks it.

### SoftoneToken, implementing TokenService

The three fields of the adapter and, for each `authenticateFlow`, where it and the
`then` and `finally` chained to it stand. A caller of `getToken` takes one of three
branches (`softone.adapter.ts:64-82`) in one turn: return the cached token, share
the promise, or start a flow. `Then` and `Finally` are turns of their own, so
callers run between them. A caller resumes with the outcome of the promise it was
given, not with the present fields.

`TokenService` knows logins that run, succeed or fail, and callers that take the token there is,
wait for the login that runs, or begin one when there is neither. The mapping: a flow runs until
its `then` stores the token (it has succeeded, though the flag is still up) or until the
`finally` after a failure (it has failed; until then callers join it). The three
fields do not appear in it: that they stand for one login is what the refinement says.

Nothing calls `getToken` today: the four data operations of the adapter throw
"not implemented", and the factory builds a new adapter for each request. The
model is of the class as it is written, for whoever keeps an instance.

### ErpRequests

A request carries `op` (the route), `claim` (the tenant in its token), `adapter`
(the tenant whose configuration its adapter holds), and per read of the ERP the
result made from it. `history` holds every version of what an ERP answers, so a
property can say *which* version a reply shows; `opened` is the version
current when the request arrived. `Post` is the tenant's books changing.

The conversions are modelled by what they do. An amount is a text of so many
cents with so many commas and points; `Number(text.replace(',', '.'))` reads it if
there is at most one mark and gives NaN otherwise. The dashboard adds per document
kind and currency and rounds once (`wme.adapter.ts:126-213`); the loop is the recursive
function `DictionaryAfter`, and `TotalsExact` compares its result with a plain sum of the
lines of a currency, `CentsUpTo`; `toFixed(2)` rounds
halves outwards, `Math.round` upwards. JavaScript's doubles are abstracted to
exact decimals: at a tie a double may fall on either side, and `TotalsExact`
allows half a unit in either direction for that reason.

Every error goes through the operators `NetworkErrorInterceptor` and
`AllExceptionsFilter`. `cause` remembers what really failed. A tenant that does not
exist, a configuration that cannot be decrypted and a SoftOne tenant all end in
`NoAdapter` with 500. The check of a missing `tenantId` in the service never fires:
the column is NOT NULL and every token carries it.

## 3. Runs

| Run | Instance | Distinct states | Checks |
|---|---|---|---|
| `JwtLayout.cfg` | 36 shapes of a user | 2,628 | TypeOK, IssueInstantUnseen, OwnerSeen |
| `AuthSession.cfg` | 1 user, 2 clients, 2 requests, clock to 2 | 212,624 | TypeOK, NoSelfLockout, AccessEndsAfterLogout, ReleasedBeforeLogout, ImplementsSessionRegister, ImplementsBrowserCookies |
| `HttpPipeline.cfg` | 1 user, 1 browser with 2 pages, clock to 1, 5 random values | 156,336 | PipelineTypeOK, NoWriteAsAnotherUser, NoWriteAfterLogout, PagesConverge |
| `ReceiptScan.cfg` (module `ReceiptPages`) | 2 scans, 2 users, 1 line, 1 reader, 1 caller of pages of 1 receipt, 2 instants | 339,275 | PagesTypeOK, NoDanglingKey, ReaderSeesWholeReceipt, ReportedErrorLeavesNothing, WalkMissesOnlyTies, ImplementsReceiptLedger, EveryScanEnds |
| `Migrations.cfg` | 3 containers, 1 upload, 3 crashes or reverts | 70,090 | TypeOK, SchemaAgreesWithLedger, ServesOnlyEntitySchema, SchemaStillUnderUpload, FailsOnlyForCause, EveryContainerServes, ImplementsDeployment |
| `SoftoneToken.cfg` | 4 callers, 4 flows | 379 | TypeOK, SingleFlight, CallersAgree, FailureNotShared, ImplementsTokenService |
| `ErpRequests.cfg` | 2 requests, 3 tenants and a missing one, 1 change of the books | 299,768 | TypeOK, OwnBooks, TotalsExact |
| `AuthRotation.cfg`, `AuthLogoutRace.cfg`, `AuthStateless.cfg`, `ReceiptLeak.cfg`, `ErpOutage.cfg` | as above | until the counterexample | one property each, violated (section 4) |

**Bounds, and why they are enough.**

- *JwtLayout.* Each length appears short, typical and long. The only relation that
  matters is where 72 falls, and the proof covers all lengths.
- *AuthSession.* The two races that matter, refresh against logout and refresh
  against refresh, take two requests; a third could only repeat one of the two.
  Two clients of one user are a second browser, or a first one that keeps an old
  pair. `AccessTTL` 1, `RefreshTTL` 2 and `MaxTime` 2 let a pair be fresh, past
  its access and past its refresh lifetime. `MaxTime` bounds the clock by a
  guard. One user is enough for every race on one row; that users do not disturb
  each other, and a browser that changes users, is left to the theorems of
  section 5, which hold for any number of users.
- *HttpPipeline.* Two tabs are what it takes for one to replace the other's cookie. With one user,
  "another user" is the visitor who has not signed in or has signed out; the theorem
  covers any number. `MaxTime` 1 and `AccessTTL` 1 let a cookie expire and be
  refreshed with another instant, and a session have ended an access lifetime ago. `Nonces` 1 to 5 is one more than can be in use when a
  page fetches (the cookie, two pages, the other page's fetch): `FetchCsrfToken` is
  never held back by the bound.
- *Migrations.* Two containers race and a third comes late; three faults let a
  container crash in each race, or a chain be reverted by three and run again. Every
  release and every distribution of rows is an initial state. Uploads do not keep each
  other out, so one is enough for every wait and every deadlock; it may be one with lines or
  without, and comes once. The theorems cover any number.
- *ReceiptScan.* Scans meet only in the bucket, the tables and a crash, so two are enough for one
  to disturb another; a line is there or not; one reader catches a row at
  every moment. `MaxLimit` is 1, so that two receipts make two pages, and a limit of 0
  and of 2 are asked for, one on each side. Two `Instants` let the two receipts tie, or be
  stamped in either order. The reader and the caller of pages take
  turns: neither writes, so neither can disturb the other.
- *SoftoneToken.* Four callers: one that starts a flow, one that joins it, one
  that comes after it failed, one that comes after the next has stored its token.
  `Flows` equals `Callers`, as each call starts at most one flow.
- *ErpRequests.* Two requests cover every pair of routes and tenants; one change of
  the books (`MaxPosts`) can fall before, between and after the two reads of a
  dashboard. The balances hold positive and negative ties, a second currency, both
  documents that count, one that does not, an empty answer and an unreadable amount.
  "unreadable" configurations take the branch of a SoftOne tenant and have no
  tenant of their own in this run.

Symmetry is used for users, clients and requests in `AuthSession.cfg`, callers and
flows in `SoftoneToken.cfg` and requests in `ErpRequests.cfg`: no definition tells
these apart, and none of the three runs checks liveness.

**Deadlock** is checked in the session, pipeline and receipt runs. Disabled where the system
may stop: a machine that has read its 72 bytes (`JwtLayout`), callers that all have
their token (`SoftoneToken`), requests that are all answered (`ErpRequests`), containers that all
serve (`Migrations`).

**Fairness.** `ReceiptScan!FairSpec` (and `FairPagesSpec` on top of it) is weak
fairness of a scan's own steps: each is the continuation of an await that
settles, and Node's event loop runs it. No failure is ever required. The answer of the
webhook is not among these steps, the
timeout of 30 s is. Bucket and database are assumed to answer or to fail. The calls of
WME (`wme.adapter.ts:226`) and of SoftOne (`softone.adapter.ts:120`) have no
timeout: nothing in the code bounds the wait, so those modules state no fairness and
claim no liveness. `Migrations!Fairness` is weak fairness of each container: the command and
the process go on, a lock is granted once it is free, and a container that ended is
started again by whatever keeps it running (the repository does not configure it); and of each upload that has begun: it commits or
fails, and PostgreSQL ends a deadlock with one side or the other. `HttpPipeline!PipelineFairness` is about the pages,
which are not in the repository: a page goes on writing, fetches a token when it has
none or was refused, and not every answer is lost. It is strong fairness since each of these
may be interrupted by a lost message or by another tab over and over; it is a
premise on the client, stated so that what the server does can be seen to suffice.

`AuthSession` states no fairness and claims no liveness. RequestsOnlyAdvance says that a
request takes four steps of its guard and handler at most.

## 4. Where the code does not do what is said of it

| Run | What is said | What happens |
|---|---|---|
| `AuthRotation.cfg` | `src/README.md:65` "Rotated on every refresh", `:69` "One active session per user" | Refresh tokens replaced by a refresh or a later login are still accepted until they expire: bcrypt sees nothing that changed. |
| `AuthLogoutRace.cfg` | `src/README.md:70` "Immediate revocation on logout" | A refresh validated before a logout saves after it, and the session is open again. |
| `AuthStateless.cfg` | `src/README.md:71` "session validated on every request" | `JwtStrategy` reads nothing of the database: an access token lives on after the logout. `AccessEndsAfterLogout` says for how long, and `NoWriteAfterLogout` what that means for a POST. |
| `ReceiptLeak.cfg` | `receipt.service.ts:160` "Clean up S3 if we uploaded but failed later" | A transaction that rolls back leaves its object: its promise is returned, not awaited, and the catch block never sees it. |
| `ErpOutage.cfg` | `all-exceptions.filter.ts:47`, a database outage is an unexpected error (500) | A refused database connection has the code of an unreachable ERP and is answered 503 "External API unreachable". |

Three notes on these. The first and `NoSelfLockout` are two sides of one fact: because earlier
tokens match, a browser whose response was lost is not locked out; hashing the
whole token (the variant `BcryptInputWhole`) repairs the rotation and breaks
`NoSelfLockout`. `AccessEndsAfterLogout` speaks of users
that have no session: a user whose session a late refresh has opened again is not one.
And adding `await` alone at `receipt.service.ts:125` would let the catch block delete the
picture of a receipt whose commit went through unacknowledged (the variant
`CommitUnknownAwaited` violates `NoDanglingKey`).

Met while reading, without a run: `typeorm.config.ts:19` parses the port with radix
5432, which gives NaN; `GET receipts/presign-view` (`receipt.controller.ts:67`) is
declared after `GET :id`, which takes its path, so that it always ends with 400; a POST
without a valid CSRF token is answered 500; the e2e test expects a route `GET /`
that no controller has; the order of the pages has no second key
(`receipt.repository.ts:40`), so that receipts of one instant may be given twice or not at
all (`ReceiptPages`).

## 5. Proofs

All theorems hold for every value of the constants, under the named assumptions of
the modules: `NoneAssumption` (the null value is none of the others),
`TTLAssumption` and `LifetimeAssumption` (lifetimes are positive; they are numbers), `ShapesAssumption` (an id has 1 to 10
digits, other claims are not empty), `ErpAssumption` and `BooksAssumption` (each
tenant has one kind of ERP; the first answers are answers), `LinesAssumption` (balances are
sequences of lines, of any length; NaN is no integer), `PagesAssumption` (of
`HttpPipeline`: each page is in a browser; of `ReceiptPages`: scans are finitely many
and the maximum and the instants are positive), `MaxFaultsAssumption` (a number).

| Module | Theorem | Property |
|---|---|---|
| `JwtLayoutProofs` | TypeCorrect, RotationInvisible, OwnerBound | TypeOK, IssueInstantUnseen, OwnerSeen |
| `AuthSessionProofs` | TypeCorrect, LogoutBoundsReleased, AccessEnds, NeverLockedOut, Refinement, CookieRefinement, RequestsOnlyAdvance, PagesNextToSessions | TypeOK, ReleasedBeforeLogout, AccessEndsAfterLogout, NoSelfLockout, ImplementsSessionRegister, ImplementsBrowserCookies, the two of `HttpPipeline` |
| `ReceiptScanProofs` | TypeCorrect, PictureKept, ReadersSeeWhole, ReportedErrorsClean, Refinement, ScansOnlyAdvance | TypeOK, NoDanglingKey, ReaderSeesWholeReceipt, ReportedErrorLeavesNothing, ImplementsReceiptLedger |
| `ReceiptPagesProofs` | PagesImplementScan, PagesTypeCorrect, PagesMissOnlyTies, PagesKeepUploads | `Spec` of `ReceiptScan`, PagesTypeOK, WalkMissesOnlyTies, the properties of `ReceiptScan` |
| `HttpPipelineProofs` | TypeCorrect, NeverAsAnotherUser, NobodyAfterLogout, Composes | PipelineTypeOK, NoWriteAsAnotherUser, NoWriteAfterLogout |
| `MigrationsProofs` | TypeCorrect, AllOrNothing, ServesEntitySchema, UploadsKeepSchema, FailureHasCause, Refinement | TypeOK, SchemaAgreesWithLedger, ServesOnlyEntitySchema, SchemaStillUnderUpload, FailsOnlyForCause, ImplementsDeployment |
| `SoftoneTokenProofs` | TypeCorrect, OneLogin, OneToken, FailuresEnd, Refinement | TypeOK, SingleFlight, CallersAgree, FailureNotShared, ImplementsTokenService |
| `ErpRequestsProofs` | TypeCorrect, OwnReplies, DashboardsExact | TypeOK, OwnBooks, TotalsExact |

**The inductive invariants.** Each proof module defines `IInv`, shows that the
initial states satisfy it and every step keeps it, one lemma per action or group of actions
that change the same things, and derives the properties from it.

- *JwtLayout.* A touched claim starts before `pos`, and an id that ends before `pos` is
  complete. The rest is arithmetic on the offsets: counted from 0, an id ends at
  character 58 at the latest and `iat` starts at character 103 at the earliest.
- *AuthSession.* A hash is of a pair of its own user; a request past its guard has a
  user, and a signed pair is of that user and not from the future; neither is a
  released pair. With these, `ReleasedBeforeLogout` is inductive: a logout
  is saved now, and everything released before was signed no later. Access
  ends by adding the lifetime. `NoSelfLockout` needs only that a hash is of its own
  user, since bcrypt sees the id alone.
- *ReceiptScan.* A scan alone owns its key and its rows; it holds its object from the
  upload to the commit; a receipt is committed with all its lines; an answer on its
  way agrees with what was committed. A reader that has found a receipt found it
  committed, and rows are never removed.
- *Cookies.* `AuthSession` implements `BrowserCookies` because a pair on its way was released
  when the hash was saved (`PairsReleased`), and of what was released the invariant of *AuthSession* knows
  that it is neither from the future nor younger than a logout that still holds.
- *HttpPipeline.* The token of a page and of a fetch on its way names the access token its
  browser had when the page asked, and so that user. A POST is handled only with a token that
  names the access token it takes along. For `NoWriteAfterLogout`: no browser has a token from the
  future or one younger than the end of its user's session (`JarOK`); a session that ends, ends
  now, so no token is younger, and a response may bring none that is. The lifetime does the rest.
- *The pages next to the sessions.* A step of the pipeline is a step of the cookies or one of the
  pages (`ComposedStep`), so the two components together are the pipeline (Composes). With
  CookieRefinement, the lemmas of `HttpPipelineProofs` hold with `AuthSession` in the place of its
  abstraction: PagesNextToSessions is about the handlers as they are coded and the pages at once, a
  system that no run covers as a whole.
- *Migrations.* The committed schema is `SchemaAfter(done)`, an open transaction's is
  `SchemaAfter(at)`, and a transaction that is open keeps every other out; a container
  that has migrated or serves finds every migration done, since `Revert` waits for all to be
  down. What the eight migrations do to the schema is decided by evaluating them. The
  refinement needs `RowsOK`: the tables that a migration of an open
  transaction found without rows still have none, since it locked each of them
  (`NeedsEmpty[i]` is part of `Locks[i]`). The uploads need `UploadsOK`: one that holds anything holds
  `receipt`, and none holds what an open transaction has locked. So a
  transaction that has run all eight is alone (`CommitAlone`), which gives `SchemaStillUnderUpload`;
  and a deadlock takes an upload that holds `receipt` and wants
  `receipt_item`, a lock on the second taken by migrations 3 to 6, and none yet on the first,
  which leaves migration 7 (`DeadlockPlace`).
- *ReceiptPages.* A step next to the pages is a step of `ReceiptScan` or changes nothing of it, so
  each theorem of `ReceiptScanProofs` carries over (PagesKeepUploads). For `WalkMissesOnlyTies`:
  a receipt that was there at the start, and of whose instant the caller was given none, has
  at least `Skip(page, limit)` newer ones before it (`WalkOK`). A receipt keeps its instant and
  those that appear can only raise this rank. However a query orders the ties, the place right
  after the newer ones goes to a receipt of the same instant (`PlaceOfInstant`: fewer
  places than newer receipts would be too few, and nothing older may come before); if it is on the page,
  the caller is given one. If not, the rank lies a whole page further and the page is
  full (`FullPage`), so the caller goes on. No assumption on the clock is needed.
- *SoftoneToken.* A flow that has not run its `finally` is the one whose promise is
  kept, and the flag is up exactly while there is one; the cache is empty until a flow
  fills it; what it holds is the token of a flow that succeeded. `CallersAgree` is not inductive without these: a second `then`
  would replace the token if a second flow could start. The refinement needs them too: a caller that
  finds the flag down and the cache empty finds no flow that runs or has succeeded
  (`NothingToJoin`), and one that finds the flag up joins a flow that runs.
- *ErpRequests.* A request past its lookup has an adapter for its own claim; the
  history of a tenant is never empty; a read that is done shows a version between
  `opened` and the last, which stays true as versions are only added. The variant
  `GetAdapterCached` breaks the first of these. `DashboardsExact` adds what is made of an
  answer: after *i* lines the dictionary of a document has exactly the currencies of its lines
  so far, NaN for those with an unreadable amount, and the plain sum for the others
  (`SumsOK`); rounding moves a sum by half a unit at most. The provers take no induction
  over an operator, so `NatSetInduction` is induction over a *set* of numbers, derived from the
  well-foundedness of strict inclusion, and the recursive functions are first shown to
  satisfy their equations (`DictionaryUnfolds`, `CentsUnfold`).

- *Progress.* RequestsOnlyAdvance and ScansOnlyAdvance count the steps a request or an upload
  still has before it (`StepsLeft`): each of its own steps lowers the count, a step of another leaves it,
  and a crash ends it. So neither goes round in circles or is retried by the server, without any
  fairness. That the steps are taken is what remains to TLC.

**Only model-checked.** Liveness (`EveryScanEnds`, `PagesConverge`,
`EveryContainerServes`) needs fairness, which the prover does not handle. Every other property of a passing run is a theorem. The counterexamples of
section 4 are runs.

## 6. Not modelled

- The encrypted configuration: one stateless call. `encrypt.js` writes iv, ciphertext and tag, 12
  and 16 bytes around the text, and `decrypt` cuts at the same offsets; the rest is the cipher.
  That it can fail is a branch of `ErpRequests`.
- Presigned uploads and views: the API computes a URL and keeps nothing. The object that is
  put there belongs to no row, and no code reads it.
- The bodies a ValidationPipe refuses, and what the throttler counts: any request may be refused by
  the throttler; validated query classes are read by ERP routes only, and refused before any step of theirs.
- Lost updates of a user row (`user.service.ts:36`): a second writer of another column is what it
  takes, and there is none.
- Cookie attributes, password hashing, throttle limits: constants of libraries.
- Membership, tenant selection and seat limits: no code in the source.
- Swagger, Helmet, CORS, logging, DTO and entity classes: no state of their own;
  where a check of a DTO decides a branch, the branch is modelled.
- bcrypt, jsonwebtoken, TypeORM, PostgreSQL, S3, n8n, WME, SoftOne: modelled by how the
  code uses them and what it can see of their failures.

## 7. Plan

The order of the work was: sessions first, since every route depends on them, then the
operation that writes to several stores, then the ERP side, then what surrounds the handlers
(pipeline, pages, migrations). What is left:

1. **Two users in the session run.** With two users TLC finishes only at clock 1 (907,299
   states); a larger instance waits for an abstraction of the request slots.
2. **Proofs.** Every property of a passing run is a theorem but the three liveness properties,
   which wait for a prover that handles fairness and ENABLED. A measure for
   containers is not like that of an upload: a container that ended is started again.
3. **updateUser.** When a second column becomes writable through it, its read and its write
   have to become two steps of `AuthSession`.
