# my-closet in TLA+

A verification development for my-closet: a NestJS API (`apps/api`) with a
Prisma/PostgreSQL database, a Flutter app (`apps/mobile`), and a page of design
documents (`docs/design`) with a program of its own. It models the
parts whose correctness depends on the order in which requests, workers, calls
and failures meet, and checks them with TLC on small instances and with TLAPS
for every value of the constants.

- [1 Inventory](#1-inventory) of the system
- [2 What is modelled](#2-what-is-modelled)
- [3 Runs](#3-runs): what each shows, bounds, fairness
- [4 Proofs](#4-proofs)
- [5 Where the code and its documents disagree](#5-where-the-code-and-its-documents-disagree)
- [6 Plan](#6-plan)
- [7 Not modelled](#7-not-modelled)

## 1 Inventory

One Node process serves all API requests. A request handler runs until its next
`await`; other handlers, and the worker of the batch queue, run in between.
Nearly every interesting state change is a separate awaited Prisma call, so the
natural grain of a model is **one step per awaited call**. No transaction
reaches across a service method except where noted.

| Component | State | Operations | Correct means |
| --- | --- | --- | --- |
| **Bulk registration** `api/src/items/batch` | `ItemBatch`, `ItemBatchItem`, `Item` rows; in-memory promise-chain queue; the running job's local snapshot | `POST /items/batch`, `POST /items/batch/:id/retry`, `GET /items/batch/:id`, the worker `process` | every photo is treated, once; counters agree with photos; the batch finishes; one active batch per user; a repeated request is answered with the first batch |
| **Single-item registration** `api/src/items` | `Item` rows | presign, create | input checks; no shared state |
| **Object storage** `api/src/storage` | objects | presign, head | development stub |
| **OTP** `api/src/auth/otp.service.ts` | `OtpRequest` rows (code hash, attempts, consumedAt, expiresAt, sessionConsumedAt), OTP-session tokens | request, verify, consume session | at most 5 per hour and one per 60 s; at most the allowed wrong attempts; a session is used once |
| **PIN lockout** `api/src/auth/pin.service.ts` | `User.pinHash`, failure count, lockedUntil | verify, reset | five wrong PINs lock for 10 minutes |
| **Refresh tokens** `api/src/auth/jwt.service.ts` | `RefreshToken` rows (hash, revokedAt) | issue, rotate, revoke one, revoke all | a token is rotated at most once; no token outlives a revoke-all |
| **Accounts** `api/src/auth/auth.service.ts` | `User` rows | signup, PIN login, PIN reset, phone change, logout, refresh | a phone number has one owner; a PIN reset ends all sessions; a used OTP session buys exactly one effect |
| **Access guard** `api/src/auth/auth.guard.ts` | none | check of the access token | pure |
| **SMS gateway** `api/src/sms` | none | one outbound call | pure I/O |
| **Mobile session** `mobile/lib/features/auth/auth_state.dart`, `core/network/auth_interceptor.dart`, `core/storage` | auth state, the in-flight refresh, the stored token pair | restore, setSession, refresh (single flight), retry after 401, signOut | a 401 leads to one refresh and a retry, or to sign-out; stored tokens are the server's; nobody waits for ever |
| **Mobile screens and router** `mobile/lib/app/router.dart`, `features/auth/presentation` | screen, flow data, resend timer | redirects, signup, login, reset flows | every auth state reaches a screen that works |
| **Image slots** `docs/design/image-slot.js` | the store of all slots, tombstones, the sidecar file, per slot a generation, a crop under way | drop, encode, crop, remove, read, serialized write | the newest picture is held and saved; other slots' pictures are kept; a crop belongs to its picture |
| **Canvas** `docs/design/design-canvas.jsx` | per section order, names and deletions; the sidecar file; menus, drags, the overlay | rename, drag, two-click delete, look through the overlay, read, debounced write | what is shown is saved; artboards go only when deleted; arrows reach everything |
| **Viewport** `DCViewport` of the same file | pan and scale, localStorage, the last scale posted | pan, zoom, gestures, restore, messages with the host tool | the view survives a reload; the host shows the scale |
| **Prototype** `docs/design/src/prototype.jsx` | login, tab, closet, outfits, the outfit being built, what is open | login, build, record, wear again, add an item | slots hold what fits them; what was recorded is found again |
| **Static design screens** `docs/design/src/trendy.jsx`, `screens-*.jsx`, `app.jsx` | none that matters | none | pictures in JSX |
| **Logging, analytics, configuration, seed** | none that matters | text, wiring | not state machines |
| **Outfits, calendar** | tables only | none yet | no code |

How they interact: the app calls the API over HTTP through one `dio` instance
whose interceptor attaches the access token and refreshes it on 401 (calls and
callbacks); `auth.service` calls OTP, PIN and token services one after another
(several awaited calls, mostly with no transaction around them); request
handlers and the batch worker meet in database rows and in the queue (shared
state); the client uploads photos straight to object storage, so the worker and
the upload race. The design page is apart: its parts share the page and the host
tool's bridge `window.omelette`, talk to the host by messages, and meet their own
reads, writes, timers and renders.

Hard behaviours, listed line by line in `PROJECT.json` under `hazards`:

- *check, then act* over two awaited calls: active-batch limit, idempotency key,
  OTP cooldown, OTP session, token rotation, duplicate phone number;
- *stale values written back*: the failed counter of a retry, OTP attempts, PIN
  failure count, the final status of a job;
- *a job and a retry of the same batch at the same time*: the job works from a
  snapshot it read before its first await;
- *one step of several failing*: insert then enqueue, createItem then mark,
  signup and PIN reset;
- *crash and restart*: jobs in memory, a token exchanged and not yet stored;
- *waiting for oneself*: the refresh request passes through the interceptor
  that waits for the refresh;
- *late results*: an encoding, a sidecar read, a debounced write or a message
  that arrives after its reason is gone.

## 2 What is modelled

| Module | Lines | Models |
| --- | --- | --- |
| `ItemBatch` | the model | request handlers of create and retry, the queue, the worker, the rows, uploads and failures |
| `BatchLedger` | abstract specification | what a batch promises about its photos |
| `MCItemBatch` | instances for TLC | constants of the `batch_*` runs |
| `ItemBatchProofs` | proofs | types, counters and ledger of `ItemBatch`, section 4 |
| `ItemBatchJobsProofs` | proofs | its jobs: `PendingServed`, `ItemPerPhoto`, `OneJobPerBatch` |
| `ItemBatchRetryProofs` | proofs | its retries: the failed counter and the final status |
| `RefreshTokens` | the model | the refresh-token rows, and the requests that issue, exchange and revoke tokens |
| `TokenLedger` | abstract specification | what a refresh token promises its holder |
| `MCRefreshTokens` | instances for TLC | constants of the `tokens*` runs, and the history variable of one property |
| `RefreshTokensProofs` | proofs | theorems about `RefreshTokens`, section 4 |
| `MobileSession` | composition | the app's auth state, coroutines, interceptor and storage on one device, over `RefreshTokens` |
| `MCMobileSession` | instances for TLC | constants of the `session*` runs |
| `SessionProofs` | proofs | types, refreshes and storage of `MobileSession`, over `RefreshTokensProofs` |
| `AuthRequests` | the model | the requests of the authentication API in flight, and the clock |
| `Otp`, `PinLock` | the model | one-time codes and their sessions; PINs, failures and locks (both EXTEND `AuthRequests`) |
| `Accounts` | composition | signup, login, PIN reset and change of number over `Otp` and `PinLock` |
| `MCAccounts` | instances for TLC | the worlds of the `accounts*` runs |
| `AccountsProofs` | proofs | types, numbers, failures, locks and resets of `Accounts` |
| `AccountsLimitsProofs` | proofs | its sessions, attempts and sends |
| `DesignHost` | the model | the page and the host tool's bridge |
| `ImageSlot`, `DesignCanvas`, `CanvasViewport`, `Prototype` | the model | the four parts of the design page |
| `DesignPage` | composition | the four parts on one page |
| `MCDesign` | instances for TLC | constants of the `design` run |
| `DesignProofs` | proofs | theorems about the four parts |

### ItemBatch

State, and where it lives in the code:

| Variable | Code |
| --- | --- |
| `batch[b]` | the `ItemBatch` row: status, userId, idempotencyKey, total, completed, failed. `"ABSENT"` before the row exists |
| `item[b][s]` | status of the `ItemBatchItem` of photo `s`; `"NONE"` if the batch is shorter |
| `created[b][s]` | number of wardrobe `Item`s the worker inserted for the photo |
| `uploaded` | objects `headObject` would find |
| `queue` | the jobs chained on `InMemoryBatchQueue.pending` and not started |
| `worker` | the running `process` call: its place (`pc`), batch, rest of its snapshot, current photo, computed final status |
| `handler[h]` | one request being served: its place, user, key, count, batch, number of failed photos it saw |
| `retries` | only for the bound `MaxRetries` |

Actions follow the code from await to await. *Create*: `PostBatch` (validated
request), then the lookup of the key (`Replay` / `KeyIsNew`), of the active
batch (`RejectActive` / `NoneActive`), the insert (`Insert`, or `InsertRefused`
by the unique index), `PresignAndEnqueue`. *Retry*: `Retry` (reads, counts the
failed photos), `Reset` (the transaction), `EnqueueRetry`. *Worker*: `TakeJob`
(reads the batch with its photos), `MarkProcessing`, per photo `Inspect`,
`CreateItem`, `MarkCompleted` or `MarkFailed`, then `ReadFinal` and `MarkFinal`.
*World*: `Upload`, and the failures `HandlerFails`, `InspectFails`,
`WorkerCallFails`, `JobFails`, `Crash`.

Abstractions, each sound for the properties stated:

- A Prisma call, or a `$transaction`, is one atomic step. That is what
  PostgreSQL gives single statements on a row (`increment` and `decrement` are
  done by the database, not on a value read earlier); the two-statement
  transactions touch rows by id, so READ COMMITTED does not let another step see
  half of them.
- `completedAt` is left out: every write sets it together with the status, so it
  is null exactly when the batch is active, and `findActiveByUser` tests the
  status.
- `findById` and the owner check of a retry are taken with the first read after
  them: what they read never changes.
- What the classifier answers, object keys, URLs and error texts are left out;
  that the classifier or `headObject` may throw is not.
- Requests refused before the first write change nothing: stuttering.
- The order in which a job treats photos is any order: the query has no
  `ORDER BY`.
- Uploads may happen any time after the answer that carries the URLs, or never.

`Faults` selects which failures a run has: `crash` (the process dies, the queue
and all requests with it), `db` (a call throws and had no effect), `ack` (a
worker's write commits and the call throws), `storage` (`headObject` or the
classifier throws). `Discipline` says how clients use retry: `free` (any time,
several in flight), `serial` (one retry of a batch in flight), `finished` (as
serial, and only for batches that `GET /items/batch/:id` shows as COMPLETED or
FAILED). The API accepts all of them; no client screen for batches exists yet.

### BatchLedger

The contract in three actions over the photos alone: `Open` (a batch appears,
all photos waiting), `Settle` (a waiting photo is registered or fails), `Reopen`
(all failed photos of one batch wait again). No queue, handler, worker, crash.
`ItemBatch` implements it with `item` mapped to `item`; the content of the
refinement is that no interleaving of a stale job, retries and failures settles
a photo that was not waiting or takes back a registered one.

### RefreshTokens

State: `token[t]`, a `RefreshToken` row (live or revoked, its owner, whether its
`expiresAt` has passed; rows are numbered in the order of creation), and
`serve[h]`, a request being served: its place, operation, account, the token it
presents and the one it was answered with. Two fields of a row are history that
no action reads: `parent`, the token it was exchanged for, and `shared`, that two
refreshes of the token were in flight together.

Requests *arrive* (`Login` for signup and PIN login, `Refresh`, `Logout`,
`ChangePhone`, `ResetPin`) and are *served* call by call. A refresh reads the row
(`RotateReused`, `RotateExpired` or `RotateAccepted`), writes `revokedAt`
(`RevokeOld`), inserts the new row (`Issue`); a reused token leads to `RevokeAll`
and 401. A phone change ends with `RevokeAll`; a PIN reset goes on to `Issue`. A
logout reads the row and its owner (`LogoutRead`), then revokes (`RevokeOne`).
Any call may fail before it had an effect (`CallFails`) or after it
(`ReplyLost`); `Answer` ends the request; `Expire` lets a token's time pass.

Abstractions: a presented token is one that was issued (others are refused with
no change); the secret, its hash and `deviceId` are left out; what a request
does besides its tokens (PIN, OTP session, phone number) is left to the modules
of the plan, so that a login, a reset or a phone change may come at any time for
any account. Access tokens are signed, not stored: revoking a refresh token does
not end them, and the guard never asks.

### TokenLedger

What each token is good for, with no handler, no row and no call: a login opens a
token; it is taken for an exchange (`Take`), which ends in a new token (`Give`, old
and new change in one piece), in the same one as before or in neither (`GiveBack`);
usable tokens end, some together (`End`); what has ended or is spent stays so. Of a
token that two requests refreshed at once (`Contest`) nothing is promised, which is
what the code can keep (compare `OneHeir`). A revocation during an exchange is
not seen: the exchange goes through, as `rotate` does not look again.
`RefreshTokens` implements it by `Rights`, computed from the row and from who is
serving it; the content is that the three calls of `rotate`, interleaved with every
other request, failing or losing replies, look like one, and that a token that has
lapsed or was revoked is never taken.

### MobileSession

One device against the token server; it EXTENDS `RefreshTokens`, and a request of
the app is a request of `serve`.

| Variable | Code |
| --- | --- |
| `app` | `AuthState`: status and access token |
| `stored` | the refresh token in the secure storage |
| `lapsed` | access tokens up to this one have passed their 15 minutes |
| `task[k]` | a coroutine between two awaits: its place, its request with the bearer token, the token it presents, whether it has been sent again, the handler that serves it, the pair it received |
| `accidents` | which accidents this behaviour may have, chosen once from `Worlds` |

The tasks are `restore` (started by the router), `login` (`_submitPin`: PIN
login, `GET /auth/me`, `setSession`), `leave` (`signOut` by the button), the
calls of screens, and `refresher`, the `refreshToken()` that the interceptor
shares. Steps: `ReadStored` / `NothingStored`, the request (`Arrives`, answered
with `Succeeds`, `Unauthorized`, `RefusedAgain`, or `Lost`), then `Store` and
`Publish`, or `Clear` and `Left`. `Unauthorized` is `onError` at a first 401: join
the refresh in flight or start one. `Wake` is the end of that refresh for all who
wait: with a token they are sent again, without one they sign out. **Every
request goes through the interceptor, the refresh itself and restore's refresh
included**: all use the one Dio of `api_client.dart`. Kills keep the storage and
leave the requests with the server.

Abstractions: storage writes are one step each (the access token, written first,
is read by nobody); a connection that fails, a timeout and an answer 5xx are all
`Lost`, before or after the server did its work; the guard answers `me` and calls
at once; a request whose waiting ends without a token does what its own catch
block does and what `onUnauthorized` does, which is the same sign-out. Left out:
the biometric login, which calls `refreshToken` beside the single flight.

### AuthRequests, Otp, PinLock, Accounts

`req[h]` is a request being served: its place (`pc`), operation, the OTP rows it
presents, phone, account, and what an earlier step read (`seen`, `at`). `otp` are
the `OtpRequest` rows, `user` the `User` rows, `session` the OTP-session tokens
that were signed (they are not stored by the server), `now` the clock in ticks.

| Code | Actions |
| --- | --- |
| `requestOtp` | `SendOtp` (arrives), `FindRecent`, `CreateOtp`, `SendSms` |
| `verifyOtp` | `VerifyOtp`, `VerRead`, then `VerWrong`, or `VerConsume` and `VerUser` |
| `consumeSession` | `ConsRead`, `ConsWrite`, twice for a change of number |
| `PinService.verify`, `pinLogin` | `Login`, `LogFind`, `PinRead`, then `PinWrong`, or `PinRight` and `Issue` |
| `signupComplete` | `Signup`, consume, `SignFind`, `SignCreate`, `Issue` |
| `pinReset` | `Reset`, consume, `ResetPin`, `RevokeAll`, `Issue` |
| `refresh`, `rotate` | `Refresh`, `RotRead`, then `RotRevoke` and `Issue`, or for a reused token `RevokeAll` |
| `changePhone` | `Change`, consume twice, `ChangeChecked`, `ChgDup`, `ChgWrite`, `RevokeAll` |

Any call may fail before it had an effect (`CallFails`), and a write of the OTP
rows after it (`OtpReplyLost`). A code is right or wrong, a PIN is named by its
number among the PINs of its account, and refresh tokens are reduced to the PINs
under which those that still work were issued (`live`). A refresh presents a token
of one of them, or one that was revoked, and passes the PIN on to the new token;
when it revokes the old one, another of the same PIN may be left. Which tokens there
are, the logout and the expiry are in `RefreshTokens`. Fields named as *history* in the modules are read by no action: they
record which requests overlapped, so that a property can say exactly what is
promised when they did not, and what was answered, so that it can be compared
with what is stored. Signing a session reads the clock once; a session is
refused before the first call if it has expired or is for another purpose.

A *world* bounds one family of behaviours: the requests that arrive, the codes
sent in their order, the ticks, the numbers that have accounts. `MCAccounts`
lists seven: sends of codes to one number, checks of one code, logins, logins
and refreshes around a reset, signups of one number, a change of number, and a change to a
number that signs up meanwhile.

### The design page

Each part has its own variables; `part`, chosen at the start, says which part
moves in a behaviour. Nothing is lost by that, since they share only `bridge`,
which never changes, and the product of their states would be beyond TLC.

`ImageSlot`: `slots`, `tombstones`, `loaded` are the store of the script;
`waiting` the saves chained on the first read; `saving`, `saveDirty`, `writes`
the writer; `disk` the file. `Ingest` starts an encoding, `Encoded` stores it if
its generation is still that of the slot, `Clear` removes, `EnterReframe`,
`Reframe` and `Commit` crop, `Remount` takes the element out of the page and
back; `ReadEnds` and `WriteEnds` end with success or not, at any time.

`DesignCanvas`: `sections` is `state.sections` as rendered, `hydrating` what the
read has set and React has not yet rendered (a set, empty when there is nothing
of the kind); `Renamed`, `Deleted` and `Reordered` are the edits of a section that
`patchSection` is given; `Effect` is the effect that follows
a change of sections (skip once, or restart the 250 ms timer). A click renders at
once (`Patch`), a change from a timer together with others (`PatchLater`), which
is what React 18 does. `GripUp` leaves a drop to be committed 180 ms later by
`Settled`, with the order that was on show when the grip was pressed. `Only` is the
code's `filter`. `CanvasAssumption` says of the source and of the first file what
the code relies on: an artboard is known by its section and id, which no two share
(`registry`, `design-canvas.jsx:197`), and an order names none twice, as every order
that the page writes.

`CanvasViewport`: `tf`, `saveT`, `stored`, `lastPostedScale` as in the code;
`toHost` and `toPage` are the messages under way, in order; the host is modelled
from the comments of `onHostMsg`: at the iframe's load event it forgets the
canvas and asks for one.

`Prototype`: the state hooks of `Prototype` and the handlers of its screens. It
keeps the login timers, which outlive the login screen.

## 3 Runs

| Run | Instance | Shows |
| --- | --- | --- |
| `batch_free` | 2 batches of up to 2 photos, 2 requests in flight, `free`, storage failures | `TypeOK`; no job works from a stale photo (`SnapshotFresh`); no waiting photo is without a job (`PendingServed`); exactly one wardrobe item per registered photo (`ItemPerPhoto`) |
| `batch_serial` | 2 batches of up to 2 photos, 2 requests, `serial`, storage failures, fairness | the failed counter is never too small (`FailedNeverUnder`); the ledger is implemented (`LedgerSpec`); every waiting photo settles (`PhotoSettles`); every active batch finishes, unless a reset amid a failing write has put its counter out (`BatchFinishes`) |
| `batch_finished` | 2 batches, 2 requests, a key, `finished`, crash + db + storage | both counters are exact (`CompletedCounted`, `FailedCounted`); one job per batch (`OneJobPerBatch`); a finished batch is settled and its status right (`FinishedIsSettled`); a registered photo has its item (`RegisteredHasItem`) |
| `tokens` | 2 users, 2 requests in flight, 3 tokens; calls fail and replies are lost | a token that no two refreshes overlapped on has one heir at most (`OneHeir`); a revoked token stays revoked and gets no heir (`RevokedIsFinal`); the ledger of tokens is implemented (`TokenLedgerSpec`). `TokenTypeOK` is checked within `SessionTypeOK` of the next run |
| `session` | 1 user, 4 tokens, 2 requests at the server, 1 call of a screen beside start-up, login, sign-out and refresh; lost answers, or kills, or a sign-out during start-up, or a phone change elsewhere; fairness | `SessionTypeOK`; no two refreshes of one token together (`SingleFlight`); a token the server has exchanged is not kept (`SpentNotStored`); every task ends, or the refresh has come to wait for itself (`TasksEnd`) |
| `accounts` | the seven worlds above, 2 requests in flight, failing calls, lost replies | types; cooldown and hourly limit (`SendsLimited`); attempts are counted and a code is spent exactly by its right or its last wrong answer (`AttemptsCounted`); a session lets one operation in (`EnteredOnce`); failures are counted (`FailuresCounted`) and a lock holds (`LockHolds`); a number has one account, and proof (`PhoneProved`); a reset locks older PINs out, but for who was being let in or exchanging a token as it revoked (`ResetLocksOut`) |
| `design` | 2 image slots, 4 artboards in 3 sections, a viewport and its host, a closet of 3 clothes and a new one; with and without the bridge | *slots*: the picture of the newest drop is held, in whatever order the encodings end (`NewestIsHeld`), the file is the store once writes end (`SettledIsSaved`), no write touches another slot's picture (`OthersKept`), a crop is for its picture (`CropOfItsPicture`). *Canvas*: the file is what is shown once all is quiet (`CanvasSaved`), artboards go by a second click only (`ArtboardsKept`), the arrows reach all and only the artboards left (`ArrowsLeadEverywhere`). *Viewport*: the host knows the canvas and its scale once no message is under way (`HostInSync`), a reload brings the view back (`ViewSurvivesReload`). *Prototype*: slots hold what fits, but for an id that two items drew (`SlotsFit`), the outfit recorded last is what its day opens (`RecordedIsFound`) |
| `batch_race`, `batch_crash`, `tokens_change`, `session_refused`, `accounts_twice` | smallest instance that shows it | section 5 |

**Bounds.** `Batches` (ids of rows), `Handlers` (requests in flight),
`MaxBatch`, `MaxRetries` (resets of a batch) are guards of the actions, not
state constraints, so liveness is checked on complete behaviours. Two photos
are enough for a mixed result and for a photo left over while another is
treated; two requests for every pairwise race; two batches for a job waiting
behind another one and for the active-batch limit; one or two resets for a
retry during a job, then another. The real `MAX_BATCH_SIZE` is 20: nothing in
the code tells the third photo from the second, and the theorems of section 4
hold for every size. For tokens, three rows are a login, its exchange and the
exchange of the exchange, or two exchanges of one token, and two requests are
every pairwise race; a request starts only while a row is left for what it may
issue. `CHECK_DEADLOCK FALSE` everywhere: with the bounded number
of client requests used up, all photos settled and the queue empty, the system
rightly does nothing more.

Four tokens in `session` are the token of an earlier session or a first login, its
exchange after start-up, a shared refresh, and one more exchange; `Room` lets the
user and time act only while rows are left for what is under way, so no task ever
waits for the bound. One call beside the sign-out is enough for two requests that
share a refresh. `SingleFlight` is claimed only for behaviours with no kill and no
sign-out during start-up: with either, two refreshes of the stored token do meet
at the server, whose answer to a reuse ends every session of the user.
`SpentNotStored` and `TasksEnd` are claimed with all of them.

In `accounts` the limits are 2 where the code has 5 (a first one that is allowed
and a last one), and the times are a few ticks: a cooldown of 1 in a window of 3
and an expiry of 2 lie in the order they have in the code, so that a send can be
within the cooldown, within the window, or after it. Three rows are two sends and
the one refused by the limit, or the codes of two numbers and one more. Worlds in
which nothing waits have no ticks. Several properties speak of requests that did
not overlap: that two that overlap do break the limit is in section 5, and the
history fields mark exactly those.

In `design`, two slots are one that is edited and one that must be kept (one of
them with a picture of its author); two operations on one slot are every late
encoding or removal. The sections have three artboards, none, and one: what the
arrows must step over. Two edits are one and its successor during a write; two
turns of the viewport are two zooms, a zoom and a reload, or two reloads; files
of an earlier source and of this one are read; the sidecar of the slots is empty
or holds a picture for each. Levels 0 and 4 asked of a scale of 1 to 3 reach both
clamps. Two saves of the prototype are a record on the day of another, or an item
added and worn, or two items added, which in this instance draw the same id.

**Symmetry** of rows and requests is used in safety runs only.

**Fairness.** `FairSpec` adds weak fairness for each request handler and for the
worker: the Node event loop resumes every continuation whose awaited call has
answered. The failures that such a step competes with are not fair, and the
liveness runs have no crash and no database failure, after which the code in
fact promises nothing (section 5). Clients owe nothing: no fairness for requests
or uploads, so a photo that never arrives must settle too, as it does
(`object_not_found`).

`FairSessionSpec` has weak fairness for each task of the app (the Dart event loop
resumes every coroutine whose await is over) and each request at the server. The
user, the lapse of time and accidents owe nothing; in particular an answer need
not be lost, so that no timeout is counted on. `TasksEnd` supposes that the app is
not killed for ever.

`accounts` and `design` check safety: an HTTP client may stop at any time, and so
may the user of a page.

Every property of a passing run has a mutant in `PROJECT.json`: an operator of
the module marked `mutant`, a plausible bug (a lost WHERE clause, a forgotten
decrement, an exception swallowed) with which TLC finds the property violated.

## 4 Proofs

TLAPS proves the theorems below for every value of the constants that satisfies
the assumptions named with each module; TLC evaluates the same assumptions on the
instances of section 3. A theorem about reachable states rests on an inductive
invariant, which TLC checked on those instances before it was proved. The
assumptions say no more than the code does: `null` is no id, the longest list has
some length, the cooldown of 60 s is not longer than the window of one hour
(`otp.service.ts:21`), the scales are integers, the outfits of `data.jsx` have
ids `o1` to `o6`, one each, no two artboards share section and id, and the orders
in the canvas's first file name no artboard twice.

### ItemBatch: `ItemBatchProofs`, `ItemBatchJobsProofs`, `ItemBatchRetryProofs`

For every set of users, keys, batches and requests, every `MaxBatch`, every
discipline and every set of failures (`ConstantsAssumption`):

| Theorem | Says |
| --- | --- |
| `TypeCorrect` | `Spec => [](TypeOK /\ Shape)` |
| `SnapshotFreshCorrect` | `Spec => []SnapshotFresh` |
| `CompletedCountedCorrect` | `Spec => []CompletedCounted` |
| `LedgerImplemented` | if no reply is lost, `Spec => LedgerSpec` |
| `RegisteredHasItemCorrect` | `Spec => []RegisteredHasItem`, lost replies included |
| `PendingServedCorrect` | `Spec => []PendingServed` |
| `ItemPerPhotoCorrect` | `Spec => []ItemPerPhoto` |
| `OneJobPerBatchCorrect` | `Spec => []OneJobPerBatch` |
| `FailedNeverUnderCorrect` | `Spec => []FailedNeverUnder` |
| `FailedCountedCorrect` | `Spec => []FailedCounted` |
| `FinishedIsSettledCorrect` | `Spec => []FinishedIsSettled` |

*Argument.* `TypeOK` alone is not inductive: that `batch[worker.batch]` is
defined needs to know that a busy worker has a batch whose row exists, and that
a request past its insert has one too. `Shape` says so, program counter by
program counter, and adds that the queue holds existing rows only and that a row
that does not exist has no photos. With it, `SnapshotFresh` is inductive: the
photos ahead of the job were PENDING when it was taken; a reset changes FAILED
photos only; an insert writes to a row no job can have; only the worker itself
takes a photo out of PENDING, and then the photo leaves the snapshot. From
`SnapshotFresh` follow both the counter (`CompletedCounted`: the photo counted
was PENDING, so the set of registered photos grows by exactly one) and the
refinement (`Settle` needs its photo PENDING; `Insert` is `Open` by `Shape`;
`Reset` is `Reopen`, or a stutter when another retry was first).

`RegisteredHasItem` needs one more conjunct, `ItemMade`: a worker about to mark a
photo registered has inserted its item. No step removes an item, and only that
worker registers a photo; no assumption on failures is used. `ItemPerPhoto`
sharpens it to a number: the items of a photo are one if it is registered or
about to be marked, none otherwise; `SnapshotFresh` is what keeps a job from
treating a registered photo again. `PendingServed` is inductive with `Shape`: the
one dangerous step, a reset amid a running job whose snapshot does not have the
photo, leaves a request that will enqueue.

What clients that retry only finished batches are promised rests on `OneJob`: no
two of the jobs queued, running or being prepared are of one batch
(`JobsApart`), and a batch with a job is active while one about to be reset is
finished (`JobsActive`), which is how the discipline tells them apart. Then the
number of failed photos a retry has in hand stays what it read (`SeenExact`), as
no job runs in between, so that the subtraction is exact (`FailedExact`, together
`FinishedInv`). Under the weaker `serial` the worker may fail photos in between,
so the number is only a lower bound (`SeenUnder`), which is all that
`FailedNeverUnder` needs. `FinishedIsSettled` adds to `FinishedInv` that the
running job covers every waiting photo of its batch (`JobCovers`) and that the
verdict it is about to write is still that of the row (`VerdictFresh`): exact
counters then make it the verdict of the photos.

*Only model-checked*: `PhotoSettles` and `BatchFinishes` (liveness: fairness and
ENABLED are beyond the prover). `SnapshotFresh`, `CompletedCounted` and the
refinement exclude lost replies on purpose: with them the catch block writes
FAILED over COMPLETED, and both counters count the photo.

### RefreshTokens: `RefreshTokensProofs`

For every number of users, requests in flight and tokens (`TokenAssumption`):

| Theorem | Says |
| --- | --- |
| `TokenTypeCorrect` | `TokenSpec => []TokenTypeOK` |
| `RevokedIsFinalCorrect` | `TokenSpec => RevokedIsFinal` |
| `OneHeirCorrect` | `TokenSpec => []OneHeir` |
| `TokenLedgerImplemented` | `TokenSpec => TokenLedgerSpec` |

*Argument.* The invariant `TInv` adds to the types `ServeShape`, what a request
carries at each place of its code (an account, a token that was issued), and
`HeirShape`, that an heir's parent is an issued row. `RevokedIsFinal` is then a
statement about single steps: no operation sets a revoked token live,
`RotateAccepted` asks for a live one, and only a request at its insert makes an
heir. `OneHeir` is not inductive: it needs `OneRefresh`, that a token which is
not `shared` has one refresh in flight at most, which has revoked it by the time
it inserts. `Refresh` keeps that by recording the overlap in `shared`, `RevokeOld`
by revoking, every other step because a revoked token stays so.

For the refinement each step is mapped (`LedgerStep`): arrivals, reads and the
revocation of a token in exchange change no right (`QuietStep`, `RevokeOldQuiet`), a
second refresh contests (`RefreshContests`), an accepted check takes
(`AcceptedTakes`), an insert gives or opens, its reply lost or not (`CreateGives`),
a failing call gives back (`ExchangeFails`), revocations and time end (`RevokeEnds`,
`ExpireEnds`). `OneRefresh` makes the exchange that ends the only one of its token;
`OneHeir` makes a live token heirless, so that it ends as `ended` and not `spent`.

### MobileSession: `SessionProofs`

For every set of users, requests at the server and calls of screens, any number of
tokens and any accidents (`TokenAssumption`, `SessionAssumption`). Every safety
property of the run `session` is a theorem:

| Theorem | Says |
| --- | --- |
| `SessionTypeCorrect` | `SessionSpec => []SessionTypeOK` |
| `SpentNotStoredCorrect` | `SessionSpec => []SpentNotStored` |
| `SingleFlightCorrect` | `SessionSpec => []SingleFlight` |
| `SessionServed` | `SessionSpec => [][TokenNext]_tokenVars /\ RevokedIsFinal /\ []OneHeir`, and every step is one of the ledger |
| `ExchangedOnce` | `SessionSpec =>` without kills and early sign-outs, every token has one heir at most and is revoked by then |

*Argument.* `BaseInv` is `TInv` of the server with the types of the app, what a
coroutine carries at each place of its code (`Fits`), that the handler it waits for
has its request and nobody else's (`ViaOK`), and that every token somebody has was
issued (`Known`). What each action does is stated once, in a lemma about the tasks
it moves and the requests it disturbs. On top of it:

- `FreshInv`: a token on its way, in an answer or with the task that will store it,
  is in one place only, and nobody has presented it. So what `Store` writes is
  always a token the server has not exchanged.
- `PairInv`: who was answered has tokens; in particular the refresher wakes the
  others without any only after it has cleared the storage.
- `SpentInv`: a stored token that was refreshed, or is being, is at `restore` or the
  refresher, which is about to replace or clear it. The delicate step is the
  refresher's last one: waking a waiting `restore` turns it into a sign-out, which
  ends its refresh. By then the storage was cleared, and if there is a token in it
  again, nobody but `restore` itself can be refreshing it (`Reported`).
  `SpentNotStored` is the case where neither of the two is at it.
- `Alone`, without kills and early sign-outs: while the app restores, nobody but
  `restore` acts, and the refresher only while `restore` waits; and `restore`
  refreshes at no other time.
- `Single`, in the same worlds: what one of the two has on its way or at the server
  is the only refresh of its token (`OnlyMine`); a stored token that is being
  refreshed is at one of them, which will replace it or is about to clear it
  (`Presenting`); and the token a waiting `restore` will present again is
  nobody's by the time it is woken (`Joined`). `SingleFlight` needs all of
  them, since a lost answer leaves a refresh running at the server that nobody
  waits for, and only the clearing of the storage keeps its token from being
  presented again.

`SessionServed` says that the composition uses the server as its module describes
it: each of its steps is a step of `RefreshTokens`, or leaves the tokens alone. The
invariants of `RefreshTokensProofs` are kept by such steps, and hold at the start
although the app may start with a token of an earlier session. `ExchangedOnce` puts
the two halves together: `OneHeir` excepts the tokens that two refreshes presented
at once, and by `SingleFlight` the app has none.

### Accounts: `AccountsProofs`, `AccountsLimitsProofs`

For every set of accounts and numbers, every finite set of requests, every world
and any limits (`RequestAssumption`, `OtpAssumption`, `PinAssumption`). Every
property of the run `accounts` is a theorem:

| Theorem | Says |
| --- | --- |
| `AccountTypesCorrect` | `Spec => []AccountTypeOK` |
| `PhoneProvedCorrect` | `Spec => []PhoneProved` |
| `FailuresCountedCorrect` | `Spec => []FailuresCounted` |
| `LockHoldsCorrect` | `Spec => LockHolds` |
| `ResetLocksOutCorrect` | `Spec => []ResetLocksOut` |
| `EnteredOnceCorrect` | `Spec => []EnteredOnce` |
| `AttemptsCountedCorrect` | `Spec => []AttemptsCounted` |
| `SendsLimitedCorrect` | `Spec => []SendsLimited` |

*Argument.* `BaseInv` is the types with `AllFit`, what a request of each operation
carries at each place of its code, `Blank`, that what was never written is empty,
and `Capacity`, that every code on its way has a row left. The effect of each
action is stated once in a lemma about what it changes of the requests, of the
codes and of the accounts, and each property has a small invariant of its own on
top of `BaseInv`:

- `OwnNumbers`: a number with an account was there at the start or is *proved*, by
  the code whose session let in the request that wrote it. A request about to
  write a number still carries that code (`AllFit`), and the unique index keeps
  the second writer out.
- `LoginInv`: an account that is not raced has one login at most, and what it read
  of the count and the lock is still so. `LockHolds` follows step by step.
- `ResetInv`: unless a reset is between its change of the PIN and its revocation,
  the tokens of an account, and the PINs of the requests that have been let in or
  have passed the check of `rotate` and have no new token yet (`LettingIn`), are of
  its PIN or of one the history excepts. The revocation empties the tokens and
  records in `stray` whom it cannot reach; nothing else makes an exception but a
  reset that breaks off before it. A refresh adds no PIN to these
  (`TokenStepsKeep`), so a login or a refresh that starts after a reset, with
  whatever token, does not bring an older PIN back.
- `UseInv`, `CheckInv`, `SendInv`: a session, a code or a send that no two requests
  worked on at once has one such request at most, which knows the row as it is
  (nobody else writes it), so the number it writes is exact. For the limits of the
  sends this means: the rows before a row are those its request counted.

### The design page: `DesignProofs`

For every set of slots, artboards, sections, clothes, messages and any bounds
(`SlotAssumption`, `CanvasAssumption`, `ViewportAssumption`,
`PrototypeAssumption`). As the parts share no state, each has an invariant of its
own, and a step of another part is a stutter for it (`StepOfParts`):

| Theorem | Says `PageSpec` implies | Invariant |
| --- | --- | --- |
| `NewestHeldCorrect` | `[]NewestIsHeld` | `SlotInv` |
| `SettledSavedCorrect` | `[]SettledIsSaved` | `SlotInv` |
| `CropOfPictureCorrect` | `[]CropOfItsPicture` | `SlotInv` |
| `OthersKeptCorrect` | `OthersKept` | `SlotInv` |
| `HostInSyncCorrect` | `[]HostInSync` | `ViewportInv` |
| `ViewSurvivesCorrect` | `ViewSurvivesReload` | `ViewportInv` |
| `SlotsFitCorrect` | `[]SlotsFit` | `PrototypeInv` |
| `RecordedFoundCorrect` | `[]RecordedIsFound` | `PrototypeInv` |
| `CanvasSavedCorrect` | `[]CanvasSaved` | `CanvasInv` |
| `ArtboardsKeptCorrect` | `ArtboardsKept` | `EditInv` |
| `ArrowsLeadCorrect` | `[]ArrowsLeadEverywhere` | `CanvasTypes` |
| `PageTypesCorrect` | `[]PageTypeOK` | `CanvasTypes`, and the other parts' invariants |

*Argument.*

- Slots: operations are numbered, and before the read the tombstones are the slots
  whose last operation was a removal (`Tombstoned`), so that the merge brings back
  exactly what nobody touched; one write at a time carries the store as it is, or
  the store is dirty and will be sent out again (`OneWrite`); what nobody touched
  is in the store, in the write and in the file alike (`AsInFile`).
- Viewport: unless a probe is still to be answered, the host knows the canvas or an
  announcement is under way, and the *last* zoom under way is the scale, or none is
  and the host shows it (`WillBeInSync`). The messages are sequences of any length.
- Prototype: ids of outfits are new when given, because they count. Those of clothes
  are random and need not be, so the invariant (`SlotsHold`) only says under which
  category the closet lists what a slot holds: items are added and never taken away,
  and it goes on to list it there. That this is the item shown needs the id to be of
  one item (`CategoryOfItem`).
- Canvas: writes are numbered; until the first render of what was read nothing is
  written; when no write is due the last one issued has what is shown
  (`LastWriteOfAll`). For `ArtboardsKept`, every step that changes the sections is
  one of three edits of one section (`SectionsStep`, `EditedEffect`), and only the
  open menu asks again, after exactly one click (`MenuOK`).
- Orders: what is shown of a section has each of its artboards once, whatever order
  is kept (`ArrangedFits`), as long as no kept order, grip or drop names one twice
  (`Fits`, `Line`), which every drag preserves (`MovedToFits`). `filter` is a
  recursive *function* here; what it returns follows by an induction over a *set* of
  naturals (`InductionOverSet`, from the well-foundedness of `<`), which needs no
  operator parameter. Writes are bounded because an edit pays for each (`WritesPaid`:
  writes issued, the timer, drops still to settle and a read still to render together
  never exceed the edits).
- Arrows: a set of artboards closed under one pair of arrows holds, with one artboard
  of a section, all of it, since steps round a circle reach every place
  (`CircleReached`, `AcrossReaches`). If it missed a section that shows something,
  the first such section in that direction would be where the arrow out of the last
  one met leads (`FilledAt`, `NthReaches`, `ArrowsReach`).

### What stays with TLC

- Liveness: `PhotoSettles`, `BatchFinishes`, `TasksEnd`.

Every safety property of a passing run is a theorem. The three above are liveness
under fairness, which the installed provers cannot treat (`ENABLED`).

## 5 Where the code and its documents disagree

Each is a run expected to end in a violation, with the quoted line under
`findings` in `PROJECT.json`.

| Run | What happens |
| --- | --- |
| `batch_race` | two concurrent creates of one user both find no active batch: two active batches, against `closet.prisma:33` |
| `batch_crash` | a crash after the insert loses the job; the repeated request is answered with a batch nobody processes (`review.md:89`) |
| `tokens_change` | a refresh under way while the phone number is changed issues its token after all tokens were revoked: the old session goes on, against `auth-login/spec.md:96` |
| `session_refused` | the server refuses a refresh (its token was revoked by a phone change, or exchanged just before the app was killed): the interceptor makes the refresh wait for the refresh in flight, which is itself. Restore, sign-out and every later 401 wait with it, and the login screen of `auth-login/spec.md:225` is never reached |
| `accounts_twice` | two requests present one OTP session together: both find it unused before either marks it, and both go on, against the single use of `auth-login/spec.md:263` |

A refused refresh is what the app meets after every expiry (30 days) and every
revocation. A restart does the same again; only a refresh that fails otherwise,
say for want of a connection, clears the storage and leads to the login screen.

Others seen with the same models, for which no run is kept:

- No concurrency is needed for two active batches: with `Handlers = {h1}` and
  `MaxRetries = 1`, retrying a finished batch makes it active beside the current
  one (`OneActivePerUser` fails; `item-register-api/spec.md:51`).
- Two concurrent retries subtract the same photos twice and `failed` goes below
  0, which the repository of the unit tests rules out
  (`batch.service.spec.ts:137`).
- The second of two concurrent requests with one Idempotency-Key gets 409 or 500
  instead of the first answer (`item-register-api/spec.md:52`).
- Two concurrent refreshes of one token are both answered with a new pair
  (`jwt.service.ts:50`), where `auth-login/plan.md:246` expects a reuse to be
  detected; that is why `OneHeir` speaks of tokens that were not `shared`.
- The home screen with its sign-out button shows while `restore` is under way.
  The button's 401 starts a refresh beside that of `restore`: `SingleFlight`
  fails in the world `{"eager"}`, and in `{"kill"}`.
- A sign-out whose access token has lapsed refreshes first and then logs out the
  token just exchanged; the new one stays usable at the server. A refresh that
  ends after the sign-out stores its token on the signed-out device; a wrong PIN
  is then answered by a refresh, and the PIN is submitted a second time.
- A photo that fails between a retry's count and its transaction is reset without
  being subtracted (`batch.repository.ts:104`): at the end all photos are
  registered, `failed` is still 1, against `item-register-api/plan.md:99`, and the
  batch never reads as complete.
- Two concurrent sends of a code to one number both pass the cooldown and the
  limit (`otp.service.ts:56`); two concurrent wrong codes count as one, and a wrong
  one read before the right one was consumed makes the code usable again
  (`:119`). Two concurrent wrong PINs count as one, and a late one clears a lock
  (`pin.service.ts:55`).
- A code whose SMS failed still costs its minute; an OTP session is spent by a
  signup that fails afterwards; a reset that breaks off before its revocation
  leaves the old sessions alive. One that does not break off leaves alive who had
  passed the check of a login or of `rotate` and had no new token when it revoked
  (`jwt.service.ts:50`): `ResetLocksOut` without `stray` fails by such a refresh.
- Image slots: a failed read of the sidecar is taken for a missing file, and the
  next write wipes the pictures of every other slot (`image-slot.js:96`). A crop
  between a removal and the read brings the removed picture back (`:130`).
- Canvas: an edit before the read is rendered is not written until the next edit
  (`design-canvas.jsx:163`); after a failed read the first edit overwrites the
  file. Writes are not serialized, so a slow one can land on a newer one (`:166`).
  Of two drops within 180 ms in one section the second undoes the first (`:748`).
- Prototype: the id of an added item is one of 900 drawn at random, and nothing looks
  whether it is taken (`prototype.jsx:534`, `:109`). If it is, `byIdInCloset` (`:148`)
  finds the newer item for both, which a slot of the other's category then shows:
  `SlotsFit` without `DrawnTwice` fails. A login timer that fires after a quick logout logs in again
  (`prototype.jsx:173`); an outer garment put "into its slot" is in none that is
  shown or saved (`:75`); the calendar looks at the day and not at the month
  (`:821`); items added by the user show empty in the outfit being built, which
  looks them up in the static list (`:676`).

## 6 Plan

In order of importance; each with its MC module, runs and mutants.

1. `ItemBatch` (done): bulk registration, the only component with a worker.
   Abstract specification `BatchLedger` (done).
2. `RefreshTokens` (done): issue, rotate (read, compare, revoke, insert as separate
   steps), revoke one and all, under concurrent requests. Abstract specification
   `TokenLedger` (done).
3. `MobileSession` (done): the app's session over `RefreshTokens`. Left: the biometric login, what stays usable at the
   server after a sign-out.
4. `Otp` and `PinLock` (done). Left: an atomic abstract specification that holds
   for clients whose requests do not overlap.
5. `Accounts` (done) over 2 and 4, with a failure between any two calls.
6. `ImageSlot`, `DesignCanvas`, `CanvasViewport`, `Prototype`, `DesignPage` (done).
7. `AuthFlow`: the screens of signup, reset and change over the mobile auth state.

Theorems: every safety property that a passing run checks is one. Left is the
refinement of 4 for sequential clients.

## 7 Not modelled

`PROJECT.json` lists every component with its status. Left out:

- logging and the PII filter, analytics, configuration and wiring, the seed script:
  no state that a property could be about;
- outfits and calendar of the database: tables no code uses;
- single-item registration: one insert behind input checks; the access guard is a
  check of each request, seen by `MobileSession`;
- the mobile screens of signup, reset and change: text fields that send one
  request each, whose order the server's modules cover;
- the export of an artboard (`dcExport`): it reads the page and changes nothing;
- `trendy.jsx`, `screens-*.jsx`, `app.jsx`, `ios-frame.jsx`: pictures of screens in
  JSX, the largest files of `docs/design`, with no state, or a toggle that nothing
  else reads;
- of what is modelled: pixels, geometry, texts, digits and hashes, as each module
  says at its head.
