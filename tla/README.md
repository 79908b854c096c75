# A formal model of ParkShield

ParkShield is a FastAPI back end over PostgreSQL and S3 (`backend/app`), with a Flutter client
(`mobile`) and native Android and iOS foundations (`apps`). Almost all of its logic is short
request handlers; what is hard about it is that many API replicas run those handlers at once
against one database at READ COMMITTED, that a handler may fail between any two statements, that
some handlers also change things no transaction covers (the S3 bucket, push messages, a buffer
in memory), and that the clients run callbacks and awaits that overlap. This directory models
those parts in TLA+, checks them with TLC on small instances and proves with TLAPS that every safety
property the runs check of a module with parameters holds for every instance.

    tlc -config MCIdentity.cfg MCIdentity.tla     # a run
    tlapm AuthSessions_proofs.tla                 # the proofs

## How the code runs, and how the modules say it

`infrastructure/database.py:20-22` opens one session and one transaction per HTTP request;
`session.begin()` commits when the route returns and rolls back when it raises. The modules of the
server share these conventions:

* `tx[q]` is the transaction of request slot `q`: which statement it last executed (`at`), what it
  has read, what it has written but not committed. A slot is reused by later requests, so `Request`
  bounds only how many run at the same time.
* One action is one SQL statement (or S3, HTTP or push call) that reads or writes shared state.
  Statements that touch only private data are merged with their neighbours. A read returns what is
  committed when the statement starts; a write becomes visible at `Commit`.
* A statement is not enabled while another transaction holds a lock it needs: a deleted or updated
  row, a unique key being inserted, the key-share lock of an inserted foreign key, the advisory lock
  of the audit chain.
* `Rollback` may end a request at any point: any exception, a lost connection, a crashed replica.
  `DeadlockAbort` is PostgreSQL's deadlock detector: it fails one of the transactions that wait
  for each other.
* Requests that are refused before they write anything change nothing and are left out, unless a
  property is about the refusal.
* Properties about the past use history variables, which no guard reads except where a comment
  calls the conjunct a bound. A property whose promise the code does not keep without exception is
  stated with its exceptions (`...IsExplained`, `...NeedsOverlap`, `...WasOvertaken`): what it says is
  that nothing else breaks the promise.

In the modules of the clients one action is what runs between two awaits, and the user, the
operating system and the network move whenever they can.

## Inventory

| Component | State | Operations | Hard behaviour | What makes it correct |
|---|---|---|---|---|
| Identity: sessions (`modules/identity`) | `users`, `sessions` rows, signed tokens | login, refresh, logout, revoke, request and confirm reset | concurrent use of one token, resets against logins, erasure against inserts | a token is exchanged once; rows belong to accounts; a reset ends what it should |
| Identity: login limiter (`sql_abuse.py`) | `login_rate_limits` row per attempt key | check, record_failure, reset, sweep | replicas count one key; lock and window boundaries; roll-back of the count | bounded guesses; a row at the limit is locked |
| Community: photo evidence (`community/media.py`, `s3_media.py`) | `community_reports` rows, bucket objects | submit, reject, purge, grant | two stores without a common transaction; ambiguous S3 failures | recorded deletions are real; lost or orphaned objects only where unavoidable |
| Community: moderation | report status, `report_appeals`, `reporter_reputations` | moderate, appeal, resolve | check-then-insert, lost updates, lock order | reputation follows decisions; no deadlock; second appeals need overlap |
| Administration (`modules/admin`) | `admin_audit_events` hash chain, MFA columns | append, verify, enrol and confirm MFA | chain head under concurrency; stale secret written back; damage to the table | one unforked chain in commit order; damage is detected |
| Privacy (`modules/privacy`) | `data_rights_requests`, consents, audit subjects, analytics buffer | consent, export, erase account, track an event | erasure against everything that references the account; an export of many statements; a buffer no rollback restores | nothing of the account remains; consent never goes back |
| Billing (`modules/billing`) | `billing_subscriptions`, `billing_events` | verify purchase, entitlement | late, repeated and reordered store answers; erasure of the owner | newest evidence wins; premium is earned |
| Notifications (`modules/notifications`) | preferences, devices, `alert_deliveries` | evaluate location, preferences, register device | pushes before the commit; what was read is overtaken | one claim per alert; misdirected pushes were overtaken |
| Ingestion (`modules/ingestion`) | sources, batches, quarantine, zones | normalise and import a municipal feed | same file twice at once, opposite row orders | idempotent imports that end; a batch says what its feed was |
| Parking decision (`modules/parking`) | zones, read twice | evaluate | two clocks, two reads, windows over midnight, exceptions | fail closed; the gravest applicable rule |
| Migrations (`backend/migrations`) | the schema, the releases that serve | upgrade, downgrade, roll out | interrupted migrations; the old release on the new schema | one schema per revision; replicas keep working |
| Flutter client: alerts (`mobile/lib/src`) | page, location stream, stop detector | load, switch on and off, stop, dispose | awaits that overlap a disposal; refused permissions | a stream runs only for a switch that is on |
| Native clients (`apps`) | `SessionController`, secure store | restore, login, refresh, logout | joined refreshes, store failures, a process that dies | one refresh at a time; pairs match; no session lost without a fault |
| Assistant, recommendations, recovery, signs | none | ranking and wording of what was read | - | not modelled |
| Observability, HTTP security, configuration | counters, settings | - | - | not modelled |
| Terraform | bucket rules | - | - | the lifecycle rule the media model uses |

Components interact through the database (an erasure cascades into sessions, reports, consents,
devices, deliveries and subscriptions), through the audit chain that every privileged request
appends to, through the bucket that community and privacy both delete from, and through the
sessions that the clients hold.

## The modules

### Identity

`CredentialLedger` is what identity promises: credentials that are `absent`, `live` or `spent`, in
chains. A chain is opened by a login or a reset request, a live credential is exchanged for one
successor, and any set of live credentials can be voided. Nothing else is promised, in particular
nothing about time or passwords.

`AuthSessions` implements it with the `sessions` table:

| In the model | In the code |
|---|---|
| `accounts`, `password` | `users` rows; `password_hash` as a version number |
| `rows`, `expired` | `sessions` rows of both refresh tokens and reset links; `exp` = `expires_at` |
| `minted` | claims signed into a token; `root` and `basis` are history |
| `LoginVerify`, `LoginIssue` | `IdentityService.login`, `_issue_pair` |
| `RequestReset`, `ResetConsume`, `ResetPassword`, `RevokeAll` | `request_password_reset`, `reset_password` |
| `RefreshConsume`, `RefreshIssue` | `refresh` |
| `Logout`, `RevokeSession` | `logout`, `revoke_session` |
| `RequestErasure`, `EraseAccount` | `PrivacyService.delete_account` (its effect on sessions) |
| `DeleteTarget`, `DeleteDone` | one row after the other of a multi-row DELETE or cascade |

`Expire` may come at any time after a token was signed. A login here is one the limiter admits.

`LoginLimiter` is the row of one attempt key and the requests that present it. `FailuresCommit` is
the caller: `TRUE` commits a failed attempt, as the integration test of the limiter does
(`integration_tests/test_postgres_identity.py:808`), `FALSE` raises out of the transaction, as the
login route does. `Tick` assumes that a request outlives at most one step of the clock (a request
takes far less than a window); `Sweep` is the retention DELETE of a failure recorded under another
key. Locks and windows end at the boundaries of the code (`<=` for the window, `>` for the lock). The
DELETE of a reset waits for a row another request updates, but neither sees nor waits for a row that
another request has inserted and not yet committed.

`NativeSession` is the `SessionController` of the native clients with its secure store, against the
server of `CredentialLedger`. `calls` are the calls under way, of several `AuthRoot` views; `flight` is
`inFlightRefresh`, which later callers join. `SaveRefresh`/`SaveAccess` and `ClearAccess`/`ClearRefresh` are
the two writes of a save and of a clear. `Unanswered`, `Raise` and `ServeLate` are a request that gets
no answer, whether or not the server carried it out, at once or after the client gave up;
`WriteFails` is a store that fails, `Killed` a process that dies at any await and starts again. `Raises`
tells the platforms apart: a request without an answer raises on Android and fails on iOS.

### Community

`CommunityMedia`: `reports` are the rows and `objects` is the bucket. `SubmitPut`/`SubmitPutRaises`
are the upload, `SubmitDiscard` the compensating deletion, `RejectDelete` and `PurgeDelete` the
deletions of `delete_report_photo`, `EraseList`/`EraseDelete`/`EraseCascade` those of an account
erasure. An S3 call that raises may have been carried out. Report ids are ordered by
`photo_retained_until`, the order of `expired_media`. `Lapse` is the 30-day lifecycle rule of the
bucket; it is enabled only after the retention of the row, because retention is at most 30 days.
Versions of a deleted object, which the bucket keeps for seven days, are not served and not modelled.

`Moderation`: decisions, appeals and reputations. Scores are counted in twentieths, without a clamp,
as the SQL does. The locks of a transaction are taken in the order of the code: appeal, report,
reputation, audit chain. `Resolve` does not require the appeal to be open, as the code does not.

`AdminAudit`: the hash chain and the TOTP enrolment. A digest is what it was computed over, the
sequence of all contents up to its row, so two digests are equal exactly when those are. `Lock` is the
advisory lock, `Draft` reads the head and builds the row, `Insert` takes the identity value, which a
rollback does not give back. `Setup`, `Confirm` and `ConfirmSet` are the enrolment routes with the
account read before the code is checked; `Decide` is every other privileged request. `Inspect` is the
integrity endpoint. `Modify`, `Reorder` and `Remove` are somebody with the database, once.

### Accounts

`Notifications`: one evaluation reads the preferences and the parking map, claims the alert by its
dedupe key (`INSERT ... ON CONFLICT DO NOTHING`), reads the devices, pushes to each, records the outcome
and commits. Preferences, devices and accounts change meanwhile. Quiet hours are modelled with the
offset of the account's timezone.

`Privacy`: consent decisions, exports statement by statement, erasures (insert the
receipt, delete outside of the transaction, complete the receipt, null the subjects of the audit
events, delete the account), the logout that writes an audit event late, and the analytics buffer, which
changes in memory while its request may
still roll back. The list of events is a set whose ids are the order of the list (`After`); `tracked` keeps
every accepted event, without its account once an erasure deleted it. Rows carry the order of their
commit (`stamp`), which only properties read.

`Billing`: `Ask` and `Answer` are the gateway, which may answer late and out of order; `Upsert` overwrites
a row only with evidence that is not older, `RecordEvent` inserts the provider's event once, `Evaluate`
reads the entitlement. A purchase stands for platform, environment and original transaction.

`AlertStream`: `AlertsPage` of the Flutter client, which a sign-in builds and a sign-out disposes of at
any await, its coordinator with the location stream, the stop detector and the preferences on the
server. `Load`, `Toggle`, `Save`, `Rollback`, `Permit`, `Initialize`, `CancelOld`, `Listen` and `Stop` are the
stretches between awaits of `_load`, `_toggle`, `start` and `stop`; `Drive`, `Park` and `Evaluate` are a trip.
Requests fail or lose their answer, plugins raise, and the permission changes. `ServicesOff` is a start
that the coordinator refuses because location services are off (`parking_alert_coordinator.dart:23`):
the page takes the switch back as after a refused permission.

### Municipal evidence

`Connectors`: the loops over GeoJSON zones and CSV facilities, record by record, with every rule a
record must meet and everything that refuses or ends the whole feed. Texts are abstracted to whether
they meet their rules, times to a number and whether they carry a timezone. `ReaderRaises` is a reader
that raises what nothing catches (a CSV field above its limit, JSON nested too deep or with an integer
too long to convert). The loops raise as well: an infinite weekday in a rule, and a rejected CSV row with
more cells than columns, whose rejection cannot be hashed (`LoopRaises`).

`ImportLog` is what the protocol of the repository promises (`ingestion/domain.py`): a source is added
at once, and an import happens at once, with its records and its rejections, and once per feed. The
in-memory repository, on which the tests of the service run, commits under a lock and is one such.

`Ingestion` implements it on PostgreSQL: an import looks for an earlier batch of its source and digest,
inserts the batch and its quarantine, upserts the accepted records one by one in the order of the feed,
and appends to the audit chain. A unique violation, a rollback or the deadlock detector ends it early.
The mapping is the committed tables: `log` is the batches in commit order, `evidence` the quarantine,
`records` the zones and facilities; the open transactions are hidden.

`ParkingDecision`: a request reads the clock of its transaction (`func.now()`), its own clock, the
current zone, and without one the expired zone, while zones are imported or moved away from the location
(an import may give a known zone another geometry). `overtaken` is what was imported between the two
reads of a request. A rule whose timezone is unknown answers INDETERMINATE; one whose timezone is an
improper key (empty, absolute, or out of the database) raises, because only `ZoneInfoNotFoundError` is
caught. The temporal rules
(weekdays, effective dates, windows over midnight, exceptions, offsets) and the static rules of the
service are operators over minutes since a Monday.

### Schema

`Migrations`: the fifteen revisions, operation by operation. A command (`Upgrade`, `Downgrade` to any
revision) is one transaction over all the revisions it runs (`env.py:32-35`, without
`transaction_per_migration`): it may fail at any operation of any of them, and then all are rolled back.
The server refuses one operation only, the narrowing of 0010's downgrade under a stored ciphertext. A
schema is its columns with how they are filled, its foreign keys and its unique
indexes. `RollOut` moves the serving replicas to the release of the schema. `Enrol` stores an MFA
secret, in clear or sealed, which the revisions that change the column meet. `Rows` are the
SQLAlchemy models.

### Model-checking modules

`MCIdentity`, `MCCommunity`, `MCAccounts` and `MCMunicipal` each put together the modules of one heading
above (`MCAccounts` also the device). The modules of one of them share no variable: what they have in
common (an account's erasure, a report's row lock, the audit chain, the finished rows of the stage
before) each has for itself, as the conventions say, so that interleaving them adds nothing. A
behaviour therefore moves one of them, the one `component` names from the start, and one run checks
them all. `MCAuthSessions`, `MCCommunityMedia`, `MCNotifications` and `MCParkingDecision`, which the
composites extend, and the other MC modules, which serve the counterexamples, add only symmetry sets
and constant values; `MCMunicipal` also holds the records that feeds are made of. `Migrations` has no
constants and is checked as it is. The assumptions of the modules a composite instantiates
(`LimiterValues`, `PrivacyShapes`, ...) are definitions there and an ASSUME of the composite
(`CommunityShapes`, `AccountsShapes`, `MunicipalShapes`).

Operators marked "Mutant of" are deliberately wrong versions of the definition after them; no
specification uses them. Each shows that a property can fail: with the mutant in place of its
original, TLC finds a violation.

## The runs

| Run | Question | Bounds |
|---|---|---|
| `identity` | single use, ownership, survivors of a reset, refinement; one login counter for all replicas; clients that hold one matching pair | 1 account, 3 requests, 3 token ids; limit 2, window 2, lock 2, 6 clock steps; 2 credentials, 2 calls, 2 views, 1 fault |
| `sessions_live` | does every request and every client call end? | 2 requests, 2 tokens; 1 credential, 2 calls, 1 fault |
| `community` | rows against bucket; reputations, lock order and appeals; the audit chain and MFA | 1 account, 2 requests, 2 reports; 3 moderators, 2 appeals, 4 decisions; 2 operators, 2 secrets, 4 inserts, 1 damage |
| `accounts` | claims and pushes; consents, exports, erasures, events; subscriptions; the location stream | 2 users, 1 device, 2 requests, 2 hours, 2 pushes; 5 rows, a buffer of 1; 2 purchases, 2 events, 5 answers, 3 clock values; 2 pages, 1 fault, 1 permission change, 1 stop |
| `municipal` | are feeds accounted for, imports idempotent, atomic and finite, decisions conservative? | feeds of sampled records over 2 ids, against a limit of 4; 3 importers, 3 payloads, 2 records, 4 batches; 1 decision request, 2 zone imports |
| `migrations` | does every sequence of commands keep schema, data and releases together? | none: 15 revisions as they are |
| `reset_in_flight` (violation) | does a reset end every older session? | 2 requests, 3 tokens |
| `limiter_route` (violation) | is the limiter effective behind the login route? | as `identity` |
| `media_erasure` (violation) | is every photo gone before the account is? | 2 requests |
| `restricted_zones` (violation) | is private property refused whatever its schedule? | sampled zones |
| `erased_events` (violation) | does an erasure leave no analytics event? | 1 account, 2 requests |
| `offline_logout` (violation) | does an Android logout forget without the server? | 2 credentials, 1 fault |

Why these bounds: one account is enough for sessions because rows of different accounts never share a
lock or a guard; three concurrent requests are a deletion, an insertion and an interfering third;
three token ids are a chain of two and a reset link. Two reports let a purge fail on one and go on to
the next; two decisions of one reporter on different reports are what a lost update needs, and three
moderators what a cycle of locks through a third could need. Four inserts are a chain with a first, a
middle and a newest record, and a gap. Two users and one device are a device that changes hands; two
purchases and five answers are a purchase that is bought, revoked and restored by another account, and
a redelivered event. Feeds one longer than the limit reach it; two payloads in opposite orders are
what two imports need to deadlock, the third importer what a repetition needs. Two pages are a
sign-out and the sign-in after it. `CHECK_DEADLOCK FALSE` is set everywhere because supplies (token ids,
report ids, decisions, clock steps) are bounded and a behaviour stops when they are used up; that
requests do not hang is what `sessions_live` and `ImportsFinish` show.

Properties, and the question each answers:

* `OneLivePerFamily` - can two concurrent refreshes of one token both succeed? No.
* `SessionsHaveAccounts`, `OwnersExist`, `ErasureIsComplete` - can an insert slip past an erasure? No; and
  a completed deletion receipt exists exactly for the accounts that are gone.
* `SurvivorsNeedOverlap` - when can a session or link older than a password reset stay usable? Only
  if a request read the credentials before, and committed after, the reset's `revoke_all`. The
  violation `reset_in_flight` shows that it does happen.
* `ImplementsLedger` - the committed rows behave as `CredentialLedger`, under the mapping `live` = in
  `rows`, `spent` = deleted by a committed transaction.
* `GuessesAreLimited`, `RowKeepsTheLimit` - what the limiter guarantees in one instant. A request in flight
  can undo a lock once, so the bound is a product: a round for each request in flight, and in each the
  failures until the lock and one of every other request. A limit of one failure is enforced as two
  (`Limit`), because the first failure is an INSERT that never locks; the default of five is enforced.
* `RefreshesAreSerialized`, `PairsMatch`, `SessionsAreHeld` - a client runs one refresh at a time and, if
  it treats every failed refresh as terminal (iOS), submits a credential once; it stores pairs that
  match, and loses an open session only to a lost answer, a failing store, overlapping calls or a new
  login.
* `DeletedEvidenceIsGone`, `MissingEvidenceIsExplained`, `OrphansAreExplained`, `DeletedOnce` - how far
  rows and bucket can disagree: never in the direction of a recorded deletion that did not happen; a
  row may offer a lost photo, and an object may lack a row, only after the failures and races named
  in the property.
* `ReputationFollowsDecisions`, `NoLockCycle`, `SecondAppealNeedsOverlap` - the moderation desk.
* `ChainIsTheLog`, `DamageIsDetected` - the chain is the log of privileged mutations in commit order, and
  any damage but the removal of its newest record stays detected. `NewerEnrolmentLostByOverlap` - a
  confirmation undoes a newer MFA enrolment only if the two overlapped.
* `ClaimInv`, `AlertsAreExplained` - one evaluation holds the claim of an alert; a push that is unwanted or
  goes to somebody else's device was overtaken by the change; an erased account gets none.
* `ExportsAreComplete`, `ConsentNeverGoesBack`, `EventsAreConsented` - an export lacks only what committed
  after it was asked for; the effective consent never returns to an older decision; an event against
  a refusal had been overtaken by it, and a full buffer keeps the newest.
* `NewestEvidenceWins`, `PremiumIsEarned` - store answers in any order leave the newest evidence, events
  are recorded once, and premium rests on evidence that is in force and names the account.
* `StreamsAreExplained`, `OneEvaluationPerStop` - at rest a location stream runs only for a page whose
  switch and preferences are on, but for the races named there; a stop is evaluated at most once.
* `FeedIsAccounted`, `ImportsAreIdempotent`, `ImportsFinish` - every record of a feed is accepted or
  rejected once and the batch says so; overlapping imports of one feed leave one batch, and a record is
  what the last committed import says; every import ends.
* `ImplementsImportLog` - the committed tables behave as `ImportLog`: can a reader, a failure or a deadlock
  victim ever show a part of an import, or a feed imported twice? No.
* `AnswersFollowEvidence`, `RulesDecideConservatively`, `OfficialEvidenceWins` - a decision is fail closed,
  what it calls stale has expired or is the very zone imported between its two reads; it takes the gravest
  rule that applies and is INDETERMINATE only if none does or a rule cannot be verified, against a
  reference for weekdays, exception dates and windows of its own (`OnOwnDays`, `Covered`); it never hides
  official evidence.
* `SchemaInv`, `ServingReplicasFit` - what is committed is the schema of a revision however it was reached, the head is
  what the models expect, no ciphertext is cut, and the replicas of either release can write meanwhile.

Several of these are conjunctions of named parts in their modules (`EventsAreConsented` is
`UnwantedEventWasOvertaken` and `NewestEventsKept`, and so on); the type invariant of a module is checked
with one of them (that of `AuthSessions` with `SessionsHaveAccounts`). The six violation runs show a disagreement between a document or test and the code;
PROJECT.json quotes both sides of each.

### Further counterexamples

These configurations are kept beside the project; each is named after the module it configures. In
each but the last TLC finds a behaviour that a sentence of the documents does not foresee; the
property quotes it.

| Configuration | Property | What happens |
|---|---|---|
| `MCCommunity_appeals` | `SingleOpenAppeal` | two appeals of one report are checked before either is inserted |
| `MCAuthSessions_listed` | `ListedSessionsAreRefreshTokens` | a reset link is listed as a session |
| `AdminAudit_tail` | `RemovalIsDetected` | removing the newest record leaves a chain that verifies |
| `MCNotifications_once` | `PushedOnce` | a push precedes a rollback, and the next evaluation pushes again |
| `MCMunicipal_stored` | `InvalidFeedsAreStored` | what a reader or a loop raises (a CSV field above the limit, a surplus cell, deep JSON, an infinite weekday) ends the request with an error instead of a stored batch |
| `MCMunicipal_replay` | `ReplaysReturnTheOriginal` | two imports of one feed at once: the second ends in a unique violation |
| `MCPrivacy_audit` | `AuditSubjectsAreNulled` | an audit event that a logout inserts during the erasure keeps the account's id |
| `MCPrivacy_snapshot` | `ExportsAreSnapshots` | an export lacks a row and has one that was committed later |
| `MCParkingDecision_current` | `ParkOnCurrentEvidence` | evidence that expires between the two clocks still answers PARK |
| `MCParkingDecision_malformed` | `MalformedIsIndeterminate` | a malformed rule (a window with a timezone, an improper timezone key) raises instead of answering INDETERMINATE |
| `AlertStream_disabled` | `DisablingCancelsTheStream` | a start refused while a stream runs, or a sign-out during a start, leaves the stream running |
| `MCCommunityMedia_live` | `RequestsFinish` | holds: every media request ends |

### Fairness

On the server `Advance(q)`, the next statement of a request in progress, is strongly fair
(`sessions_live`, `ImportsFinish`). Strong fairness is what PostgreSQL's lock queues give: a waiter is
served in order, so a statement that is possible again and again is eventually executed, although
the lock is taken by others in between. Deadlocks are broken by the detector, which is part of
`Advance`. On a client `Step(c)`, the next stretch of a call, is weakly fair: the network layer has a
timeout and a resumed coroutine is run. Nothing is assumed of new requests and calls, of `Rollback`,
failures, faults or of the clock.

## What is proved

Every theorem is about the specification TLC checks: the proof modules extend the module that a run
configures (`MCIdentity`, `MCCommunity`, `MCAccounts` and `MCMunicipal` for the components that only they
instantiate), so the statement names the very definition of the run. There, the step of the composite
is the step of one component while the variables of the others stay, and a lemma (`...MovesAlone`)
reduces `IdentitySpec`, `CommunitySpec`, `AccountsSpec` or `MunicipalSpec` to the specification of the
component. TLC's
instance has two or three of everything; the theorems hold for any number of accounts, rows, requests,
records and rules.

The constants are assumed only to have the shapes that the modules name, and TLC evaluates each
assumption. Sentinels are not members of the sets they stand beside (`NoUser`, `NoToken`, `"never"`,
`NoZone`, `Naive`). The locks of rows of different tables are different locks (`ModerationShapes`). Scores
are in 0..100 (`connectors.py:34`), a provenance is one of the four values and an effect one of the
three, the bounds of a window are minutes of a day, exception dates are days, and an improper timezone key
is not a known timezone (`DecisionShapes`, the types of `parking/domain.py`); ids of records are ids
(`FeedShapes`). The login requests that present one key at once are finitely many, and a window and a lock last longer than the one step of the clock that a
request may see (`LimiterValues`; the defaults are minutes, `sql_abuse.py:19-20`). A buffer of analytics
events holds at least one, and `analytics` is a purpose (`PrivacyShapes`); stops are counted by a natural
number (`AlertShapes`).

Identity, `AuthSessions_proofs`:

* `TypeCorrect`: `Spec => []TypeOK`. The induction needs `ConsumedIsMinted` beside it, because a refresh
  reads the claims of the token it presented.
* `RotationSafe`: `Spec => []OneLivePerFamily`. The property is not inductive: it depends on which
  transaction may still commit which token. `RotationInv` adds that locks are exclusive
  (`LocksHold`), that an uncommitted token is private (`PendingIsPrivate`) and opens a chain of its own or
  succeeds the one token its transaction has locked (`PendingIsNext`), that no spent token is in the
  table, and what each program point implies (`Progressed`).
* `ResetsRevokeTheRest`: `Spec => []SurvivorsNeedOverlap`, from `SurvivalInv` beside `RotationInv`: no token is
  ahead of its account's password, what is not committed yet and older than the password belongs to an
  overlapped user (`PendingNeedsOverlap`), and a reset that has collected its rows leaves only rows of such
  users, which the older version of the password it replaces cannot add to (`RevokesAllButOverlap`).
* `SessionsOwned`: `Spec => []SessionsHaveAccounts`, from `TypeCorrect` and `ErasureInv`: a transaction that references an
  account keeps it in the table, and an erasure in progress is the only writer of its account and has
  deleted, or will still visit, every committed row of it.
* `Refinement`: `Spec => ImplementsLedger`. Only a commit changes the ledger: one that removed a row and
  issued a token is `Exchange`, one that only issued is `Open`, any other is `Void`; all other steps
  stutter (`OnlyCommitsWrite`, `SignedKept`, `CommitRefines`).

`CredentialLedger_proofs` proves of the abstract ledger, for every set of credentials, `ChainsHaveOneLive`
(a chain has at most one live credential) and `SpentStaysSpent` (a spent credential is never live
again), which is what the refinement hands to the `sessions` table, and to the native clients that run
against the ledger.

The login limiter and the native clients, `Identity_proofs`:

* `RowAlwaysKeepsTheLimit`, from `LimitInv`: one transaction has written the row (`OneHolder`), its draft is
  what the upsert makes of the committed row or of an empty one (`Attempting`), a row is locked exactly
  from the limit on (`RowStands`), and the attempts that can still be added to the count of an unlocked
  row (`Adding`) are what the count may pass the limit by.
* `GuessesAreAlwaysLimited`, of a caller that commits failures (`FailuresCommit`; the login route does not,
  see `limiter_route`), from `GuessInv`, a potential: the guesses so far, what the current round still
  admits (`Ahead`), and a whole round for every request that has yet to delete a lock it saw as passed
  (`Clearers`) and for a window about to end (`Stale`) never exceed the bound.
* `RefreshesStaySerialized`, from `CallsInv` (the refresh in flight is led by one call, and what each place
  of a call implies) and `RefreshInv`: a stored credential that was submitted belongs to the leader, which
  goes on to replace or clear it, and an answer is a credential that nobody else has stored or holds
  (`CredentialsStand`).
* `PairsAlwaysMatch`, from `PairInv`: unless two calls met half-way, a save knows the refresh token it wrote
  and a clear that the access token is gone or stuck.
* `SessionsStayHeld`, from `HeldInv`: a call that is past its read finds in the store what it read or
  saved, or what it has not seen (`KnowsStore`, `KnowsOthers`), so what it overwrites is excused.

Photo evidence, `CommunityMedia_proofs`: `MediaIsTyped`, `DeletedEvidenceStaysGone`,
`MissingEvidenceHasAReason`, `OrphansHaveAReason` and the action property `EvidenceIsDeletedOnce`, all from
one inductive invariant, `MediaInv`. It says of every request what its program point implies about
rows and bucket (`Shaped`: a submission before its commit has put its object or recorded a failure, a
deletion that is marked has deleted), of every two requests that they are apart (`Apart`: no common row
lock, no erasure beside a submission of the same account about to commit, no common new report), and
of the committed rows the properties themselves (`Kept`). Without `Apart` neither explanation of a lost
or orphaned object is inductive.

Moderation and administration, `Community_proofs`:

* `ChainStaysTheLog`, `DamageStaysDetected`, from `AuditInv`: one replica is between its lock and its
  commit (`OneAppender`), what it inserted is numbered after every committed row and linked to the newest
  one (`DraftIsNext`), and the undamaged rows are one chain (`OneChain`): the place of a row is the length
  of what its hash covers, every place up to the length of the log is taken once, and the order of the
  numbers is the order of the places. Numbers have gaps (a rollback does not give one back), so the
  places, not the numbers, carry the induction. A damaged table stays detected because an append only
  links to the newest row and repairs no link before it.
* `EnrolmentLossIsOverlap`, from `EnrolmentInv`: a confirmation in flight holds the secret its account has,
  or was overtaken.
* `ReputationAlwaysFollows`, from `DeskInv`: a lock has one holder (`LocksAreExclusive`), and the draft of a
  decision is what it makes of the committed reputation, which its lock keeps from changing
  (`DraftsFollow`).
* `LocksAreOrdered`: `NoLockCycle` for any number of requests. In a set of requests that all wait, the one
  that came furthest in the order appeal, report, reputation, audit chain can wait only for a lock that
  nobody of the set holds. `DeskInv` gives what each program point may hold (`Deciding`).
* `SecondAppeals`, from `AppealsOverlap`, which counts an appeal that is inserted but not committed as open.

Accounts, `Accounts_proofs` and `Notifications_proofs`:

* `NewestEvidenceStands`, `PremiumIsAlwaysEarned`, from `RowInv`: one verification holds a purchase
  (`RowLocks`), its draft is what its evidence makes of the committed row (`DraftsAreCurrent`), a row comes
  from evidence that was reconciled and is not older than any (`RowsComeFromEvidence`, `RowsAreNewest`);
  and from `EventInv`, in which an event about to be committed is new and of one transaction.
* `OwnersAlwaysExist`, from `OwnerInv`: a draft never names an account whose erasure began, unless the
  erasure still waits for the row.
* `ErasuresAreComplete`, from `HoldInv` and `AccountInv`: a request that has inserted a row for an account
  finds the account until it ends, an erasure that deleted it is the only one that had inserted anything
  (`HoldInv`, the key-share locks), and so the receipts of an account that exists complete no erasure, those
  of one that is gone exactly one (`AccountInv`). Counting them needs that ON DELETE SET NULL merges no two
  receipts (`UnlinkedCompletions`).
* `ConsentNeverRevives`, an action property: a commit only adds decisions, and an erasure leaves those of
  other accounts.
* `ExportsStayComplete`, from `ExportInv`: what an export has not read was committed after it began.
* `EventsStayConsented`, from `TrackInv`, `IdInv` and `BufferInv`. At most one decision of a purpose is in
  force because ids, which sort anywhere, are drawn once (`IdInv`, `OneInForce`); a request that read a grant
  keeps it in force or is overtaken (`TrackInv`). Of an accepted event that is neither in the buffer nor
  erased, `max_events` newer ones were accepted (`BufferInv`); the buffer keeps its length because its oldest
  event has fewer than `max_events` after it (`BoundedLength`).
* `StreamsStayExplained`, from `StreamInv`: one page at most is on the screen (`OnScreen`), and a page that no
  failure or overlap left behind is on its way to what its switch and preferences say (`OnItsWay`), place
  by place.
* `StopsAreAskedOnce`, from `StopInv`: an evaluation on its way belongs to a page that was built, and the
  page on the screen has asked for no stop that the server has served; pages never come back
  (`PagesComeOnce`).
* `ClaimsBelongToOne`, from `ClaimInd`: an evaluation that decided to alert has one account and one key.
* `AlertsAreAlwaysExplained`, from `AlertInd`: what an evaluation read is what is stored, or the change is
  marked (`ReadsAreMarked`), and whoever claimed exists (`ClaimersExist`).

Municipal evidence, `Municipal_proofs`:

* `FeedsAreAccounted`, from `FeedInv`: accepted and rejected positions part what was read (`Parted`), what
  marks an id is an accepted record or a GeoJSON feature whose rules alone failed to parse, which the
  connector marks before it parses them (`Marks`, `SeenIsMarked`), accepted ids are as many as accepted
  records (`AcceptedInv`), and a valid record is left out only for an earlier one of its id (`LeftOut`).
  The status then needs that a feed with a repeated id has fewer ids than records (`FewerIds`). A loop that
  raises keeps all of it (`LoopRaisesKeeps`).
* `ImportsAlwaysIdempotent`, from `ImportInv`: the unique key of an uncommitted batch is its own and not
  yet committed (`KeysAreApart`), batches and committed keys are equally many (`BatchesCounted`), and a
  record is what its last committed import says (`RowsFollow`).
* `ImportsAreSerial`: `MunicipalSpec => ImplementsImportLog`. Only `CreateSource` and the commit of a new feed
  change the tables (`OthersStutter`). Such a commit is `Import` (`CommitIsImport`), because a request that
  appended to the audit chain has upserted every record of its feed (`Importing`) and its key is not
  committed (`KeysAreApart`): both are conjuncts of `ImportInv`.
* `HistoryAlwaysStands`: batches and quarantine are immutable, as `docs/phase-16:28` says, and a record is
  replaced only by an import that carries it. It is proved of `ImportLog`, and the tables inherit it from
  `ImportsAreSerial`.
* `AnswersAlwaysFollow`, from `DecisionInv`: each program point implies the checks passed so far (`Founded`),
  and every zone that covers an uncovered request had expired when it began, or is one of those imported since
  (`ExpiredStays`).
* `RulesAlwaysDecideConservatively`: a rule is on its day exactly if its local time is on its own days, by the
  division into days and weeks; the comparison of the code (`start <= t < end`, or either of the two
  if the window runs over midnight) is the reference `Covered`, which goes round the clock (`InWindow`),
  and the maximum by severity is the gravest effect (`GravestEffect`), for every rule and minute.
* `OfficialEvidenceAlwaysWins`, from the order by provenance and score (`BestZone`, `OfficialFirst`), whose
  minimum exists by well-foundedness of the natural numbers (`LeastNatural`).

Proof attempts changed the model where it had been too coarse, or too hopeful. The bound on guesses
had been the slots times one more than the limit, which the potential did not give; TLC then found five
concurrent
requests that exceed it, because the requests that already passed the check strike again in every
round. A credential had been said to be submitted once by any client; the induction failed at the
refresh of Android, which catches what the request raises and keeps the credential
(`SessionController.kt:43`), and a third view that starts up submits it again. That refreshes run
one at a time holds on both platforms, that a credential is submitted once where `Raises` is false.
`_in_window` covers the whole day for a
window that ends where it starts, which the code admits for the windows in which a rule does not
apply; the reference `Covered` had it empty. A stored time with a zone makes a rule raise only if no exception
that the code compares before it already covers the time (`any` stops early), hence `MayRaise` and
`MustRaise`. The lock names of a moderation have to be different for different tables, which the sets of
TLC's instance had been by accident. That the buffer keeps the newest events had been said of the events
whose accounts exist; it is false of two accounts, which the run (one account) had not shown: an event that
left a full buffer is among the newest again once an erasure deletes newer ones of another account. The
erased events are counted now (`NewestEventsKept`).

### Model-checked only

* Liveness, `SessionsFinish` and `ImportsFinish`: fairness and ENABLED are out of the prover's reach.
* `SchemaInv`, `ServingReplicasFit`: `Migrations` has no constants, so TLC's run is exhaustive and there is
  nothing to generalise.
* The violation runs and the further counterexamples, by their nature.

## Not modelled

* Registration, e-mail verification and access tokens: accounts start registered and verified,
  `is_active` is never cleared by the code, and access tokens are checked against `users` on every
  request and have no server-side row.
* Duplicate detection of reports and text-only submissions: no photo, no lock. Read grants change no
  state.
* Parking assistant, recommendations, recovery and sign scanner: stateless requests that rank and
  word what other modules and external providers answered.
* In-memory repositories (test doubles of one process), but for what the one of municipal feeds promises
  (`ImportLog`); user interface, HTTP wrappers, header checks,
  settings, error formatting, tracing and metrics output.
* The Flutter session API: the shape of `NativeSession` without joined refreshes. The distances and
  dwell times of the stop detector are abstracted to "drives" and "parks".
* Terraform other than the lifecycle rule; deployment other than the order of migrations and releases.

## Plan

All modules the plan named are written, and every safety property of a passing run is a theorem but
those of `Migrations`. What would say more about the system:

1. `AuthSessions` with registration and e-mail verification, so that an account starts unverified.
2. The Flutter session API against `CredentialLedger`, as `NativeSession` is for the native clients.
3. An abstract specification of the moderation desk, a decision applied at once with its audit event,
   which `Moderation` implements as `Ingestion` implements `ImportLog`.
