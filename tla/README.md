# Verification of the NestJS hexagonal template

This directory models the parts of the API that keep or change state in TLA+, checks
them with TLC on small instances and proves the central properties with TLAPS for
every instance. Paths below are relative to `src/` of the repository's `src/` tree.

## The system

A multi-tenant HTTP API: several identical Node processes in front of one
PostgreSQL, an identity provider (SuperTokens), a Redis with BullMQ queues and an
S3 bucket. JavaScript runs a handler without interruption between two `await`s, so
the unit of interleaving is the piece of a handler between two awaits. No use case
opens a database transaction: every repository call commits on its own.

| Component | State | Operations | Interacts with | What is hard |
|---|---|---|---|---|
| tenant features (`tenant-feature/`) | table `tenant_features`; one in-memory TTL cache per process | FeatureGuard, `isFeatureEnabled`, `getNumericLimit`, GET, bulk PUT | tenants, database | staleness across processes, late reads, cache limit, expiry, lost updates |
| user accounts (`user/`) | table `users` | create, patch, password, active, delete, list, me | provider, request pipeline | check-then-act across awaits, full-row updates, two systems without a transaction |
| authentication (`auth/`) | identities, sessions and reset links at the provider | forgot, reset | provider | partial failure after the link is consumed; logins in between |
| request pipeline (`common/`, `app.module.ts`) | none of its own | middleware, guards, pipes, filter | all routes | stale authority, order of guards, empty tenant of the superadmin |
| samples and queue (`sample/`, `queue/`) | table `samples`, BullMQ queue | CRUD, schedule deactivation, worker | Redis | enqueue timeout against late add, redelivery, retries, sort order race |
| anti-bot (`anti-bot/`) | store of used tokens per process, per-process secret | issue, chain of guards | Cloudflare, challenge resolver | expiry between check and use, single use, pruning and cap, restarts, seconds against milliseconds |
| realtime (`realtime/`) | sockets and rooms | connect, emit, disconnect | provider, database | handshake against deactivation and disconnection |
| tenants (`tenant/`) | table `tenants` | create, update, remove | all | unique document race, full-row update |
| audit log (`audit-log/`, interceptor) | table `audit_logs` | append | all writing routes | fire-and-forget after the answer, redaction depth |
| storage (`storage/`) | bucket | upload | S3 | two parallel uploads, one failing or hanging |
| health (`health/`) | none | readiness, liveness | database, S3, Redis | probes that never answer |
| utilities | none | pagination, CPF, CNPJ, slug, key, password schema | all | boundaries |
| config, database, logger, bootstrap | none | wiring | | nothing to interleave |

What makes each component correct:

- *tenant features*: nothing older than TTL plus latency is served; the Map never
  exceeds its limit and gives up the oldest; a limit a PUT does not mention stays.
- *user accounts*: a tenant keeps an administrator; a request changes only what it
  asks for, only in its tenant; an interrupted DELETE can be repeated.
- *authentication*: a change of password that succeeded leaves no older session.
- *samples and queue*: what was answered 202 happens; a deactivation happens at most
  as often as asked; a late or repeated job does no harm.
- *anti-bot*: a token is accepted at most once while it is remembered, per store; who
  takes his time is not discarded.
- *realtime*: an event of a tenant reaches only sockets that joined as its users; only
  active users join; a failure of the provider is not taken for a bad session.
- *tenants, pipeline, audit*: one live tenant per document; no handler without its
  guards; a record is of a change that happened, and a change is recorded.
- *storage, health*: who is told that a file is stored finds it; no request waits
  for ever for S3 or for a probe.

## Modules

| Module | Content |
|---|---|
| `TenantFeatures` | tenant features on several processes: table, caches, reads, PUTs, time, faults |
| `FlagWindow` | abstract: what the cache promises, without Map, timers, queries or invalidation |
| `TenantFeaturesRefinement` | the mapping: unexpired entries are the views of `FlagWindow` |
| `UserAccounts` | rows, identities, sessions, links and the requests that change them |
| `RealtimeRooms` | sockets and rooms, composed with `UserAccounts` |
| `SampleQueue` | samples, the jobs that deactivate them, the workers that run these |
| `Deactivations` | abstract: what a caller of `POST :id/deactivations` may rely on |
| `FormTokens` | form tokens: issue, the guards of `@AntiBot()`, the store of used tokens |
| `SingleUse` | abstract: each store lets a token through once while it remembers it |
| `RequestPipeline` | what every request goes through; tenants, uploads, readiness, audit log |
| `MC_…` | for each component, the small values and the symmetry TLC uses |
| `…_proofs` | for each component, its theorems |

An operator named `X_SomeBug`, under a comment `Bug:`, is a plausible defect of `X`.
It is used by no specification; replacing `X` by it makes a stated property fail.

### TenantFeatures

`db` is the table, `cache[i]` the Map of process `i`, `checks[c]` and `puts[w]` the
reads and the PUTs under way. A read is `BeginCheck` (guard and numeric limit) or
`BeginGet`/`GetLookup` (the GET routes look the tenant up first), then
`QueryAnswered` at the database and `StoreAndServe` back at the process. A PUT is
`BeginPut`, `PutLookup`, `PutReadsCurrent`, `PutCommits`, `PutReplies`, one per await.
Faults: a query rejects (`CheckFails`, `PutFails`), a process dies (`Restart`), and a
statement whose client is gone is executed later (`AbandonedCommits`).

Abstractions. Time is discrete and kept as ages, so the state is bounded: an entry
holds `left = expiresAt - Date.now()`. All processes share one clock, and it does not
go back. A Map's insertion order is the set of keys inserted before each. `lastTrue`
is a history variable. `ReadLag` bounds the time between the database's answer and
its use; the code has no such bound (a slow event loop may exceed any), it is an
assumption about the environment, and the window proved is `TTL + ReadLag - 1`: the
comment that calls the TTL alone the window leaves out this latency. Superadmin and
tenantless requests change no state here.

### UserAccounts

`users` is the table, `identities`, `sessions` and `links` what the provider keeps,
`requests[r]` a request under way with the row it has read (`seen`). `Admit` is the
middleware, RolesGuard and the checks on oneself; `FindTarget` and `CountAdmins` the
reads; `Update`, `RevokeSessions`, `DeleteIdentity`, `SoftDelete`, `SetPassword` the
effects, in the order of `Steps`; `FindEmail` and `Insert` a creation; `Login`,
`SendResetLink` and `ConsumeLink` what a user does by himself; `RequestFails` a
rejected await or a dead process, at any point, without undoing anything.

Abstractions. Names and phones are not told apart from the rest of the row; an e-mail
is an attribute of the id, since no route changes it. A session is the password it
was opened with, `now` or `old`. Access tokens outlive the revocation of their
session for a while, so any active row may make a request. The provider may or may
not end the sessions of an identity it deletes. Tenants are closed only in
`RealtimeRooms`. The superadmin belongs to no tenant, so his calls to these routes
change nothing.

### RealtimeRooms

Extends `UserAccounts`: its requests go on while sockets connect. `sockets[c]` is a
socket from `handleConnection` to its end, on the process `proc`; `listening` the
processes whose namespace is set up; `closed` the tenants that are inactive or removed.
A handshake is `Connect` (`checkOrigin` first), `SessionValid` or `SessionInvalid` (the
provider's answer), `LookUp` (the active row), then `Join` or `Reject`, one per await.
`HandshakeFails` is a provider or a database that fails, which closes the socket without
saying `unauthorized`. `Disconnect` may come at any moment: a handshake goes on without
its client and `Join` then finds the socket closed. `emit` sends to the room of a tenant
on one process, `afterInit` and `ProcessStops` begin and end a process.

Abstractions. Nothing in `src/` calls `emit` yet; the model emits at any moment, for any
tenant. The shims that give the provider's SDK an HTTP request and response are the
provider's answer. There is no adapter between processes, so an event reaches the
sockets of one process. `received` and `seen` are history.

### SampleQueue

`samples` is the table, `requests[r]` a request under way, `jobs[j]` a job from the call
of `add()` to its end, `workers[w]` an execution of `process()`, on any process.
`Begin` is the route; `FindForWrite` with `Patch` or `Remove`, `ChooseOrder` with
`Insert`, and `FindForJob` the use cases. The race of the enqueue is `AddArrives`,
`AddIsLost`, `Accept` and `Refuse` (the timer). A worker runs `WorkerFinds`,
`WorkerWrites`, `WorkerRereads`; `WorkerFails` is an error, `WorkerDies` a dead process,
and `Stall` a lock that expired, while its worker may go on all the same.

Abstractions. Delays and backoffs are part of the time a job waits, which is left open.
Redis loses no job it has taken. A job ends as BullMQ decides: after `Attempts` errors or
more than `MaxStalls` stalls it is failed, and a result without the lock is refused.
`off` and `wrote` of a job are history. Names and descriptions are not told apart from
the rest of the row.

`Deactivations` is the caller's side: a call that is answered once, a deactivation that is
called, then pending or vanished, then kept or broken for good, and the set of samples that
are off. Attempts, stalls, locks, workers and the phases of requests are behind it.

### FormTokens

`tokens` are the tokens issued, `used[p]` the Map of the store of process `p`,
`submissions[s]` a form under way. `issue` signs; `Submit` is the guards that answer
without waiting (honeypot, signature and expiry, timing), in the order of `@AntiBot()`;
then each guard that waits is a step: `TurnstileOff`, `TurnstileMissing`,
`TurnstileVerdict`, `TurnstileUnknown`; `ChallengeNone`, `ChallengeAsked`,
`ChallengeImpossible`; `LetThrough`, `RefuseUsed`, `ExpireLate` of the guard that consumes
the token. `Restart` gives a process an empty store and, if no secret is configured, a
new one. `markUsed` is the store's check, sweep (`Swept`), `Map.set` and cap (`Excess`)
in one step, as it has no await.

Time is in ticks, `Second` of them to a second: `iat` and `exp` are whole seconds, ages
and what remains are ticks, and every process has a clock of its own (`Skew`). A token
that was never issued stands for a forged one. A `setting` is drawn once per behaviour.

Abstractions. What a body carries for a guard is whether it is right. Which of the
resource's challenges is asked, the wording of the fake success and the markup the
interceptor removes are left out. No route of the repository uses `@AntiBot()` itself
(forgot and reset of a password use only the Turnstile guard): the module is what a route
that uses it can rely on. `through` is history: what a process let through, but for
what its cap has dropped.

### RequestPipeline

`requests[r]` goes from the middleware (`SessionFound`, `SessionMissing`, `LookUp`,
`LookUpFails`) through `GuardsRefuse` or `GuardsPass` (roles, tenant, throttling, in the
order of `app.module.ts`) and `PipesRefuse` to the route: `CreateFinds`, `CreateSaves`,
`CreateCollides`; `PatchFinds`, `PatchWrites`, `PatchRereads`; `Remove`; `UploadStarts`,
`PutEnds`, `PutFails`; `ProbeEnds`, `ProbeTimesOut`. `Succeed` is the interceptor, `Refuse`
the filter, `RecordSaved` and `RecordFails` the INSERT of the record that nobody awaits.
An object may arrive in the bucket after its upload was given up (`ObjectArrives`).

Abstractions. A file is what the client declares and what its first bytes say; sharp is
outside. The counters of the throttler are its library's: it may refuse any request. A
document is compared as it is written, as the code does (below). A body that the schema
refuses is `PipesRefuse`. `seen`, `changed`, `faulted` and `raced` are history.

## Runs

| Run | Bounds | States | Shows |
|---|---|---|---|
| `features_window` | 2 processes, 1 tenant, 2 reads, 1 PUT, TTL 3, lag 2, cap 0 (unset: default 1) | 232,708 | refinement of `FlagWindow`, window, types |
| `features_cap` | 4 tenants, limit 3, 2 reads, no PUT | 35,758 | limit, and eviction of the oldest |
| `features_liveness` | 2 processes, 1 read, 1 PUT, TTL 1 | 627,438 | stale entries go, the decisions of `FeatureGuard` catch up with the table, a removed tenant freezes, the causes of staleness, an omitted limit stays |
| `features_late_read` | 1 process, 1 read, 1 PUT | violation | a late read re-caches an old flag |
| `accounts_rows` | 2 administrators, 1 user to create, 2 requests of every kind, a password among them | 535,000 | how, and only how, a tenant loses its administrators; exact writes when nobody interferes |
| `accounts_last_admin` | 2 administrators, activations only | violation | no administrator left |
| `accounts_realtime` | 3 administrators of 2 tenants, 1 request, logins and links of one user, 1 process, 1 socket, 2 origins | 905,000 | rooms and events, sessions, identities, tenants, types |
| `queue_jobs` | 1 sample and 1 to create, 2 requests, 1 job, 2 workers, 2 attempts, 1 stall | 256,060 | refinement of `Deactivations`; jobs end and are done when they say so; requests end; removed samples stay removed; position of new ones |
| `queue_unavailable` | 1 sample, 1 request, 1 job | violation | 503, and the job runs |
| `form_tokens` | 2 processes a second apart, 2 tokens, 2 submissions, a cap of 1, 4 instants, 1 restart, 2 deployments | 1,303,896 | refinement of `SingleUse`; reuse, timing and expiry; types |
| `form_tokens_eviction` | 1 process, 3 tokens, a cap of 2 | violation | the cap forgets a mark that is needed longer than another |
| `pipeline` | 2 requests of all routes, 2 members of a tenant, one of them listed as superadmin; 3 tenant ids, 2 documents | 522,000 | who reaches a handler, what is recorded, what uploads promise, unique documents, no hanging |

Why the bounds are enough. Two processes tell "the process that took the PUT" from
"another"; two reads are needed for concurrent fills of one key, four tenants and a
limit of three for an eviction that has a choice among live and expired entries; a TTL of 3 and a lag of 2 let an entry
be filled late, live and expire within one behaviour. Two concurrent requests give
every pairwise interleaving of handlers, each of which is a sequence of at most four
steps; a third user makes the count differ from two, or belongs to another tenant.
With sockets there is one request at a time, because a handshake has four steps of its
own: what two requests do to each other is `accounts_rows`, and the theorems
cover any number of both. One socket is enough because sockets share nothing but the
tables and the process, and a slot is used again.

Two workers give a job to a
second one while the first, stalled, still runs it; two attempts instead of the three of
the code have a failure that is retried and one that is final; there is one job
identifier, so that a schedule call is admitted only while that job has not been created
(`JobToSpare`). What another job does to this one, it does through the row of the sample,
which a PATCH reads and writes at the same moments; the theorems cover any number of jobs.
There is one sample to create, so that two creations never overlap in the run; a creation
and a DELETE or PATCH do, and `NewSamplesComeLast` covers the rest.

For form tokens a second is three ticks, so that `iat` and `exp` round, and every token of
the run lives a second; a cap of one with two tokens evicts. The deployments are a template
just cloned (no secret, no captcha) whose window is one tick, under a second, so that
`TimingGuard` refuses what the token still allows; and replicas with a secret, a captcha
that fails closed and a window of four ticks, where the token expires first. The
requests of the pipeline are not used again: two of them race on a row, a document or the
state of a member, who may be deactivated at any moment. The one listed as superadmin is a
superadmin only while his row is not active.

Slots are used again everywhere else, so behaviours are unbounded sequences of requests.
All faults are on in every passing run. Corners that no run has (a TTL of zero, a cap of
one, many processes) are instances of the theorems.

Symmetry is used only where the property and the definitions do not tell the values
apart, and never in a run with liveness properties. `CHECK_DEADLOCK FALSE` is set where
the system may stop: for the accounts, because a race that deletes or deactivates every
administrator leaves nobody whose request is admitted; for `form_tokens`, at the last
instant; for `pipeline`, once its requests are answered.

Fairness. `FairSpec` of `TenantFeatures`: weak fairness of the clock, of each read and
of each PUT, since the database answers or refuses every query and the event loop
runs every continuation. `FairSpec` of `SampleQueue`: of each handler, of the timer of the
enqueue, of the delivery of a waiting job, of each worker, and of the detection of a
stalled job that no worker has any more (BullMQ's own periodic check). Redis owes nothing
to an `add()` under way. `RequestPipeline`: only of the timeouts the code sets itself, those of
the S3 client and of the probes; statements of the database have none, so nothing is
claimed of the other routes, nor of an upload before it reaches S3: the lookups of the
middleware and of the guards may hang, and `StorageNeverHangsARequest` starts at the puts
and at the probes. Nobody is obliged to send a request, and no fault is fair.

### What disagrees with the code's own words

- `features_late_read`: the use case writes before it invalidates so that "a
  concurrent read" cannot put the old value back; one that had its answer before the
  write still can (`TenantFeatureService.loadFeatures`).
- `accounts_last_admin`: the check for the last administrator and the update are not
  atomic; two administrators who deactivate each other both pass.
- `queue_unavailable`: the published description of the 503 says that the job was not
  queued and the call may be repeated; the losing `add()` goes on.
- `form_tokens_eviction`: the comment of the store says that the oldest mark is the one
  that expires first; marks are in the order of use, and expire in the order of issue.

Not stated as findings, but visible in the models:

- Two PUTs or two PATCHes on one row overwrite each other, because each writes back
  columns it has read: `AbsentKeepsUncontendedLimit` and `UncontendedWritesAreExact` say
  what holds when nothing came in between.
- `InMemoryTenantFeatureCache.set` makes room even when the key is already there, so two
  concurrent misses of one tenant on a full Map evict another, live tenant.
- A job whose UPDATE went through before its attempt failed deactivates again, 30 s
  later, a sample that was reactivated meanwhile: `process()` is idempotent on the row,
  not on what users do in between.
- A CNPJ with and without punctuation is two documents, so that one company may have two
  live tenants; the index and the check compare what was written.
- A change whose answer is an error may be in the table, with no record of it in the
  audit log (`ChangesAreRecorded` names the two ways).

## Proofs

All theorems hold for any finite or infinite sets of processes, users, slots and so on,
under the named ASSUMEs of the modules, which are what the configuration readers, the
schemas and the database guarantee. `TenantFeatures` needs finitely many tenants,
`UserAccounts` finitely many users, `FormTokens` finitely many tokens.

`TenantFeatures_proofs`:

- `TypeCorrect`: `Spec => []TypeOK`. One lemma per operator of the Map, one per action.
- `CapHolds`: `Spec => [](InsertionOrder /\ CacheWithinCap)`. The limit alone is not
  inductive: that deleting what `Evicted` names leaves at most `maxTenants - 1` keys
  needs the insertion order to be a strict total order (pigeonhole on the number of
  predecessors), hence the conjunction.
- `OldestGoesFirst` (`EvictsOldestFirst`), from the same two: what is evicted has
  `maxTenants - 1` newer keys, and there are no others.
- `EntriesAlwaysAgeOut`: `Spec => []EntriesAgeOut`. What is served cannot be bounded
  without the potential "age of the content plus remaining life", nor that without
  the age of answers in flight and the fact that the table's content has age 0. Steps
  that let no time pass preserve ages (`QuietKeepsAges`); `Tick` trades one for one.
- `WindowHolds` (`ServedWithinWindow`), from the above.
- `OldFlagsOutliveAPutForAReason` (`WhyOldFlagsOutliveAPut`): an entry that starts to
  differ from the table, with no PUT left to invalidate it, either was stored just now,
  which only a read whose answer is older than the table's content does, or a PUT ended
  elsewhere or without invalidating. That entries and answers were once the content comes
  from `EntriesAgeOut`.
- `OmittedLimitsStay` (`AbsentKeepsUncontendedLimit`): from the types, the merge of a body
  with what the PUT has read.

`TenantFeaturesRefinement_proofs`:

- `CachesKeepTheWindow` (`ImplementsFlagWindow`): a miss, a PUT that replies and a restart
  are `Forget`, an answer that is stored is `Learn` (or nothing, with a TTL of zero), a
  commit is `Write`, the clock is `Elapse`, and all the rest stutters. `Learn` needs the
  age of the answer and `Elapse` that of the entries, both from `EntriesAgeOut`.

`UserAccounts_proofs`. The inductive invariant `IInv` says what a request has read and
checked and later steps rely on, and that other requests cannot undo it:

- `Tables`: types, identities belong to rows, links to identities, no deleted row has
  an identity;
- `Sound(q)` of every request `q`: its requester is a row, its target a row of the same
  tenant, it does not ask what is refused on oneself, it counted another administrator
  if it takes one away, the steps left (`Remaining`) are those of what was asked, and
  the identity is gone if the next step marks the row deleted;
- `Reserved`: the id of a row about to be created is nobody else's.

It is preserved because every step is `Mild`: rows stay and keep their tenant, and
identities only go. The theorems, each from `IInv` by lemmas about one step
(`RunStepRow`, `OnlyTheTarget`, `LastAdminIsTheTarget`, `StepsGiveNothing`):

- `AccountsTypeCorrect` (`TypeOK`), `IdentitiesGoFirst` (`DeletedHasNoIdentity`);
- `NoReachAcross` (`TenantsDoNotTouch`);
- `LastAdminGoesInARace` (`AdminsVanishOnlyInARace`) and `LastAdminGoesUnderAStaleOne`
  (`AdminsVanishUnderAStaleAdmin`): the exact conditions of the race that
  `accounts_last_admin` shows;
- `LockoutIsForGood` (`LockoutIsPermanent`): who could give the tenant an administrator
  must be one, or run a request one began;
- `WritesAreExact` (`UncontendedWritesAreExact`) and `PasswordChangeIsThorough`
  (`PasswordChangeEndsOldSessions`).

`RealtimeRooms_proofs`:

- `RoomsKeepAccounts`: `RoomsSpec => Spec`, so all of the above holds with sockets.
- `RoomsAlwaysSound`: the invariant `RoomsInv` is `IInv`, the shape of sockets, and
  `SocketGood`: a handshake has noted what its user is now; a socket that resolved to a
  tenant has a user whose row, which no step moves, is of that tenant, and who was active
  at a moment of the handshake; one that is to be rejected was not, or had no session;
  nothing is received before the room is joined, and then only of its tenant. From it `RoomsTypeCorrect`, `EventsStay`
  (`EventsStayInTenant`), `ActiveUsersJoin` (`OnlyActiveUsersJoin`) and
  `RejectionsAreDeserved` (`UnauthorizedIsDeserved`).

`SampleQueue_proofs`. The inductive invariant `IInv` is `TypeOK` with

- `RequestsGood`: a row about to be inserted has an id of its own and, if no position was
  asked for, comes right after the list that was read; what is to be written is there;
  the job that is waited for was added;
- `JobsGood`: the job's sample is a row of its tenant; a job that can still run has
  attempts and stalls to spare, and has written nothing if it never failed or stalled; one
  answered 202 is in the queue; a completed one found or made its sample inactive; and the
  mark `off` is set as soon as the sample is off while the job is in the queue;
- `WorkersGood`: a worker runs a job of the queue and, as long as no attempt failed or
  stalled, it is the only one and has the lock.

From it `TypeCorrect`, `CompletedJobsAreDone` (`CompletedMeansDone`), `AcceptedJobsAreQueued`
(`AcceptedIsQueued`, which the runs check as part of `ImplementsDeactivations`),
`JobsWriteOnce` (`WritesAgainOnlyAfterAFault`), `RemovedForGood` (`RemovedStaysRemoved`)
and `NewSamplesComeLast` (`NewSampleIsLast`), which says of two creations at once what they
owe each other: each comes after the list it read. The last needs that a
finite set of numbers has a greatest element (`GreatestValue`: the least of the numbers of
greater ones, by the well-foundedness of the naturals).

- `QueueKeepsItsPromise` (`ImplementsDeactivations`): every step is one of `Deactivations`
  or is not seen. `Keep` needs that the job's sample was off (`JobsGood`, `WorkersGood`) and
  that only who has the lock ends a job; `Answer` needs one more inductive invariant,
  `Unanswered`: who waits has no answer yet, and shares his job with nobody.

`FormTokens_proofs`. The inductive invariant `IInv` (`Invariance`) is `TypeOK` with

- `Issued`: `iat` is the second of issue by the clock of the issuer, `exp` follows from it;
- `Marked`: a mark in a Map lasts exactly as long as its token, which was let through;
- `Verified`: a submission past the first guards has a token that its process verifies
  still, because a restart takes its submissions along;
- `Remembered`: with a random secret, what a process let through since it started is in
  its Map or has expired by its clock.

From it:

- `TypeCorrect`; `UsedWasLetThrough` (`UsedMeansLetThrough`);
- `OnceOverRestarts` (`OnceWithoutSharedSecret`): with a random secret per process,
  restarts and other processes verify nothing of each other's;
- `PatientPass` (`PatientAreNotDiscarded`) and `ExpiredAreOld` (`ExpiredMeansOld`): the
  arithmetic of seconds, ticks and clocks, without bounds, and for every window the
  configuration accepts: from a second on the token expires first, up to a second early;
  under a second the token lasts a whole one and `TimingGuard` refuses it before;
- `FormTokensAreSingleUse` (`ImplementsSingleUse`): every step is one of `SingleUse`.

`RequestPipeline_proofs`. Every property has an inductive invariant of its own on top of
`TypeInv`, so that each can be read alone:

- `TypeInv` is `TypeOK` with `AllPlaced`: the phase of a request says which route it asked
  for, that it has a user, and that the row it writes exists. From it `TypeCorrect`, which
  includes that no two live tenants have the same document.
- `RecordsMeanSuccess` (`RecordsAreOfSuccesses`): inductive as it stands, since an answer is
  final (`MoversStep`) and only the interceptor makes records, of a success (`WhoRecords`).
- `ChangesLeaveRecords` (`ChangesAreRecorded`), with `RowsLast`: a PATCH under way whose
  row is not live any more is in `raced`. Without it nothing excludes that the read
  after the UPDATE misses the row and the answer is a 404 that nobody is to blame for.
- `UploadsTellTheTruth` (`UploadAnswersAreTrue`), with `PutsAreSound` (the parts an upload
  no longer waits for are in the bucket), `StoredIsThere` and `ObjectsAreOfUploads` (an
  object is of an upload that got past its checks).
- `OnlyTheAdmittedPass` (`AdmittedWereActive`), with `SeenNow` (until he is looked up, what
  the user is now has been seen) and `FoundWasTrue` (what he was looked up as, he was).

TLC has checked these invariants on the instance of `pipeline` as well.

Only model-checked: the liveness properties `StaleEntryGoes`, `FlagsTakeHold`,
`RemovedTenantFreezes`, `RequestsEnd`, `JobsEnd` and `StorageNeverHangsARequest`. Liveness under fairness and ENABLED
are out of the prover's reach, and so is induction over data, which no theorem here needs.

## Not modelled, and the plan

What could still be added:

1. The position and the state of a sample that an overlapping edit or job writes back, as
   a property of `SampleQueue`; today only its effect on removed rows is stated.
2. Functions of one input: pagination, check digits of CPF and CNPJ, redaction and keys,
   each against a reference definition over bounded inputs. They keep no state and the
   unit tests cover them by value.

Hazards that no property covers, and why, are listed with their lines in `PROJECT.json`:
a reset whose link is consumed before the password is set (a failure in between needs a
new link: the documented order), the placeholder identity of created users (a template's
stub, and the index is in `Conflicts`), and the columns that a worker or a PATCH writes
back from an old row of a sample.

Left out for good: the counters of rate limiting, Swagger, logging, image processing, schema
migrations, compose files and pipelines, redaction and bodies of audit records, deletion of
objects (no caller), and the internals of SuperTokens, BullMQ and PostgreSQL beyond what
the code relies on. The native sign-up of SuperTokens is not part of `UserAccounts`.
