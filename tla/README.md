# doc-manager: TLA+ models, checks and proofs

doc-manager is a document portal for law firms. The portal (Next.js, PostgreSQL,
MinIO) runs in one place; the documents stay on each firm's file server, where
a *connector* (Go) fetches its work from the portal by long polling. A download
therefore crosses a browser, three portal routes, a job table, a polling
connector, an SMB share and an object store, none of which is in a transaction
with another. This directory models that machinery in TLA+, checks it with TLC
and proves its safety with TLAPS.

Paths below are relative to the repository's root.

## 1. Inventory

| Component | State | Operations | Modelled in |
|---|---|---|---|
| Job queue (`apps/portal/src/lib/connectorJobs.ts`, `schema/connector_jobs.ts`) | `connector_jobs` rows: status, connector, `created_at`, result | `enqueueJob`, `leaseNextJob`, `completeJob` | `JobDelivery`, its promise in `JobQueue` |
| Poll, result and stage routes (`apps/portal/src/app/api/...`) | the progress of each running request | authenticate, lease or sleep, answer; accept a report; resolve a connector and insert a job | `JobDelivery`, `StageDownload` |
| Connector run loop (`cmd/connector/main.go`, `portal_client.go`, `internal/svc`) | place in the loop, job in hand, cancelled context | poll, back off, dispatch, report, stop, exit | `JobDelivery` |
| Connectors table (`connectors.ts`, `connectorAuth.ts`, `enroll-connector.ts`) | enrolled, revoked, `enrolled_at` | enrol, revoke, newest active one, authenticate | `JobDelivery` |
| `stage_download` handler and relay client (`main.go:186`, `internal/relay`) | content key, ciphertext, blob key, PUT under way | read, seal, presign, upload | `StageDownload` |
| Download button (`DownloadButton.tsx`) and jobs route | state, job id, attempts, result; the age of the URL in it | click, stage, poll, sign a GET URL, give up, save | `StageDownload`, `RelayedDownload`, their promise in `RemoteRead` |
| Relay (MinIO, `lib/relay.ts`, `relay-cleanup` in `docker-compose.prod.yml`) | objects and their ages, signed URLs, the loop's sleep | presign, PUT, sweep, restart | `Relay` (time), `StageDownload` (contents), `RelayedDownload` (both) |
| `receive_upload` handler (`main.go:226`, `io.go`) | temporary file, result | fetch, create, write, rename, clean up | `FileServer`, its promise in `AtomicReplace` |
| `scan_reconcile` handler (`main.go:255`, `internal/scan`) | walk, manifest, warnings | list, stat, hash, skip | `FileServer`, `BulkImport` (top-level) |
| Bulk import of matters (`packages/db/src/bulk-import-matters.ts`) | manifest, counters, `matters` rows | import one folder, finish, abort | `BulkImport`, its promise in `MatterRegister` |
| Sign-in and sessions (`lib/auth.ts`, `lib/session.ts`) | users, SSO domains, token | `signIn`, `jwt`, `session` | `TenantScope` |
| Tenant registration (`admin/tenants/page.tsx`) | tenants, SSO domains | `createTenant` | `TenantScope` |
| Tenant isolation (`client.ts`, `0001_rls_policies.sql`) | settings of each transaction, ethical walls | `withTenant`, policies, the queries of a matter's page | `TenantScope`, its promise in `FirmAccess` |
| Deployment (`infra/deploy/update.sh`, `migrate.ts`, `Dockerfile`, compose) | checkout, migrations table, image tag, container, place in the script | pull, migrate, build, replace, check, fail, reboot | `Deployment` |
| Audit triggers, search trigger, pages, schema and seed, provisioning | - | - | not modelled (section 8) |

How they interact:

    browser tab --stage--> portal --INSERT--> connector_jobs <--SELECT/UPDATE-- poll handler
        |                                          ^                                 |
        | poll /api/jobs                           | completeJob                     | answer (long poll)
        v                                          |                                 v
      portal <-------------------------------- result route <---POST--- connector run loop
        |                                                                     |
        | presigned GET                                    presigned PUT/GET  |  SMB
        v                                                                     v
      relay (MinIO) <----------------------------------------------------- file server <-- Explorer
        ^                                                                     |
        '-- relay-cleanup, every 10 minutes          scan manifest --> bulk-import-matters --> matters

What is hard here, and what each component must get right:

* **A poll handler outlives its client.** The poll route never looks at
  `request.signal`; for up to 25 s it goes on leasing jobs for a connector that
  has already come back with another poll, or has died. *Job delivery must keep
  a job in one pair of hands, run it at most once, and show its true outcome.*
* **Leases do not expire.** `leased_at` is written and never read. *A leased job
  must be finished or be recognisably stranded, and nothing may bring a job back
  half done.*
* **`completeJob` has no status guard**, and reports are not retried. *A finished
  row must nevertheless be final.*
* **Two clocks of an hour** (URL and object) and a sweep that may fail. *A staged
  document must be readable for its hour and must go in the end.*
* **A browser that gives up while its job goes on**, and clicks again. *It must
  save the document clicked, not an older one, and every click must end.*
* **Users in Explorer** edit what the connector reads, hashes and replaces, and
  the connector may die between any two calls. *A document must never be half
  written; a scan must never hide an edit.*
* **An import that commits row by row**, repeated over old or newer lists. *It
  must come to what one clean run gives, and overwrite nothing.*
* **A deployment of half a dozen commands**, any of which may fail, run by anybody,
  perhaps by two at once, next to the portal it replaces. *What serves must not be ahead of
  its database, and a run that was cut off must not keep a change from being served.*
* **A tenant decided at sign-in, copied into a cookie and enforced in another
  process.** Domains are looked up twice per sign-in, with registrations and other
  sign-ins in between, and a user's row is found or inserted without a constraint
  that keeps it single. *What a session shows must be of its person's firm, and an
  ethical wall must hold.*

`PROJECT.json` lists each hazard with its line and the properties that cover it, or why none does.

## 2. Modules

    JobQueue                 RemoteRead
      ^ implemented by  ^        ^ implemented by
    JobDelivery         '--- StageDownload                 Relay (lifetimes)
      JobDeliveryProofs  uses  StageDownloadProofs           RelayProofs
                                 ^ implemented by              ^ implemented by
                               RelayedDownload ----------------'
                                 RelayedDownloadProofs

    AtomicReplace        MatterRegister        FirmAccess
      ^ implemented by     ^ implemented by      ^ implemented by
    FileServer           BulkImport            TenantScope            Deployment
      FileServerProofs     BulkImportProofs      TenantScopeProofs      DeploymentProofs

The modules of the top row of each group are promises: a page each, of what those who
use the part may rely on, with none of its processes, messages and failures. The
module below defines the refinement mapping (`INSTANCE ... WITH`) and names the promise
`Implements...`, which a run checks on a small instance and a theorem proves of all.

`MC<Module>` gives a module its small constants; `Relay` needs none. Operators
whose comment begins "Mutant" are not used by any action: each is a plausible
mistake in the operator below it, substituted for it to see that a property
would notice.

### JobQueue

The at-most-once queue as the rest of the system sees it: a job is submitted,
taken at most once, run at most once by whoever took it, and what is recorded
is the outcome of that run. No liveness is promised.

### RemoteRead, AtomicReplace, MatterRegister, FirmAccess

| Promise | Of whom | In short | Mapping |
|---|---|---|---|
| `RemoteRead` | `StageDownload` | a click ends with a read of the document clicked, as it was at some moment between the click and the save, or with an error; what is saved never changes in between | the button works unless it is `idle`; staging, jobs, blobs and keys are stutters |
| `AtomicReplace` | `FileServer` | a job replaces its document by a complete new file in one step, once at most and not after its answer; `ok` is answered only after that step | the step is told from a save in Explorer by `placedAs`, the revision a job made, which no save changes; a path that holds a part of a file maps to something `AtomicReplace` never puts there; the temporary file is not seen |
| `MatterRegister` | `BulkImport` | a number is entered once, for the first folder with it in some list, with a lawyer of the folder's initials, and is not rewritten | the runs of the script are not seen: however many, they come to one register |
| `FirmAccess` | `TenantScope` | an account is opened with the firm its person's domain is registered for, if the firm accepts the person's directory or one of the two names none, and a session follows or not; a session is of one's own account; only a platform administrator asks for a firm to be registered, and a firm has one domain; documents shown are of the account's firm and not walled off from it *when they are shown* | a row of `users` is an account, a session its token's user, a page its request; the two lookups, the SELECT, who has been admitted and not answered, and what a request copied of the session are not seen |

An upload that fails, or whose connector dies, may have replaced the document all the
same: `AtomicReplace!Answer` lets it say `failed` after `Replace`, as it does when the
answer of the rename is lost (`RenameUnanswered`). That is as much as `writeFileAtomic`
can promise over SMB. In the same way a sign-in may open an account and come to no
session: the INSERT is committed before the answer with the cookie is sent.

### JobDelivery

One tenant. Jobs have the row states of the enum plus what comes before a row:
`resolved` and `inserting` are a stage request between its transactions,
`dropped` one that a restart cut off.

| Model | Code |
|---|---|
| `Resolve`, `InsertBegin`, `InsertCommit` | stage route: `resolveConnectorForTenant`, then `enqueueJob`'s transaction. `created_at` is `now()`, the *start* of the transaction, hence `older`; a row can appear after a younger one. |
| `StartPoll`, `PollRefused` | poll request and its one `authenticateConnector` |
| `LeaseSelect`, `LeaseCommit`, `LeaseNone` | `leaseNextJob`: `SELECT ... ORDER BY created_at LIMIT 1 FOR UPDATE SKIP LOCKED`, then the UPDATE; the row lock is the handler's place `locked` with `picked` |
| `Wake`, `Deadline` | the 1 s sleep and the 25 s deadline, in either order |
| `AnswerReceived`, `AnswerUnread` | the response reaches a connector that still waits for *this* handler, or nobody |
| `PollFails`, `Backoff` | `pollNextJob` returns an error, `sleep(ctx, 5s)` |
| `Dispatch`, `ReportReturns` | `dispatch()`, then one `reportResult()` on the same context; `client.Do` sends nothing on a cancelled one |
| `ReportArrives`, `Accepted` | result route: 401 for a revoked connector, 400 for a failure without a job id (`main.go:158`), else `completeJob`'s UPDATE by id and connector |
| `Stop`, `Exit` | context cancelled; the loop ends, or the service leaves 30 s into a job |
| `Crash`, `PollBreaks`, `LoseReport`, `PortalRestart`, `Revoke` | what may go wrong, chosen per instance by the constant `Disturbances` |
| `Enroll`, `Start` | the enrolment script, an operator or service manager starting the process |

The outcome of a job is what `dispatch` returns; the handlers themselves are in
the other modules. A report's HTTP answer is not modelled: the connector only
logs it. `seen` and `ran` are history variables.

### StageDownload

A click's whole way. Jobs move by the actions of `JobQueue` (`INSTANCE`), which
`JobDelivery` implements, so that this module has the queue's promise and not
its mechanism. Each job has a handler (`Seal`, `RequestPut`, `SendPut`,
`Succeed`, `Fail`) whose PUT is a message of its own (`PutLands`, `PutLost`): it may land
after the handler has given up. Each tab has the button's `handleClick`:
`Click`, `Stage` (or `StageUnheard`, `StageFails`), `PollAgain`,
`PollSucceeded`, `PollFails`, `GiveUp`, `Save`, `SaveFails`. `Edit` is somebody saving
the document in Word. `Expire` may take any stored objects at any time, which is
more than `Relay` allows, so what is shown here does not rest on timing; what does
is in `RelayedDownload`.

A ciphertext is a record of a document, a version and a content key, and opens
with that key only; `NewContentKey` and `newBlobKey` return values never
returned before. `since` and `saved` are history variables; `RemoteRead`
has them, too.

### Relay

Discrete time. `slept` is how long the cleanup loop has slept; at `Period` a
sweep (or a failing one) comes before the next tick, and a restarted container
begins with a sweep. `age` and `urlAge` are counted from the PUT and from the
signature: they are different clocks. `missed` counts failed sweeps in a row. Ages
count up to `MaxAge`, as long as the age still says something: of an unused URL and
of a stored object.

### RelayedDownload

`StageDownload` on `Relay`'s clock. The relay's URLs and objects are not variables
of their own but what the download's variables say they are (`Store == INSTANCE Relay
WITH ...`), so every step is a step or a stutter of both modules:

| Model | Code |
|---|---|
| `SignPut` = `RequestPut` and `Relay!PresignPut` | put-url route, `newBlobKey()`, `presignPut()` |
| `Upload` = `PutLands` and `Relay!Put` | MinIO takes the connector's PUT while its URL is valid |
| `Sweep` = `Expire(Relay!Expired)` and `Relay!Sweep` | one round of the cleanup loop; it may find nothing |
| `CleanupFails`, `CleanupRestarts`, `Tick` | `Relay`'s own; a tick also ages the tabs' clocks |
| `SignGet` = `PollSucceeded` | the jobs route signs a GET URL for the blob the row names, there or not |
| `Fetch` = `Save`, while the URL is valid | the button's `fetch`, decrypt and save |
| every other action of `StageDownload` | with the clocks unchanged |

`waited` (ticks since the click) is a history variable, `linkAge` the age of the URL
a tab holds. Time passes whenever it likes: a request may take any number of ticks,
so `PromptFetchSucceeds` says what a tab may rely on *if* it comes within TTL of its
click, which the button's 60 polls of a second do unless the page is suspended.

### FileServer

A matter's folder, `handleReceiveUpload` with `writeFileAtomic`, and the walk of
`internal/scan`. Contents are told apart by a revision. The rename happens on the file
server (`Rename`), and its answer arrives after it (`Succeed`) or not
(`RenameUnanswered`); the connector may die in between. Any step before may fail
(`UploadFails`, also a blob already swept), and the removal of the temporary
file may fail with it. `placedAs`, the revision a job put in place, is a history variable. `Info` may describe the file as it was when the directory was
listed or as it is now, which differs between Windows and Linux. A scan returns
`Ok` whatever it was warned of (`EndScan`), as the code does.

### BulkImport

The script's loop over a job's manifest. Folders are numbers in the order
`os.ReadDir` gives; `NumberOf` and `InitialsOf` are what the pattern of
`bulk-import-matters.ts:33` finds in a name; `HoldersOf` are the users whose
initials agree but for case, of whom the script's `Map` keeps an arbitrary one.
Runs may be aborted, repeated and overlap; scans may be older than the folders.
An empty manifest is `{}` and is the same as none (`omitempty`, `jobs.go:86`).

### TenantScope

Several tenants, and who sees what. The other modules are of one tenant; this one
is about the lookup that precedes them.

| Model | Code |
|---|---|
| `Match`, `SameDirectory`, `Admit` | `findTenantForEmail` and the `signIn` callback, `auth.ts:42-93` |
| `Scope`, `FindUser`, `FindNoUser`, `InsertUser` | the `jwt` callback: the second lookup, `withTenant`, SELECT, INSERT and COMMIT, `auth.ts:97-127` |
| `Issue`, `SignInUnheard` | the row is copied into the token and the answer with the cookie reaches the browser, `auth.ts:129-142`; or it reaches nobody, or the portal restarts before: the row stays |
| `SignInFails` | the database fails or the portal restarts before the COMMIT, which rolls back. A closed page does not: nothing tells the callback |
| `SubmitTenant`; `CreateTenant`, `RefuseTenant` | `createTenant` of `admin/tenants/page.tsx`: the check of who asks; later one transaction under two unique constraints, so one step, or its rollback |
| `Open` | `getSession`/`requireSession`: the request has its own copy of the token and goes on after a sign-out |
| `FindMatter`, `ListDocuments` | the two queries of a matter's page |
| `FindDocument` | the join of the stage route |
| `Existing`, `MatterVisible`, `NotDenied` | the policies on `users`, `matters` and `documents`, `0001_rls_policies.sql:58-101` |
| `SignOut`, `Leave` | the end of a session, of a request |
| `Init`, `SetWall` | what operators do by hand: the first firm, registered in an empty database, and a deny row in `matter_access`; nothing in the portal does either |

A person has one email address, always spelled the same, and a provider that names a
directory (Entra) or none (Google, `DirectoryOf[p] = None`). No code removes or
changes a registration, so the second lookup of a sign-in finds what the first
found; the model does not assume that but has it from `CreateTenant` (`SessionIsOwn`
fails without the unique constraint, too). `users` has no unique `(tenant_id,
email)`: overlapping first sign-ins leave a person with several rows.
`OnlyNewcomersInsert` says when there can be more than one, and `WallsHold` what a wall
is worth then: it keeps the account it stands on, and the person only if it stands on
all of theirs. `newcomer` and the request's `by` and `barred` are history variables. A
refused request changes nothing. A browser stands for one sign-in and the session it
comes to: a page closed while its callback goes on, and opened again, is another one.

### Deployment

`update.sh` in several terminals of one VM. A commit is its place on main (`--ff-only`),
a migration is named by the commit that brought it.

| Model | Code |
|---|---|
| `Begin`, `Pull` | a run starts, `git pull --ff-only` (also with nothing new) |
| `Migrate`, `Pending` | `pnpm install`, the database, `pnpm db:migrate`: drizzle's migrator runs, in one transaction, every migration stamped later than the newest row of its table |
| `StartBuild`, `EndBuild`, `Recreate` | `docker compose up -d --build`: the build copies the checkout, tags the image, and the container is replaced by one of whatever the tag then is |
| `Finish` | `/api/health` answers and "Done." is printed |
| `Stops`, `Reboot` | `set -e` at a command that failed, a dropped connection; the VM restarts, docker starts the container there was |
| `Merge` | somebody merges into main |

`pulled`, `alone` and `tainted` are history variables: what a run's pull left, whether
another run has been under way with it, and whether runs have overlapped since one last
ran alone to its end. `pnpm install` and starting the database change nothing the model
tells apart; that they may fail is in `Stops`.

## 3. Runs

| Run | Instance | Distinct states | Shows |
|---|---|---|---|
| `disturbed` | 2 jobs (one undecodable), 1 connector, 2 polls, every disturbance | 54,789 | the inductive invariant, final rows, what may strand a lease and that it stays stranded, `JobQueue` implemented |
| `handover` | 2 jobs, 2 connectors, 2 polls, crashes and revocation | 1,102,525 | a job is in one pair of hands, also with two connectors; a revoked one that is done with its poll polls no more, and what is queued for it goes to nobody |
| `calm` | 3 jobs, 1 connector, 2 polls, nothing disturbed | 20,573 | leased jobs are held, order is kept, polls do not overlap, every queued job is finished |
| `lossy_progress` | 2 jobs (one undecodable), 1 connector, 2 polls, losses | 17,637 | a queued job is leased in the end; a leased one is finished or stranded |
| `stop_loses_result` | 2 jobs, 1 connector, 1 poll, stops | violated | the finding of section 6 |
| `relay_cleanup` | 2 blobs, TTL 3, period 2, URL lifetime 3 | 44,568 | readable for TTL, bounded overstay, bounded residency from the presigning on, every object goes |
| `download` | 2 jobs, 2 documents, 2 tabs, 2 blob keys, 2 content keys, 1 poll, 1 edit | 918,753 | a succeeded row opens its blob; `RemoteRead` implemented |
| `relayed` | 2 jobs, 1 document, 1 tab, 1 poll, TTL 2, period 1, URL lifetime 2, one failed sweep in a row counted, 1 late edit | 463,102 | the invariants of both modules together; a fetch within TTL of its click succeeds; every click ends |
| `folder` | 2 documents, 2 uploads, 2 saves, any number of scans and crashes | 2,637,591 | `AtomicReplace` implemented, no edit hidden, a quiet scan is complete |
| `import` | 4 folders (two of one number, one without), 2 users of the same initials, 2 scans, 2 runs | 763,680 | `MatterRegister` implemented, completeness, each matter counted once |
| `tenants` | 2 tenants, 2 domains, 2 directories, 3 people (an operator, one from a directory, one through Google), 3 user ids, 1 matter, 2 browsers, one request, or forms for one registration, at a time | 291,957 | sessions are their person's own, a wall keeps the account it is on, only overlapping first sign-ins add rows, `FirmAccess` implemented |
| `deployment` | 2 terminals, 2 changes with a migration each | 21,560 | what serves is not ahead of its database and does not go back, "Done." is true, what is merged is served in the end |

Each property of a passing run is also checked to fail when one definition is
replaced by its mutant (`PROJECT.json`, "mutants"): SKIP LOCKED dropped, a client
timeout below the long poll, a document written in place, an upload's answer not looked
at, Info after Hash, ON CONFLICT DO UPDATE, a policy forgotten, and so on.

**Bounds, and why they are enough.** Custody can go wrong between two handlers
and one job, or two connectors and one job; a second job is what a handler
passes over or leases into a dead socket. Order needs three jobs: one leased,
two waiting. Two tabs with two jobs suffice for a tab to get another's blob or
an earlier one of its own; a run with one poll reaches both "answered at once"
and "gave up". In `relayed` one tab clicks again after giving up, so that its first job
uploads late, and TTL 2 with period 1 lets a blob expire before, between and after the
sign of a URL and its use. The relay's numbers keep
the proportions that matter, URL lifetime equal to TTL and period smaller, and
`MaxMissed` lets three sweeps fail in a row. Two uploads to one document let one fail
while another succeeds; two saves let a document change between list, stat
and hash. In the import, two folders of a number decide who wins and a second
scan may lack the first of them. Two browsers let two sign-ins of one person
overlap and a third, later one shows what they left; an operator of one firm and
two people of another, one from a directory and one through Google, let a sign-in pass
or fail by its domain and by its directory, registered or not. Two changes let one pull bring two migrations, and
let another pull come between a run's migration and its build. Nothing in the rules counts beyond these, and
the safety properties are proved without the bounds (section 5). Symmetry is
used only in runs without liveness properties, for sets the rules do not tell
apart; in `disturbed` the jobs are not symmetric, since one is undecodable. `relayed`
has one, and instead of `SYMMETRY` a constraint (`KeysInOrder`) that keeps, of the
behaviours that differ by a renaming of jobs and keys, the one that uses them in order;
a second one, `EditedLate`, bounds when the document is edited (any moment in `download`). In
`tenants` users and browsers are interchangeable; its constraint `FewAtOnce` keeps
either one request or forms for one and the same registration (each browser may have
it) under way at a time, next to any sign-ins: a request changes no table and reads no
registration, no property is about two requests, and of two forms it matters only
whether they collide.

`Import` may stop, when both runs of the script have ended and nobody makes folders;
its cfg says `CHECK_DEADLOCK FALSE`. Every other run is checked for deadlock.

## 4. Fairness

* `JobDelivery!FairSpec`: weak fairness of a begun insertion, of each running
  handler, of each connector process and of a report under way. The handler's
  loop has a deadline, a process that runs is scheduled, and the loop of
  `main.go:83` has no path that waits without a timeout, with one exception:
  `dispatch` is taken to return, which for the presign and relay calls means
  that they end, although `http.DefaultClient` has no timeout. Nothing is assumed
  of users, operators, or any disturbance.
* `JobDelivery!RecoveringSpec` adds strong fairness of starting a poll and of
  the two halves of a lease: the network and the database fail now and then,
  not every single time.
* `StageDownload!FairSpec`: weak fairness of the tab's steps only (its timer
  fires, its requests settle). Nothing is assumed of the portal's jobs, the
  connector or the relay: `EveryClickEnds` is about the button alone.
  `RelayedDownload!TimedFairSpec` is the same: not even time is made to pass.
* `Relay!FairSpec`: time passes although containers restart (strong fairness of
  `Tick`), a due sweep is tried, and not every sweep fails for ever.
* `Deployment!FairSpec`: somebody always runs the script again (weak fairness of starting
  a run), a started run goes on or stops, and no command fails every time it is tried
  (strong fairness of each). The first matters because a run that was cut off leaves
  work for the next one, which may find nothing to pull: the people who deploy repeat
  a run that failed, as `infra/deploy/README.md` tells them to.
* `FileServer`, `BulkImport` and `TenantScope` have safety properties only.

## 5. Proofs

All theorems are for every value of the constants, under the named assumptions
of the modules (which say that sets of names do not overlap, that bounds are
natural numbers, and that the relay's times are positive).

**JobDeliveryProofs.** `Inv` is inductive. `SingleCustody` alone is not: to keep a
job in one pair of hands across a handover one must know that a row lock is held
by one handler on a pending row (`LockInv`), that whoever answers, handles or
reports a job holds the only claim on a leased row of its own connector
(`ReplyInv`, `HeldInv`, `ReportInv`), that the row has a connector and agrees with
what has run (`RowInv`), and that a connector waits only for a handler of its own
(`WaitInv`). The step proof has a lemma per action. From `Inv` follow custody, at-most-once,
truthfulness, finality (a report can only find a leased row, so the missing
guard of `completeJob` is harmless), the permanence of stranding, what revocation
means, and that each step is a step or a stutter of `JobQueue` (`Refinement`).

`StrandingHasCause` (`WhyStranded`) says what may strand a lease, step by step, with
any number of connectors, of which the run has one: the job's own connector goes down
with it or hands it back under a cancelled context; it does not wait for the answer that
carries the job; or the report is lost or refused. No other connector, poll, job or
operator can. It needs that an answer stays what it is until it is given up (`ReplyStays`)
and that a connector lets go of a job only into a report, or by going down (`HeldEnds`).
The finding of section 6 is the second half of the first cause.

`Revocation` (`RevocationTakesHold`) is about a connector that is revoked and about its
queue. A job whose connector was resolved in one transaction and revoked before the other
has inserted it is queued all the same; with no poll of that connector under way it is
never leased, by whomever (`Abandoned`), and only a restart before the INSERT commits
spares the user the wait. It needs that a lease is only taken by a handler of the
job's own connector (`LeasedByItsOwn`) and that nobody begins a poll for a revoked one
(`RevokedStays`).

`StrandingWhenSteady` takes away the first two causes and half of the third: with
`Disturbances` at most `{"revoke"}` (`Steady`: messages arrive, processes keep running) a
stranded lease belongs to a revoked connector, or is of a job the connector cannot
decode (`OnlyRefusalsStrand`). This is the least the absence of a lease timeout costs: no
network and no host can be good enough to avoid it. `SteadyInv` adds to `Inv` that
handlers and waiting connectors come in pairs (`PairInv`) and that who is in use is
enrolled and not stopping (`KnownInv`); by the pairing, a lease finds its connector
waiting. From the same invariant, `OnePollWhenSteady`: polls of one connector overlap only
if a poll is broken off, a process stops or the portal restarts; revoking, or a job that
does not decode, is not enough.

The last part is about calm instances. With `Disturbances = {}` and no undecodable job,
`CalmInv` adds that nobody is revoked and that what was committed before a job was
stamped has left the queue when that job is taken. Under it no lease is stranded at all
and order is kept. Together with the finding this says exactly what each depends on.

**StageDownloadProofs.** `Inv`: where a handler is says what it has in hand; blob
keys and content keys are each job's own; what lies in the relay is some job's
upload; a row holds what its job uploaded; a tab's job reads the document after
the click. Hence `RowOpensItsBlob` and `SavedIsCurrent`.

`Reads`: every step is a click, an edit, a save, an error or nothing to `RemoteRead`. The
step that matters is `Save`: what the key in the row opens must be one version of the
document clicked, between the one at the click and the one now. The lower bound is
`TabInv`; the upper one made it necessary to add to `HandlerInv` that what a handler
sealed is no newer than the file, which had been true of what it read and was not said of
what it keeps until its upload lands (`FetchedIsRead`).

**RelayProofs.** `AgeInv`: an object is older than TTL by less than the loop has slept
since its last good sweep, and younger than its URL by less than the URL's lifetime.
Hence `ReadableForTTL`, `OverstayIsBounded` and `ResidencyIsBounded`, for any TTL,
period and URL lifetime (`AgesBoundStay` has the arithmetic).

**RelayedDownloadProofs.** Every step maps to one of `StageDownload` and to one of `Relay`
(`ImplementsStageDownload`, `ImplementsRelay`), so that whatever is proved of either
holds of their composition: the arbitrary expiry of the one is the sweep of the other.
The step lemmas of both modules then give `TimedInv`, to which `SinceClick` adds that
what a tab waits for was stored after its click: no sweep takes it before TTL has
passed since then, hence `PromptFetchSucceeds`. It needs TTL to be no longer than the
URLs' lifetime (`LifetimesAssumption`); `relay.ts:25` and the compose file both say an hour.
What was proved of the parts is inherited: on the clock, too, a click is a read
(`ReadsOnTheClock`), a succeeded row opens its blob (`RowsOpenOnTheClock`), and what a
download stages leaves the relay in time (`StagedLeaves`).

**FileServerProofs.** `Inv`: only a complete temporary file is renamed; a walk knows
no revision that is yet to come; a document untouched since the listing is
ahead of the walk, in its hands or recorded as it is.

`Replaces`: the rename is `AtomicReplace!Replace`, and what comes before is not seen. That
it happens once at most and before the answer is in `placedAs`, which only `Replace`
writes: a second rename of a job, or one after it has answered, would be a step of
neither `Replace` nor `Save`. `UploadInv` therefore says that a job in hand has not been
answered, and has put something in place exactly from its rename on
(`step = "placed" <=> placedAs[u] > 0`). That no document is half written and that a
successful upload was placed (`Atomicity`, `Placement`) are theorems of their own.

**BulkImportProofs.** `Inv`: what a run has passed lies before what it has not, has a
matter if it has a number, and is counted once; a matter is the first folder with
its number in some scan. Hence `FirstFolderWins`, `DoneIsComplete` and `CreatedOnce`, and
`NeverOverwritten`, which no run checks.

`Registers`: an INSERT of a run is an entry of the register or, on a conflict, nothing. The
order of `os.ReadDir` and `RunInv` make the folder in hand the first of its number in the
run's scan (`NextIsFirst`) if the number is still free: had there been an earlier folder of
it, the run would have passed it and left a matter.

**TenantScopeProofs.** `Inv`: a sign-in beyond the callback is of somebody admitted,
its scope is what the domain is registered for, and the row it was handed is that
person's in that scope; a row is in the tenant of its
person's domain; who had a row when the sign-in began has one still, where the
SELECT finds it; a request runs with a tenant and a user of the person who made it,
and with none walled off once documents are shown. Hence `SessionIsOwn`,
`ShownIsOwn`, `WallsHold` and `OnlyNewcomersInsert`, for any people, directories and
order of registrations.

`Accesses`: the INSERT opens an account and `Issue` begins a session (`SignInStepMaps`),
two steps of `FirmAccess` with a failure possible in between. By then
the callback that compared the directory and the lookup that chose the tenant are
in the past, and so is the SELECT that found nothing; that they would find the same now
follows from registrations and rows being only ever added (`TablesGrow`, `ReadsStand`),
not from any transaction around them. A registration is asked for in one step and made or
refused in another, perhaps after whoever asked has left. A page is shown in one step, the
last query; the tenant and the user it runs with were copied from a token, perhaps of a
session that has ended, and are the person's own still (`RequestInv`, `RowInv`).

**DeploymentProofs.** `DeployInv`: the migrations table has no gaps, so that "later than the
newest row" is the same as "missing" (`PendingIsMissing`, under `JournalAssumption`); a run
on its own finds checkout, table, image and container as its last command left them;
without an overlap runs are on their own. Hence `CodeHasItsSchema` and `DoneIsDeployed`.

`Forward` (`NoRollback`): without overlaps no step serves an older commit than before. What
serves is never newer than the checkout (`OrderInv`), and the image of a run that had the VM
to itself is of the checkout (`AloneInv`). `OneTerminal` drops the condition: with a
single terminal nothing ever overlaps, and the portal always has its migrations and never
goes back.

**Proved, and checked by no run of its own:** `TruthfulStatus`, `NeverRunTwice`, `SavedIsCurrent`,
`NeverHalfWritten`, `SuccessWasPlaced`, `FirstFolderWins`, `NeverOverwritten` and
`ShownIsOwn`, for the refinements that runs check say as much or more; `OneTerminal`; and
`OnlyRefusalsStrand`, whose instance lies between those of `calm` and `disturbed`.
The invariants they were found with are checked in every case (`Inv`, `TimedInv`,
`DeployInv`, except in `download`, where the parts of `Inv` are checked by `relayed`).

**Model-checked only:** the liveness properties (`JobsFinish`, `JobsAreLeased`,
`LeaseSettles`, `EveryClickEnds`, `StagedGoes`, `NothingStaysBehind`), since the proof
system does not reach liveness under fairness.

## 6. Findings

*A stop loses the result of the job in hand* (`stop_loses_result`). `main.go:104`
reports with the context the stop has cancelled; the POST is never sent and the
row stays leased for ever. `internal/jobs/jobs.go:72` promises a report "for
every job, success or failure".

Differences met while modelling, without a run of their own:

* The prior version of a document is gone when an upload reports success: `io.go:52`
  renames over it, and `main.go:223-225` leaves moving it into `.dmsversions` to the
  portal, afterwards.
* `infra/deploy/README.md:23-25` has `update.sh` stop "instead of partially applying an
  update". A run that stops after `pnpm db:migrate` has applied a part: its migrations
  stay, under the portal of the commit before. `NothingStaysBehind` says that this is
  made good by the next run, not that it does not happen.
* The same lines call it safe "for anyone to run". Two runs at once can leave a portal
  that counts on a migration nobody has applied, until one run has the VM to itself:
  `CodeHasItsSchema` fails without its `~tainted`. Also, "Done." is said when *a*
  portal answers `/api/health`, which does not tell which commit it is of.
* `schema/matters.ts:76-77` lets a deny row override access "everywhere in the
  application". The policy on `matters` (`0001_rls_policies.sql:69-70`) does not look at
  it: a wall hides documents, not the matter's number, in the list and on its page.
* `connectorJobs.ts:36-37` calls two overlapping polls something that "shouldn't
  happen with one connector process". One lost response is enough for them: the
  handler does not notice that its client is gone. `OnePollPerConnector` holds in
  `calm` only, and the SKIP LOCKED called cheap insurance is needed (without it
  `SingleCustody` fails).
* Two overlapping first sign-ins give one person two rows in `users`. An operator who puts
  up a wall against one of them has not kept the person from the matter: another sign-in
  may end in the other row (`WallsHold` is about the account, not the person).
* `schema/sso.ts:24-27` has a sign-in match "BOTH the domain and this tenant ID" when a
  firm has registered its Entra directory, and the comment at `auth.ts:83-85` says that
  the `tid` claim "must also match". The comparison below it (`auth.ts:86-87`) is made only
  if the profile has such a claim: one without, as Google's, is let in by its domain alone.
  The model is of the code (`SameDirectory`, `FirmAccess!Vouched`), and `SessionIsOwn`
  and `ImplementsAccess` promise no more than the code does; `tenants` has such a person.
  If the comments are what is meant, all three are wrong in the same place.
* `stage/route.ts:13-17` says that there is no ethical-wall check yet, "anywhere in the
  app", and `matters/[matterId]/page.tsx:6-9` that walls are "deliberately not here yet".
  No route has one; but both query `documents` inside `withTenant` with the session's user,
  where the policy on `documents` (`0001_rls_policies.sql:86-101`) hides what a deny row
  covers. Walls thus do hold on these routes, by the database, for the account they are
  on: this is what `WallsHold` says.
* A job the connector cannot decode is answered with `Failure("")`, which the
  result route refuses (400): the row stays leased. `EveryResultReported` is
  violated that way too.
* `infra/deploy/README.md:281-283` gives a blob's overstay as under 10 minutes; it is 10
  more for every sweep in a row that fails (`OverstayIsBounded`).
* An empty manifest, also that of a root that could not be read, is left out
  of the result (`jobs.go:86`), and the import then reports that the job is not a
  succeeded scan.
* `docs/PLAN.md:107` has the connector delete an uploaded blob; it leaves it to the
  sweep.
* `bulk-import-matters.ts:6-7` speaks of one matter per folder; two folders that begin
  with the same number share one.

## 7. Abstractions

* One tenant, except in `TenantScope`: queries that RLS scopes to it see its rows only.
* Durations are nondeterministic except in `Relay` and `RelayedDownload`: `Wake` and `Deadline`, the
  client's 90 s timeout (only in `PollFails` under "loss"; in a calm instance the
  portal answers within it, after 25 s at most).
* Explorer and Word put complete files in place at once.
* The walk lists the folder once; WalkDir lists directory by directory. What it
  skips (`.dmsversions`) has no name in the model.
* The import is given scans with `topLevelOnly`; the script also accepts any other
  scan and passes over all of its entries. `ScanTopLevel` stands for the whole job.
* The import's INSERT and the counter behind it (`bulk-import-matters.ts:132-145`) are one
  step. A run that dies between the two leaves a matter it has not counted; its counters
  are printed at its end only, so nobody sees the difference.
* A browser is one sign-in and the session it comes to (`TenantScope`); several tabs of one
  session are the sessions of several browsers as far as tables and policies go.
* Revisions, blob keys, content keys and versions stand for contents; AES-GCM
  and SHA-256 are perfect.
* `last_seen_at`, `leased_at`, `completed_at`, logging, SCM status codes and wording
  are left out: no behaviour depends on them.
* Ages stop counting at `MaxAge`, which is at least every lifetime they are compared
  with; `MaxMissed` and `MaxSaves` bound counters.
* A migration is all or nothing, and does what its name says: whether the *old* portal can
  live with a new migration for the minutes until it is replaced depends on the
  migration's text.

## 8. Not modelled

* Roles, deactivated users and the fixed session of a development checkout: nothing
  decides by the first two (a role is handed from the token to the session and no further), and
  the third never runs in production.
* The connection pool: every policed query of the portal runs inside `withTenant`.
* Audit and search triggers: one rule each, no behaviour (nothing writes
  `audit_events` yet).
* The list of matters (the matter page's first query without its WHERE), placeholders,
  seed, provisioning, reverse proxy.
* A presign or relay call that never returns (`http.DefaultClient` has no timeout): it
  stops the connector's only loop, and nothing in the code would ever notice.
* The order in which a file's data and its rename reach the disk after a power
  failure: decided by the server, not by this code.

## 9. Plan

In order of importance; the first nine are done.

1. `JobQueue`, `JobDelivery`: the queue, its promise, refinement, liveness.
2. `StageDownload` over `JobQueue`: the end-to-end download.
3. `Relay`: lifetimes.
4. `FileServer`: uploads and scans.
5. `BulkImport`.
6. `TenantScope`: sign-in, registration, row-level policies and ethical walls.
7. `RelayedDownload`: `StageDownload` composed with `Relay`, implementing both.
8. `Deployment`: `update.sh`, the migrator and the container.
9. A promise for each of the parts (`RemoteRead`, `AtomicReplace`, `MatterRegister`,
   `FirmAccess`), implemented.
10. Compose `StageDownload` with `JobDelivery` itself, as `RelayedDownload` does with
   `Relay`: a handler's steps only while its connector is at the job, cut off by a crash
   of it. Both refinements are proved of the parts; the composition would say that a
   click is a read with all of `JobDelivery`'s disturbances going on.
11. Compose `StageDownload` with `TenantScope`: the jobs route under a session that
   ended or changed while the tab polls; what is saved is of the firm of whoever
   clicked.
12. The same question as `StrandingWhenSteady` for the other disturbances taken one at a
   time: with only a portal restart, say, which leases are stranded.
