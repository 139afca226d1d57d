# Formal specifications of AI Sandbox

TLA+ models of the AI Sandbox backend and of its Android client, the TLC configurations that check them on
small instances, and TLAPS proofs about them. The source paths below are relative
to the repository root; `backend/internal/` is shortened to `…/`.

## 1. The system

A Go API with PostgreSQL stores game projects and runs a conveyor of six AI
agents that writes games; an Android client edits projects offline and
synchronises them. All coordination goes through database rows: there is no
in-process queue and no lock that outlives a transaction.

| Part | State it keeps | Operations | What is hard | What makes it correct |
| --- | --- | --- | --- | --- |
| Generation queue (`…/agents/store.go`, `worker.go`) | `ai_jobs`: status, stage, runner id, lease, cancel flag; `ai_job_steps` | claim, heartbeat, set stage, start/finish step, finish, cancel | expired leases of live workers, dead workers, two runs of one job | one run owns a job; a job ends once; every job ends |
| Agent conveyor (`…/agents/pipeline.go`, `agents.go`, `format.go`) | locals of one run: stage, iteration, verdicts | architect, designer, developer, compiler, tester, reviewer, auditor, publish, save context | each stage treats errors differently; restart after publishing | publishes at most once, success names what was published, cancellation stops it |
| Context memory (`…/agents/store.go` PutContext, ProjectContext, JobContext) | `ai_context_entries` | put (retire and insert), read | overlapping runs | one live entry per kind and project |
| Job admission (`…/platform/httpapi/pipeline.go`, `…/agents/store.go` CreateJob) | `ai_jobs`, requests in flight | create game, improve game | count and insert are separate; lost answers | a key means one job; the limit on active jobs |
| Project store (`…/projects/store.go`, `store_ai.go`) | `projects`, `project_revisions`, `project_commands`, `idempotency_keys`, `ai_generations` | create, change, AI edit, replace, rename, delete, restore, lists | concurrent edits, reads before the transaction, retries | history is a chain; edits build on what their author saw; keys and operations take effect once |
| Documents (`…/projects/commands.go`, `validation.go`, `gameplay.go`, `normalize.go`) | none | apply commands, validate, canonicalise | deletions that leave references | commands keep a valid document valid |
| Game specification (`…/gamespec`) | none | normalise, validate, repair, compile, template | repairs that do not converge | a published level can be finished |
| Accounts (`…/auth`) | `users`, `email_codes`, `access_tokens`, `refresh_tokens`, `auth_rate_limits` | register, codes, login, refresh, reset, logout, purge | rotation and issue are two transactions; two codes at once | a refresh token works once; a code is burned after few guesses; a reset ends every session |
| Model providers (`…/ai`) | the chain of one question | stream, plain retry, fallback model, sanitise, try, repair | one deadline for all attempts; commands nobody looked at | the fallback is asked before a question fails; what is left of an answer applies and keeps to scenery |
| HTTP surface (`…/platform/httpapi`) | none | parse, authenticate, call, map errors | handlers that read before they write | status codes that mean what the contract says |
| Server process (`cmd/api`, `cmd/devseed`, `…/platform/config`) | none | start, shut down, seed | shutdown in the middle of a job | a shutdown looks like a crash to the queue |
| Android synchronisation (`android/app`: `ProjectSync`, `ProjectOutbox`, `LocalProjects`, `SandboxApi`, `CloudSettings`, `MainActivity`) | local document, outbox, keys, known head, conflict flag, undo stack | enqueue, sync, generate, take server, retry on server base, undo | edits while a request is in flight | no local edit is lost or applied twice |
| Android screens (`SandboxScreen`, `ProjectDocuments`) | UI state | edit the document | none of the concurrent kind | local edits and commands describe the same change |
| Runtime bridge and Godot host | current document, playing flag | load, play, stop | none | draws what it is given |
| Python service | none | answers every tick "unavailable" | none yet | executes nothing |
| Contracts (`contracts/`) | none | schemas, fixtures, validator | none | the reference for the sentences in section 7 |

How they interact: a client queues a job (admission inserts an `ai_jobs` row and
wakes a worker), polls it and may cancel it; a worker claims the oldest job, walks
it through the stages, calls the providers between database statements, publishes
through the project store with the key `job:<id>`, files its context and closes
the row. Clients edit projects through the same store; the synchronous AI edit
(`POST …/ai/generations`) reads, asks a provider, then applies operations.

## 2. Modules

| Module | Models | Notes |
| --- | --- | --- |
| `JobLifecycle` | abstract specification: what a client of the queue is promised about a job | queue, take, ask to cancel, land at most once, end exactly once |
| `Conveyor` | `…/agents/store.go`, `worker.go`, `pipeline.go` | one action per statement, provider answer or fault; implements `JobLifecycle` |
| `MCConveyor` | symmetry for TLC | |
| `ConveyorProofs` | theorems about `Conveyor` | |
| `JobAdmission` | `…/platform/httpapi/pipeline.go`, `CreateJob`, `insertJob`, `JobByKey` | count, insert and lookup are separate actions |
| `MCJobAdmission`, `JobAdmissionProofs` | symmetry; theorems | |
| `ProjectLedger` | abstract specification: what the writers of the project store are promised | every request that succeeds in one step |
| `ProjectStore` | `…/projects/store.go`, `store_ai.go` and the reads of their handlers | every write request as a transaction at READ COMMITTED; implements `ProjectLedger` |
| `MCProjectStore`, `ProjectStoreProofs` | symmetry; theorems | |
| `Accounts`, `MCAccounts`, `AccountsProofs` | `…/auth/service.go`, `store.go`, the handlers of `…/platform/httpapi/auth.go` | one account, statement by statement at READ COMMITTED; theorems |
| `DeviceSync`, `MCDeviceSync`, `DeviceSyncProofs` | `android/app`: `MainActivity`, `ProjectSync`, `ProjectOutbox`, `LocalProjects`, `SandboxApi`; the server in one step | one action per file access, request or message of the main thread; theorems |
| `Documents`, `DocumentsProofs` | `…/projects/commands.go`, `validation.go`, `gameplay.go` | operators: commands on a document and its validation; theorems about them |
| `Generator` (extends `Documents`) | `…/ai/sanitize.go`, parts of `provider.go` | operators: what is left of a model's commands |
| `KieChat` | `…/ai/kie.go`, `openai.go` | one question to a model, one action per HTTP request |
| `AIEdit`, `MCAIEdit`, `AIEditProofs` | `generate` in `…/platform/httpapi/api.go`, `provider.go`, `store_ai.go` | composes `Generator` and `KieChat` with the stored document and `ai_generations`; theorems |
| `NumberLemmas` | nothing of the code | least numbers, steps up to a number and recursive functions, for the proofs |

### Conveyor

`row[j]` is the `ai_jobs` row, `run[w]` the job a worker goroutine holds, with its
position (`stage`, `pc`), the repair round, and what it published. `keys` are the
idempotency rows of the project store the conveyor writes, `published` what was
committed. `interruptions` counts the faults spent; `early` is a history variable
for one property, and `ending`, `saw` and `clash` are single fields: how the job
was closed (with a key conflict told apart), whether a run was told of a
cancellation, and whether another run took the step number since the snapshot.

A stage is the sequence `check` (Heartbeat), `mark` (SetStage), `number` and
`append` (StartStep, whose snapshot and insert can be overtaken), `call` (the
provider, FinishStep and the context entry). `AfterError` gathers what each stage
does about an error: the tester, the reviewer and the auditor swallow all of
them, the developer retries once in a lighter form and then falls back on the
template, the others close the job. `Interrupt` is a run that disappears without
touching its row: death of the process, shutdown, the job timeout, the step
timeout of a strict stage, a lost closing write. `LeaseOverrun` is a lease that
expires under a live run.

Abstractions, all named so they can be questioned:

- Prompts, specs and answers are the verdicts that steer the run. A template or a
  repaired spec is assumed to get past the automatic checks, as in the code, which
  does not look at the checks again.
- A runner id is the number of times the job was claimed; random uuids are as
  distinct, and nobody compares them but for equality.
- `ClaimJob` takes the oldest claimable job; the momentary skips of `SKIP LOCKED`
  by a second worker are not modelled.
- The check at the top of the repair loop is merged with the developer's own
  check, which follows it without anything in between.
- `MaxClaims` bounds the type of runner numbers and never a behaviour: every claim
  but the first needs an interruption or an overrun lease, which are counted.

### JobAdmission

`job[j]` is the row as far as admission reads it (active or ended, and the request
it was filed for), `request[c]` and `pc[c]` a connection and its handler, and
`accepted` every 202 with its request. `Send` is a new or repeated request;
`Insert` may commit and lose its answer. `EndJob` stands for the whole conveyor.
The title is left out: no statement compares it.

### ProjectStore

`project[p]` is the projects row, `revision` the committed revisions, `ledger` the
idempotency keys, `tx[c]` a request with its handler's locals. A write goes
through `begin` (the key: wait for its holder, then replay or go on), `select`
(the statement's snapshot), `lock` (the row once it is free, looked at again),
`write` (all writes and the commit). PATCH and the AI edit start with `peek`.

READ COMMITTED is modelled as PostgreSQL implements it: a statement that waited
for a row re-evaluates its condition on the new version of that row and on the
old versions of the rows it had joined. `Found` is therefore false for a request
that joined the project with its head revision before the head moved, although
the project is there (section 7, the fifth item).

A revision carries the operation that led to it instead of a document; an edit has
one operation. All requests are of one owner, because every statement filters by
owner. A project id is created at most once, because ids are uuids of the client;
a second creation fails on the primary key. The rows of `ai_generations` are in
`AIEdit`: here the two checks they serve only refuse requests, and any request may
be refused by `Fail`.

`ProjectLedger` is the store without transactions. A request either changes nothing or
takes effect at one moment, under a key that was never used, on the project in the
state the client named: the head of a change or a generation, the `lock_version` of a
title or a deletion. `AtOnce` in `ProjectStore` is the mapping: the rows of the
projects and the keys as they are, the number of revisions, and the operations found
in the revisions of a project. The commit is the moment (`WriteRevision`,
`WriteStatus`); every other statement is a stutter.

### Accounts

`user` is the account row, `codes` the rows of `email_codes` in the order of their
commits, `session[i]` an access token with its refresh token, `req[c]` a request
with the locals of its handler. A handler is a chain of statements, and other
requests come between any two of them; a transaction is one step only where no
statement in it waits for a row after it took its snapshot. Where one does
(`putCode`, `consumeCode`, `revokeAll`, a replay), what a statement found and what
it then does to the rows still as it found them are two steps, and `rotateRefresh`
holds its row from the first read to its commit (`Locked`). `created_at` of a code
is the start of its transaction and not its commit, so the newest code need not be
the last row (`InsertCode` picks its rank).

Abstractions: passwords and codes are compared and never computed; a code that
expired or whose message was lost is one nobody types; an expired token, a rate
limit, a client that leaves, a failing statement and the death of the process are
one action, `Stop`, possible at every step. `Settings` are the deployments: whether
addresses must be confirmed, with the bounds on stored codes and sessions.

### DeviceSync

`disk` is what the device stores for one project (document, outbox, change key,
and its entry in the index), `ui` the main thread with the undo stack, `queue` the
tasks its executor has not begun, `io` the executor's thread and that of a
destroyed activity, `results` the outcomes posted back, `server` the project on
the server and `late` the requests the device gave up on while the server may
still get them. Main thread and executor share the files without a lock: `Edit`
reads, `Enqueue` writes the outbox, `Save` the document; `drop` is a read (in
`OnGranted`) and a write (`Drop`).

A document is the set of edits in force. `Do(e)` is an operation and `Revert(e)`
its inverse under a new operation id, as `ProjectCommands` builds them. The server
is `Create`, `applyOps` and `generate` as one step each, which `ImplementsLedger` of
`ProjectStore` justifies for what they change. What they answer differs in one case: a
change whose base moved while it waited for the row is told 404 and not 409 (item 5 of
section 7). The device takes any error but a conflict for a failed sync, so that is one
of the ways of `lost`; the request that stays in `late` is stale and changes nothing.

What the server's validation says of an edit is a constant: the edits in `Unfit` are
those the editor lets through and `validateProject` does not (a colour of six digits,
a scale of zero, the deletion of a spawner's template). A request with such an edit is
refused, and so is a first document with one, and more than `MaxBatch` operations
(`Applicable`, `Created`, `Changed`). `server.gone` are the edits whose entity others
removed, or that went with the document when the conveyor replaced it (`Removal`): an
operation on one finds nothing. Like the code's, the editor of the model validates
nothing, and what it queued stays queued.

The faults are called mishaps and are recorded in `seen`:

- `lost`: a request or its answer does not arrive, arrives after the device gave up, or
  is an error that says nothing of the project;
- `restart`: the process dies, or the activity is recreated;
- `foreign`: another device writes, `removed`: it, or the conveyor, removes something;
- `overlap`: the user acts while a task is under way, where the screen lets them;
- `past`: the user undoes what is older than a document taken from the server;
- `unfit`: the user makes an edit of `Unfit`, `long`: a queue outgrows `MaxBatch`;
- `signedout`: the user signs out. One signs in and out in the library, where the undo
  frames are forgotten (`MainActivity.kt:158-159`, `:230-241`).

`Scenarios` says which of them may come together, and `Once` which of them come at
most once: all of them in the run, while the theorems leave it open. `Spare` are edits
made only where a queue may outgrow a request, to bound the others.

### AIEdit, KieChat, Generator, Documents

`at[c]` is a request handler with the locals of `generate` and of
`Generator.Generate`, `chat[c]` the question it has put to a model, `rows` the
`ai_generations` of the project, `doc` and `head` the stored document and the
number of its revision, `ledger` and `spent` the keys and operation ids in use.
`applyOps` is one step (`ApplyAI`), with a second form whose commit is not heard of
because the context ended (`ApplyUnheard`).

A document has real structure here: scenes with rules, entities with parents and
components, and the links between them (a goal or rules to a scene, a spawner to
its template). A component is reduced to what it refers to, or to `Bad` where a
field is missing, unknown or out of range. `ApplyOne` gives the set of documents a
command leads to, empty when it is refused. `Root` follows parents for as many
steps as there are entities, which finds every circle.

Abstractions: a base other than the head is told 409 at once and changes nothing,
so `Get` lets only requests for the head in; the idempotency key of a request is
chosen when its row is inserted, as its own or that of an earlier request; the
active generations of the owner's other projects are any number up to the quota;
the basic scene of three primitives is one entity; a database that fails after the
row was inserted is the end of the context. `kie.ai` streams (no configuration of
`main.go` turns that off).

## 3. Runs

| Run | Bounds | What it shows |
| --- | --- | --- |
| `ConveyorSafety` | 1 job, 2 workers, 1 repair round, 2 faults | safety of the conveyor and the refinement of `JobLifecycle` |
| `ConveyorLiveness` | 2 jobs, 1 worker, 1 repair round, 1 fault | every queued job ends |
| `ConveyorCancel` | 1 job, 1 worker, no fault | expected violation: item 1 of section 7 |
| `ConveyorRestart` | 1 job, 1 worker, 1 fault | expected violation: item 2 |
| `Admission` | 1 owner, 2 connections, 2 keys, 2 prompts, 3 ids, limit 1 | retries agree, the overshoot is bounded |
| `AdmissionLimit` | the code's limit 2, 2 connections | expected violation: item 3 |
| `AdmissionRetry` | the code's limit 2, 1 connection | expected violation: item 4 |
| `Projects` | 2 connections, 1 project, 1 key per endpoint, 1 operation, 5 revisions | safety of the project store and the refinement of `ProjectLedger` |
| `ProjectsConflict` | 2 connections, 2 revisions | expected violation: item 5 |
| `Accounts` | 2 connections, 1 password, 2 guesses per code; 2 codes and 1 session, 1 code and 3 sessions, or no confirmation with one of each | codes, refresh tokens and revocations under interleaved statements |
| `DeviceSync` | 2 edits, 1 unfit, 1 spare, 1 foreign edit, 2 operations per request, each of the mishaps `lost`, `restart`, `past`, `unfit`, `removed`, `long` and `signedout` with `foreign`, and `overlap` | which edits survive, and what it takes to lose, refuse or strand them |
| `AIEdit` | 2 handlers, 2 generations, 1 revision by others, 2 scenes, 4 entities per scene, 4 answers of a model, 2 plain attempts | the AI edit from the request to the stored document |

Why these bounds are enough: two workers and two faults are what it takes for two
runs of one job to overlap and a third claim to follow them; jobs only meet in the
order of claiming, which the liveness run covers with two. In `Admission` a limit
of one with two connections already overshoots by one, and three ids let a fourth
attempt meet a full table. In `Projects` one key and one operation are the worst
case for retries (every repetition collides), and five revisions allow a creation,
edits of each kind and a stale writer behind them. `MaxRevisions` and
`MaxInterruptions` are guards of the model; every other value is a constant.

In `Accounts` two codes need two connections in `putCode` at once, and three
sessions are one exchanged twice, or one issued between the updates of a
revocation; both at once would only multiply states, so `Settings` has them apart.
In `DeviceSync` two edits are one in flight and one behind it, or one undone after
the other; the unfit edit comes before, between or behind them, in the first document
or in the queue, and with two operations per request the third outgrows it (1,399,470
states in all; `Accounts` has 1,577,092). Every mishap a property names was taken out
in turn, and TLC then finds the property violated, so none is named in excess. In `AIEdit` two generations
race each other or follow one another under one key; the answers of the model are
one that cannot be read, one in the wrong place with gameplay, one that takes away
a template and one of which nothing is left but a value out of range, and the
editor's batches hold each command that the model's do not. `MaxGenerations`,
`MaxRevisions` (`AIEdit`), `Settings`, `Scenarios` and `Once` are the bounds in guards.
`CHECK_DEADLOCK FALSE` is set because a queue with every job ended, clients that
stop asking, a blocked account and a user with nothing left to do are legitimate
ends.

Properties, by what they guard against:

- `PublishedOnce`, `SuccessIsPublished`: re-runs and overlapping runs that publish
  twice, or report a project that was not committed.
- `StageShowsOwner`, `OutcomeFinal`: superseded workers that write over the row.
- `EarlyCancelStops`: a cancellation that gets lost between overlapping runs.
- `ImplementsLifecycle`: everything a client can see, at once.
- `EveryJobEnds`: abandoned jobs, a stuck queue, an endless repair loop.
- `RetriesAgree`, `OvershootBounded`: retries and concurrent requests at admission.
- `LinearHistory`, `EditsBuildOnBase`: lost updates and forked history.
- `OneRevisionPerKey`, `EditedOnce`: repeated requests, under old and new keys.
- `ImplementsLedger`: everything the writers of a project can tell, at once: reads that
  are stale when the transaction writes, writers that saw the project before it was
  deleted, two deletions and a restore that overlap, keys filed twice.
- `ExchangedOnce`, `NoRepeatNoReplay`: refresh tokens offered twice at once, and
  sessions ended for a replay that was none.
- `NoOrphanedAccess`: revocations that meet sessions being issued or exchanged.
- `OneGrantPerCode`, `ExhaustedIsBurned`: guesses that wait for a row while it is
  spent, counted or superseded.
- `LiveCodesBounded`: live codes that pile up. Requests for a code that overlap do
  leave more than one of them live, against the comment in the code (item 14 of section
  7), but never more than there are connections, whatever came before.
- `ConfirmedBeforeSession`, `BlockedStays`: decisions on an account as it was read
  earlier.
- `UnsentIsQueued`, `UndoneIsRevoked`, `SyncedShowsServer`: edits that are lost,
  stay on the server although undone, or are not shown.
- `RejectedOnlyAfterMishap`, `ConflictOnlyAfterMishap`, `OutboxDrains`: a queue that
  is refused, that conflicts with itself, or that is never sent. `Refusals` is the
  complete list of what it takes: the queue is also refused, with nothing gone wrong,
  for a value or a length that the device does not check (item 7 of section 7).
- `StoredIsSound`: links that dangle after any sequence of batches. `Sound` is
  stated without the walks and the order of the validation, as a reference for it.
- `TriedApplies`: commands tried on one copy of the document and applied to another.
- `AIKeepsToScenery`: a model's commands that reach past the entry scene's scenery.
- `RowsTellWhatHappened`, `BusyEnds`: rows of `ai_generations` that lie or block.
- `FallbackBeforeFailure`: chains of requests that end before the fallback model.

Fairness is used by three runs. `DeviceSync` has weak fairness of the main thread
(a handler that began ends, and posted outcomes are handled), of the executor
taking the next task and of its thread: each request has a timeout of 8 and 20
seconds, so it is answered or given up. The user, other devices and the thread of
a destroyed activity are not fair. `AIEdit` has weak fairness of each handler (it
is under a deadline of 150 seconds and every request to a provider has a timeout)
and of the ten minutes after which a row no longer counts; it is written out
without `ENABLED`, as the comment in the module says. In `ConveyorLiveness` it is
weak fairness of each worker's steps
(a goroutine that is not interrupted runs on; every wait in it has a timeout; an
idle one polls every three seconds, so a missed wake-up only delays it) and of the
lease of a job nobody runs (time passes). The client and the faults are not fair,
and faults are finitely many: with a provider that is slow for ever the code
re-claims the same job for ever, and no attempt limit stops it.

## 4. What is proved

`ConveyorProofs` proves, for all sets of jobs and workers and all bounds, under
`JobsAssumption`, `RepairsAssumption`, `InterruptionsAssumption` and
`NoneAssumption`:

- `Invariance`: `Spec => []IInv`.
- `TypeCorrect`, `AtMostOnePublication`, `SuccessesArePublished`,
  `StagesShowOwners`: the four invariants of the safety run.
- `OutcomesAreFinal`, `EarlyCancelsStop`: its two action properties.
- `ConveyorImplementsLifecycle`: the refinement.

`PublishedOnce` is not inductive: that a second run cannot append to `published`
depends on the ledger. `LedgerAgrees` says that a job's key is filed exactly when
its publication is, under the hash of what was published; the project in a run or
in a row is then the one in the ledger (`RunsCarryPublished`). `StageShowsOwner`
and `OutcomeFinal` rest on `ClaimsAreUnique` (no two runs hold one claim) and
`OwnersAreRunning` (who holds the claim works on a job that has not ended), and
`EarlyCancelStops` on `EarlyRunsDraft`. Steps that touch neither the row nor the
publications are handled together by `QuietSteps`; the others have a lemma each,
and the refinement has one lemma per visible action.

`JobAdmissionProofs` proves, under `FiniteAssumption` and `LimitAssumption`:
`Invariance`, `TypeCorrect`, `RetriesOfAKeyAgree` and `OvershootIsBounded`. The
bound needs `RoomIsLeft`: the owner's active jobs and the requests that were
counted but not yet inserted stay below the limit plus the number of connections,
since a request passes the count only while there is room, and the connection
that passes was not among those past the count.

`ProjectStoreProofs` proves, for any connections, projects, keys and operations, under
`NoneAssumption`: `Invariance`, `TypeCorrect`, `HistoryIsLinear`, `NoLostUpdate`,
`KeysCommitOnce`, `OperationsApplyOnce` (the invariants of the run),
`StoreImplementsLedger` (its refinement) and `DeletedIsLeftAlone` (an action property
that the ledger has by construction). None of the invariants is inductive: that an edit
builds on its base depends on what the transaction read several statements earlier.
`TxFits` says that what a transaction which is about to write has found (the row's
status and head, that its operation is new, that its key is not filed) is still so;
`AllApart` that no two transactions hold one key or one row, so that nobody else can
have changed it; `RowsFit` and `AllFiled` tie rows and keys to the revisions. Each
statement either keeps all of that (`KeepsHolds`) or commits a revision
(`WriteRevisionHolds`) or a status (`WriteStatusHolds`). That a rename finds its
revision through `lock_version` (`Counted`) takes an argument about cardinalities.

The refinement uses the same invariant. `Named` keeps what the endpoint asks of the
request in the locals of its handler, so that what is filed is what the ledger files;
`Allowed` has the row in the state the request named at the moment of the commit, and
for a rename, which checks its `lock_version` outside the transaction, that follows
from `Counted` and the head (`WriteCommits`). `KeepsStutters` covers every statement
that is not a commit, `WriteApplies` what a commit adds to the operations of a project.

`AccountsProofs` proves, under `AttemptsAssumption` and `ClientsAssumption` (the
connections are finitely many): `Invariance`, `TypeCorrect`,
`AccessEndsWithRefresh`, `ExchangedAtMostOnce`, `CodesGrantOnce`,
`ExhaustedCodesAreBurned`, `SessionsNeedConfirmation`, `LiveCodesAreBounded`, and the
action properties `BlockingLasts` and `ReplaysAreRepeats`. A grant or a guess is
counted only on a code that is live when its row is locked, and `CodeFits` says that
a live one has been granted to nobody and has guesses left. Between spending a
refresh token and issuing its successor a request is in none of the tables:
`RotatingAlone` and `ExchangingAlone` say that one request at most is there per
token, and `ParentsAreSpent` that a token with a successor stays spent.
`ConfirmedBeforeSession` rests on `ActiveIsConfirmed`, which also speaks of the
requests that read the status of the account earlier. `LiveCodesBounded` is not
inductive, since a connection may store code after code: `OverlapsBounded` says that the
live codes from the ith on are no more than the connections that are not about to store
one without having seen the ith. Storing a code takes its connection out of those that
are unaware of it for every i at once, and supersedes what it had seen.

`DocumentsProofs` proves of the operators, under `NamesAssumption` and
`FiniteAssumption`:

- `ValidIsSound`: a valid document is sound. The code walks up from each entity and
  gives up after as many steps as the scene has entities; the proof shows that an
  entity on a circle, or with a parent that is not there, never ends at the root,
  whatever the number of steps.
- `BatchesKeepDocuments`: a batch of commands of any length leaves a document of the
  right shape that passes the checks.

`AIEditProofs` proves, under these, `AttemptsAssumption`, `InitialAssumption` (a
project starts with a valid document) and `InputsAssumption` (what is proposed,
edited and built is decoded: commands and documents have their fields, with any
values): `Invariance`, `TypeCorrect`, `StoredDocumentsAreSound`, `TriedEditsApply`,
`RowsTell`, `FallbackIsAsked` and the action property `AIEditsAreScenery`. `Sees`
relates what a handler was shown to the stored document by their revisions, and has
the commands it is about to apply tried and harmless; `Carries` and `RowsApart` have
the row of a request in work open and nobody else's; `Asks` follows one question
through the attempts. That an AI edit is scenery is shown of each command
(`ApplyOneKeepsGame`) and carried through the batch (`SceneryKeepsGame`), and that
the sanitizer leaves nothing else through `FlattenSeq`.

`DeviceSyncProofs` proves, for any edits, other edits and combinations of mishaps,
whether they come once or again and again, under `DisjointAssumption` (what the user
does and what others do are different edits), `UnfitAssumption` (the unfit ones are the
user's) and `BatchAssumption` (a request may have an operation): `Invariance`, `TypeCorrect`,
`NoConflictWithItself`, `QueuesAreAccepted`, `UndoneIsTakenBack`, `AtRestShowsServer`
and `EditsSurvive`. Only finitely many keys are in use at any time (`KeysAreFew`), so
there is always a new one and `NewKey` is it (`NewKeyIs`). The rest of `IInv` says what
holds as long as certain mishaps have not happened, and it has three regimes, since none
of the sets of mishaps contains another.

- `Calm` (no answer lost, no restart, no edit while a task is under way, no signing out,
  nobody else writes) `=> InOrder`: one task at most is under way, and the head it carries is that
  of the server, or it has none yet and the project is new to the server as well; so
  the change it sends is never behind, and its key never filed. That the head survives
  each step of the executor, from the task through the request and its answer to the
  main thread, has a lemma per action (`StepInOrder`). `HeadIsStored` adds the head in
  the index entry.
- `Steady` (none of the `Refusals` and no signing out; others may add to the document)
  `=> Valid` and `=> InStep`. `Valid` says that nothing was removed and no unfit edit
  made. `QueueFits` says that the queue *leads* from the document of
  the server to the one the user sees: every operation is new to the server, each
  finds its entity as it needs it and is one the server takes, and after the last one the documents agree, as far
  as the user's edits go, or entirely when nobody else wrote. It is not inductive by
  itself: undo restores an outbox that was stored several edits ago, so
  `FramesFit` has every frame that is not past one edit below the next one, with a
  queue that leads to its document as long as the server does not have the edit.
  `AsCreated` and `Underway \/ AtRest` are for the device that does not know the head
  and posts its document: when the project is there already it has the document the
  device posts. While an answer is being stored, what was granted no longer counts as
  queued (`Standing`), and while an edit is, the document is the one it will be
  (`Drawn`).
- `Plain` (no edit while a task is under way, no undo of what is past; everything else
  may happen, in any combination) `=> EditsKept`: what the user did and never undid
  (`Lasting`), and has in the stored document, is on the server or queued. `Kept` says
  so of the files, of the document and the queue an edit is about to store, of every
  undo frame that is not past, since undo brings its files back, and of what a thread
  is about to leave of the queue or has posted (`RunKeeps`), of both threads when an
  activity was recreated while its executor was at work. It needs what holds through
  every mishap: that documents, queues, requests under way and late ones hold only
  what the user did (`OwnEdits`), and that the server still has what lasts of whatever
  it was created with or filed (`ServerKeeps`), so that an operation dropped because
  the server knew its key, or a document posted again, is not lost. A thread drops what
  it sent from the queue as it read it before, and nothing was added since, because
  nobody edits while a task is under way.

That operations are indifferent to the edits of others is `ApplicableAlike`, what one
more operation does is `LeadsMore`, and that only an inverse takes an edit away, from
which `UndoneIsTakenBack` follows, is `TakenBack`; `StepInStep` has a lemma per action.

The functions that are defined recursively (`Root`, `After`, `FlattenSeq`) are within
reach because `NumberLemmas` derives, from the well-foundedness of the naturals, that
a set of numbers has a least one (`LeastNumber`), that what holds of 0 and goes on
from number to number holds up to a bound (`UpTo`), and that a recursive function on
such an interval exists (`Recursion`): statements about sets, which need no operator
parameter.

Proving corrected the models in two places. The alternatives of `ApplyOne` overlapped
(a command on a scene that is not there matched two), which TLC never notices because
it takes the first; they are disjoint now. And `AIEdit` did not say what may be
proposed; `IsCommand` and `InputsAssumption` do. In `DeviceSync` what was a fold or a
filter (`After`, `Unsent`) is a recursive function now, which says the same and can be
reasoned about.

## 5. What is only model-checked

`EveryJobEnds`, `OutboxDrains` and `BusyEnds`: liveness is out of TLAPS's reach. And of
`UnsentIsQueued` of `DeviceSync`, the part in which the user edits while a task is under
way (`overlap`). `EditsSurvive` is the rest: without `overlap` it holds for every value
of `Scenarios`. With it, an edit may be overwritten by an answer that was awaited when
it was made (item 8 of section 7), so the property then speaks only of edits made while
nothing was under way. For these it is checked when `overlap` comes alone and once,
which is what the run has.

Of `RejectedOnlyAfterMishap` and `UndoneIsRevoked` the part in which the user signs out
is only checked: `QueuesAreAccepted` and `UndoneIsTakenBack` have `"signedout" \notin
seen` as a premise. `Steady` leaves signing out aside, because a device that signed out
may hold a queue without a task to send it and not know the head of a project that is on
the server, and both are what `AsCreated`, `HeadsFit` and `Underway \/ AtRest` exclude.
The run has one signing out, with or without another device that writes once.

Every other invariant and action property of a passing run is a theorem.

## 6. What is not modelled, and the plan

Not modelled, though it could be:

- The game specification (`…/gamespec`): validation, repair, the reachability walk
  and the compiler are sequential functions over floating point geometry. What a
  check says is a verdict in `Conveyor`, and what the compiler builds is a document
  that `AIEdit` is given. That `repairReachability` stops after twelve platforms,
  and that nobody checks the repaired level again, is known and not covered.
- Context memory (`PutContext`, `ProjectContext`, `JobContext`): a success or a
  failure in `Conveyor`. Two runs about one project may leave two live entries of a
  kind; both are then shown to the next agent.
- The shape of commands (`validateCommand`, `NormalizeCommand`) and the ranges of
  fields: `Bad` in `Documents` stands for all that fails them.
- Leaving a project for the library and coming back, which forgets the undo frames and
  nothing else, and several projects on one device.
- Others who hang something below an entity of this device: it bars only the deletion of
  the entity, and is not told apart from its removal (`Removal`).
- `purgeExpired`, renaming a profile, `X-Forwarded-For`, the windows of rate limits.

Left out for good: prompts and formatting, SMTP and password hashing, the
compiler's layout of documents, Compose screens, the Godot host, the Python stub,
and PostgreSQL itself, which is assumed to keep its documented contract.

The plan from here: `ProjectLedger` speaks of one operation per edit, `DeviceSync` of a
batch, and of the document it leads to. A ledger with documents would let the server of
`DeviceSync` and `applyOps` of `AIEdit` be instances of it, instead of steps of their
own. After it, the parts of the properties of `DeviceSync` that section 5 leaves to the model
checker, and context memory with its overlapping runs.

## 7. Where the code and its documents disagree

1. `ConveyorCancel`: `contracts/openapi/openapi.yaml:446` says that a cancelled job
   "stops at the next stage". A run told of it at the tester's, the reviewer's or
   the auditor's check carries on and can publish (`…/agents/pipeline.go:368`,
   `:418`, `:450`).
2. `ConveyorRestart`: `backend/README.md:82` says that "a job survives a restart".
   A `create_game` job interrupted between publishing and closing fails on its next
   run, with its game published (`…/agents/pipeline.go:464`).
3. `AdmissionLimit`: `docs/TECHNICAL_SPECIFICATION_RU.md:325` sets two active
   generations per user; concurrent requests get past the count
   (`…/agents/store.go:88-96`).
4. `AdmissionRetry`: `docs/TECHNICAL_SPECIFICATION_RU.md:552` promises the original
   result to a repeated key; at the limit the answer is 429 (`…/agents/store.go:93`).
5. `ProjectsConflict`: `docs/TECHNICAL_SPECIFICATION_RU.md:640` promises 409 to a
   stale base; a request that waited for the row gets 404
   (`…/projects/store.go:192-199`).

These are properties with runs. Met while modelling, visible as behaviours of the
models, and without a run of their own:

6. On the device, a lost answer followed by undo forgets an edit that the server
   has: undo finds the operation still queued, restores the outbox without it and
   keeps the key (`MainActivity.kt:293-294`). `UndoneIsRevoked` excludes `lost` and
   `restart` for it.
7. A queue the server refuses is refused with 422 at every sync, and holds back what is
   behind it; only taking the server's document ends that, which the screen offers in a
   conflict only (`ProjectSync.kt:92-96`). `docs/TECHNICAL_SPECIFICATION_RU.md:648`
   (AC-14) expects the outbox to be sent after the network is back. Nothing has to go
   wrong for it: the editor takes a colour of six digits (`SandboxScreen.kt:298`) where
   the server wants nine characters (`…/projects/validation.go:286-289`), a scale of
   zero, the deletion of an entity that is the template of a spawner
   (`…/projects/gameplay.go:454-459`), and more than a hundred operations before the
   next sync (`…/projects/commands.go:173`). A first document with such a value is never
   created: the 422 is followed by a search that ends in 404
   (`ProjectSync.kt:148-156`). It also happens after a lost answer and a new edit, which
   changes the key, and after others removed what is edited: `retryOnServerBase` takes
   the head without the document (`ProjectSync.kt:118-137`), and the conveyor replaces
   the document whatever its head is (`…/projects/store_ai.go:97`). `Refusals` lists
   the seven ways, and `RejectedOnlyAfterMishap` and `OutboxDrains` say that there is no
   other.
8. `append` on the main thread and `drop` or `clear` on the executor overwrite each
   other's outbox; the answer to an AI edit replaces edits made while it was
   awaited (`ProjectSync.kt:58-59`); `retryOnServerBase` takes over the server's
   head without its document. `docs/TECHNICAL_SPECIFICATION_RU.md:580` rules out
   silent last-write-wins for a scene.
9. `FinishGeneration` runs under the request's context (`…/platform/httpapi/api.go:366`,
   `:383`, `:387`): when that is over the row stays `generating`, and the project is
   busy and counts for the quota until ten minutes have passed. `BusyEnds` says that
   it ends. An edit that was committed while the context ended leaves such a row,
   too, which is why `RowsTellWhatHappened` speaks of handlers that were not cut
   short.
10. A timeout of the HTTP client is taken for the caller's deadline
    (`…/ai/kie.go:88`), so a primary model that answers the plain request too late
    is not followed by the fallback. `backend/README.md:56` has the request repeated
    against the fallback when the primary is unavailable or erroring.
11. An operation id that a model repeats from an earlier edit passes the trial in
    `Generate` and is refused when it is applied (`…/projects/store.go:206-215`).
12. A sign-up that read an unconfirmed account may set its password after the owner
    confirmed the address (`…/auth/service.go:94-100`).
13. A client that repeats a refresh because the answer was lost is taken for a
    replay and loses its sessions, as `backend/README.md:46` says of any replay; a
    session issued while another request's replay revokes the family escapes that
    revocation (`…/auth/service.go:340-348`). `ExchangedOnce` bounds it to one.
14. The comment at `…/auth/store.go:92-93` says that `putCode` leaves only the code of
    the most recent message working. It is two statements at READ COMMITTED: of requests
    that overlap each supersedes what its snapshot shows, and all their codes stay live
    (`LiveCodesBounded` says how many). `consumeCode` looks at the newest by
    `created_at`, the start of the transaction, so the code mailed last may be the one
    that is not looked at, and typing it counts as a wrong guess against the other.
15. A device that edits while it is signed out may conflict with itself. The head a sync
    stored goes to the list only when the task succeeds (`MainActivity.kt:403-434`): an
    AI edit that flushes the queue and then fails leaves the list at the head before,
    and the next change is sent with it. `ConflictOnlyAfterMishap` names `signedout`
    for it.

## 8. Running

    tlc -workers 2 -config ConveyorSafety.cfg MCConveyor.tla
    tlc -workers 2 -config Admission.cfg MCJobAdmission.tla
    tlc -workers 2 -config Projects.cfg MCProjectStore.tla
    tlc -workers 2 -config Accounts.cfg MCAccounts.tla
    tlc -workers 2 -config DeviceSync.cfg MCDeviceSync.tla
    tlc -workers 2 -config AIEdit.cfg MCAIEdit.tla
    tlapm ConveyorProofs.tla
    tlapm JobAdmissionProofs.tla
    tlapm ProjectStoreProofs.tla
    tlapm AccountsProofs.tla
    tlapm NumberLemmas.tla
    tlapm DocumentsProofs.tla
    tlapm AIEditProofs.tla
    tlapm DeviceSyncProofs.tla

`PROJECT.json` lists every run with its properties, the seeded faults that show
each property can fail, the source lines behind each definition, and the hazards
the properties are for.
