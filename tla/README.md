# Game asset management: a TLA+ development

This directory holds TLA+ models of the Game Asset Management System in `src/`,
TLC configurations that check them on small instances, and proofs that TLAPS
checks for every instance. File paths below are relative to
`src/apps/api/src/game_assets_api/` unless they start with `src/`; documents are
those under `src/docs/`.

The models follow a game asset through the program: a **planning
conversation** is queued and worked on, its draft is **confirmed** as a plan
with jobs, a **runner** executes the jobs with paid calls, users and an agent
**decide** about what comes out, people **review** and **release** revisions,
and a release is **delivered** to the checkout of a game.

## 1. Inventory of the system

One server process (FastAPI) serves an HTTP API to a browser workbench. It
keeps its state in SQLite (one writer at a time, one commit per transaction)
and in the files of a project. On its asyncio event loop run the claim loop and
one task per claimed job; endpoints run in a thread pool, and pixel work runs in
worker threads. A second process runs the turns of planning conversations; a
supervisor restarts it. Credentials of providers live in memory only.

| Component | State | Operations | Interacts with |
|---|---|---|---|
| Job runner: claim, lease, recovery (`runner.py`) | lease owner, token and expiry of a job, heartbeat | `_claim_ready_jobs`, `_expire_stale_leases`, `_recover_blocked_dependents`, `_heartbeat`, `recover_interrupted_jobs` | starts a task per claim; reads the attempts to decide about a job whose task is gone |
| Execution of a claim (`runner.py`) | attempts with phase and dispatch state, request hashes, revisions | `_execute_claimed_job`, `_execute_provider_job`, `_mark_dispatch`, `_persist_provider_result`, `_stage_provider_result`, `_complete_job`, `_pause_provider_queue`, `_set_awaiting_user`, `_execute_tool_remediation` | provider client, media worker, QA, plan status |
| Decisions of users (`production.py`, `api.py`) | remediation actions, budget counters, cancel flag | `create_remediation`, `resume_recoverable_jobs`, `cancel_job`, `resume_job`, `unlock_provider`, `lock_provider`, change of the extra-call budget | rows of jobs; run in endpoint threads beside the runner |
| Plan status (`production.py`) | `GenerationPlan.status` | `refresh_plan_status` | called inside the transactions of the three parts above |
| Provider client (`providers.py`) | none | text (with format fallback and repair calls), image, image edit | calls back `_mark_dispatch` before and `_mark_response` after a request |
| Task graph (`services.py`, `runner.py`) | task dependencies of a plan | `validate_plan`, `_task_batches` | gives the jobs their order and their inputs |
| Plan confirmation and editing (`services.py`, `api.py`, `generation_planning.py`) | draft, plan, batches, catalog files | `create_plan`, `confirm_plan`, `confirm_generation_conversation`, `update_generation_draft`, proposals | creates the jobs; registers new assets |
| Review and release (`services.py`) | reviews, approved revisions, releases | `create_revision`, `run_qa`, `create_review`, `_approve_media_revision`, `create_relation`, `create_release` | project storage |
| Delivery to a game checkout (`delivery.py`) | files and lock file of a checkout, receipts | `export_preview`, `apply_export`, `verify_export` | releases, project storage |
| Project storage and lock (`storage.py`) | files of a project, lock registry | atomic writes, `commit_media_approval`, `commit_release`, `scan_full` | everything that writes files |
| Planning queue (`planning_runtime.py`, `cli.py`) | planning attempts, leases, commands | `ensure_attempt`, `recover_turn`, `finish_attempt`, `run_worker` | API and worker share only the rows |
| Generation planning (`generation_planning.py`, `planning_provider.py`) | conversations, drafts, input requests | turns, `steer`, `answer_input`, draft updates | planning queue, plan confirmation |
| Agent sessions, change sets (`agent.py`, `codex_adapter.py`) | sessions, events, change sets | `diagnose_job`, acceptance of a change set | decisions; an external agent process |
| Provider catalog (`provider_catalog.py`) | profiles, models, routes | CRUD, discovery | freezes profiles into jobs |
| Narrative map (`narrative.py`), QA and media worker (`qa.py`, `media_worker.py`), dispatch repair (`dispatch_repair.py`), CLI and server (`cli.py`, `main.py`), acceptance tooling (`m6_acceptance.py`), web interface (`src/apps/web`) | views, pixels, rows of older versions, wiring | | |

What makes the **runner** hard:

- A call costs money and cannot be undone. Between two commits of a call the
  process may die, the lease may run out, the user may cancel, and the next
  executor must decide from the rows alone whether the call may be repeated.
- A lease may run out while its task goes on (a blocked event loop, a laptop
  that slept). Some transactions check the lease token again, some do not.
- A task that meets a rejected key or an exhausted quota takes the jobs of *all*
  tasks of its provider out of the queue, while their calls are on the wire.
- Reads are not protected: SQLite's writer lock is taken at the first flush of a
  transaction. `cancel_job`, `unlock_provider` and the resumptions decide on
  statuses they read earlier, `_complete_job` on a cancel flag, and another
  transaction may have committed in between.
- Limits are counted over rows and over what one pass of the claim loop has
  already granted; call limits are counted over attempts, retries, format
  fallbacks and restarts.
- A user's decision is stored as an action that an executor may find changed,
  may start, and must settle whatever happens to the executor.

What makes the **planning queue** hard: two processes share the rows; the
worker's loop, its commands and the task of a turn interleave; both processes
recover turns, and neither holds a lock between the search for an open attempt
and the insertion of one; a lease may lapse while the task that lost it still
writes; errors and lapsed leases are retried
in two places that count for themselves; a stop, an answer or a recovery may
arrive when the turn has just ended.

What makes **confirmation** hard: a draft has three writers (tabs, agent,
confirmation), each of which works on a copy; the facts of the project are in
rows and in catalog files, which a failing confirmation restores from copies;
the conversation is also in a file that a scan reads back over the row; and
confirmations are repeated when their answer is lost.

What makes **review and release** hard: an operation writes several files and
then its rows, or rows, files and then the commit; the SQLite writer lock is
taken at the first flush and the lock of the project for file transactions
only, so what an operation decided on may be old when it writes; a scan reads
the files without a lock and rewrites the rows.

What makes **delivery** hard: files of a checkout are replaced one by one, the
owner edits the checkout at the same time, restoring may fail too, and the
receipt is written after the backups are gone.

What makes each component correct:

- *claim, lease, recovery*: limits on leases hold; a leased job has an executor
  or gets one; recovery never repeats a call whose delivery is unknown and never
  invents a result; a dependent blocked by its upstream comes back;
- *execution*: one writer of attempts per lease; no request beyond its limit; a
  ready candidate was staged and judged; nothing is sent after a cancel;
- *decisions*: an accepted action is settled and never replaced by another; the
  rounds of a job and, while requests do not overlap, the budget of a plan hold;
- *plan status*: it follows from the jobs after every transaction;
- *planning queue*: one open attempt per turn unless two recoveries overtake each
  other, bounded automatic retries, no restart of a settled turn; queued turns are run and running ones settle;
- *confirmation*: one batch per draft, made on current facts; one job per task;
  catalog files and rows agree; the agent does not undo an edit;
- *review and release*: after a crash and a scan, rows and files allow the same
  releases; what is current was approved; a release fits together;
- *delivery*: all or nothing as the owner sees it, except for a death in the
  middle; what the owner wrote before the check is never touched; what is
  recorded verifies.

## 2. Modules

| Module | Models | Source |
|---|---|---|
| `JobStore` | constants, variables, row types, `Init` (a confirmed plan), helpers: plan status, leases, call counts | `models.py`, `services.py:confirm_plan`, `production.py:refresh_plan_status` |
| `JobClaims` | recovery (`RecoveryTarget`, `Restart`), the claim loop (`Poll`), `Heartbeat`, `ExpireLease` | `runner.py` 100-600 |
| `JobExecution` | the task of one claim, one action per transaction | `runner.py` 600-2075, `providers.py` |
| `JobDecisions` | the API: `Unlock`, `Lock`, `CancelRead`/`CancelWrite`, `Remediate`, `RefuseOverBudget`, `ResumeJob`, `ResumePlan`, and unlocks and resumptions that are overtaken (`UnlockRead`, `ResumeRead`, `ResumePlanRead`, `ResumeWrite`) | `api.py`, `production.py` |
| `JobRunner` | the composition: `Next`, `Spec`, `FairSpec`, its properties; `MCJobRunner` its instances | |
| `JobHistory` | `JobRunner` with a history variable: for each job, what was sent since a user last put it in the queue; `MCJobHistory` its instance | |
| `Remediation` | overlapping decisions of users and of the diagnosing agent on the jobs of one plan, and changes of its budget | `production.py:create_remediation`, `agent.py:diagnose_job`, `api.py` |
| `PlanningStore` | the rows of a planning conversation and the functions that change them in one transaction | `planning_runtime.py`, `generation_planning.py` |
| `PlanningQueue` | the API, the worker's loop, its commands and its task of a turn; `MCPlanningQueue` its instance | `planning_runtime.py`, `generation_planning.py`, `planning_provider.py`, `cli.py` |
| `PlanConfirmation` | edits, drafts of the agent, confirmation with its catalog files and its failures, approval of plans | `generation_planning.py`, `services.py`, `api.py` |
| `MCPlans` | instances of `PlanConfirmation` and of `Remediation`, side by side | |
| `ProjectIndex` | a project as files and as rows, and the scan that rebuilds one from the other | `services.py:_scan_project`, `storage.py:scan_full` |
| `ReviewRelease` | revisions, QA, reviews, relations, releases, scans of several people; `MCReviewRelease` its instance | `services.py`, `storage.py` |
| `CheckoutDelivery` | the abstract checkout: a delivery changes it in one step | `delivery.py`, `release-delivery.md` |
| `Delivery` | `apply_export` file by file, its refinement of `CheckoutDelivery`; `MCDelivery` its instance | `delivery.py` |
| `JobRunnerProofs`, `JobLeaseProofs` | theorems about `JobRunner`: types and calls; leases with their attempts, tasks and limits, cancels, what becomes of actions, plans and candidates | |
| `RemediationProofs`, `PlanningQueueProofs`, `PlanConfirmationProofs`, `ReviewReleaseProofs`, `DeliveryProofs` | theorems about the module each is named for | |
| `ReleaseStateProofs` | theorems about what the rows of `ReviewRelease` say | |

Every module stands for one part and is bound to its neighbours where they meet
in the code: `PlanConfirmation` ends with the rows `JobStore` starts from;
`Remediation` reduces the runner to claims and results; `PlanConfirmation`
reduces the planning queue to a turn that is queued, plans and proposes, and
review to the approval of one asset; `Delivery` starts from releases that
`ReviewRelease` wrote, and lets them be damaged.

### Runner: state and granularity

`job[j]` is a row of GenerationJob: status, `lease` (the lease token, 0 for
none), `live` (the lease has not expired), `cancel` (cancel requested), `dep`
(the error is the one `_recover_blocked_dependents` looks for), `pending`
(pending action), `result` (the attempt whose revision is the candidate) and
`resolved` (the stored request). `attempts[j]` and `actions[j]` are the rows of
GenerationAttempt and RemediationAction in order of their numbers.
`spent[j][r]` is the sum of `dispatch_count` over the attempts with request hash
`r`. `exec[t]` is the local state of the task that works under lease token `t`:
its position between two transactions and the Python locals it carries across
them (the attempt, the calls it believes are left, the last error). `vault` is
the in-memory set of unlocked providers, `cancelling` the status a cancel
request has read, `resuming` what an unlock or a resumption has read and is about
to write.

One action is one database transaction, with every call the transaction makes
(`refresh_plan_status` is part of each action whose code calls it, and absent
where the code does not call it). Code on the event loop may commit twice
without an `await` between: tasks of the loop cannot interleave there, threads
can. Where a transaction decides on what it read before it took the writer lock,
and an endpoint or another process can commit in between, the read and the write
are two actions: a cancel (`CancelRead`, `CancelWrite`); a completion
(`CompleteRead` reads the cancel flag, the pending action and the lease,
`CompleteJob` writes the columns that follow from them, and derives the status of
the plan from the rows as they are at its flush); an unlock or a resumption. The
last has both forms: `Unlock`, `ResumeJob` and `ResumePlan` are requests that
nothing overtakes, `UnlockRead`, `ResumeRead` and `ResumePlanRead` with
`ResumeWrite` those that something does; `MaxOverlaps` bounds them, one at a time,
and those that add an action, or that find nothing to write, occur in the first
form only. The predicate `LoopFree` says that no other task is inside such a section;
actions of endpoint threads and worker threads do not have it as a guard.

The four positions a reader needs first: `claimed` (the task exists),
`invoke` (an attempt is created, nothing is sent), `sent` (the dispatch is
committed, the request may be on the wire), `staged` (the revision exists, hard
QA has judged, the job is not completed).

Abstractions: a request hash is a record `[action, up]`, the action whose
parameters are in it and the upstream revisions injected in it; that is what
makes two requests of one job differ. `current_job_input_hash` is
`[resolved, result]`. A provider answers with a complete response, a response
that is an error of one of four classes, or nothing; `ErrorClasses` selects what
occurs in a run. A hard-QA verdict is a nondeterministic choice made once per
rendition. Evidence files and contact sheets only appear as a step that may
fail.

### Decisions: `Remediation`

`plan` has the budget and the calls used, `jobs[j]` the status, the pending
action, the paid rounds and the number of its candidate, and how many tasks
execute it. `call[c]` is a request between its read of the plan and its write:
`create_remediation` reads the plan, takes the writer lock by updating its job
and refreshes the job, but not the plan (`ReadPlan`, `UserDecides`);
`diagnose_job` keeps the copies of both it read before it waited for the model
(`StartDiagnosis`, `AgentDecides`, `AgentHandsOver`); the budget is changed by
a read and a write (`ReadBudget`, `WriteBudget`). `raced` and `overruled`
remember whether a plan's row was written over and whether a blocking finding
was written over the status of a job at work.

### Planning queue

`db` is the rows of one conversation: the session's status, stop reason and
error, and its turns, attempts and questions in order of creation. `commands`
is the PlanningCommand table, by which the API speaks to the worker. `worker`
is where its loop is (`expire`, `retry`, `claim`, `beat`, `commands`) or `down`
or `failed`, and what a command waits for; `task` is the asyncio task that runs a turn. `stopping` is a
cancel of a queued turn between its read and its write. `recovering` is
`recover_turn` between its search for an open attempt and its insertion, once for
the route of the API (`RequestRecovery`, `Recover`) and once for the retry loop of
the worker (`ReadRetry`, `Retry`); it keeps the columns that differ from
what will be written, because the ORM writes no others. The recovery of a lapsed
lease has the writer lock already (the failed attempt was flushed) and is part of
`Expire`, whose read of the row is taken together with that flush. `stopped`,
`lateStop` (a stop was written when the open attempts of its turn were no longer
those it had read as queued) and `lateRecovery` (a recovery was written when the
conversation had changed since its read) are history, `troubles` is a bound. A
turn that fails stays in the worker's table until its adapter has closed
(`closing`). Each action is one transaction of
`planning_runtime.py` or `generation_planning.py`, or one turn of the
worker's loop between two awaits. `Lapse` lets a lease run out
while its task is there; `Crash` ends the worker, `Start` is what the supervisor
does, with the recovery of the lapsed leases it finds.

### Confirmation

`conv` is the AgentSession row: draft, status, plan, the facts of the context and
proposals; `audit` is its file under `history/agent/sessions`. `turn` is the
agent's turn with the draft it started from and the row it read. A message of
the user is checked against the row and written later (`SendMessage`,
`WriteMessage`); there is one at a time, because its route is a coroutine without
an `await`, while confirmations and edits run in threads beside it. `req[u]` is the request of a tab: the copies
it works on and its position. `writer` holds the writer lock of SQLite. `rows`
and `files` are the facts of the project, assets registered and assets approved,
in the database and in the catalog files. `plans` and `batches` are rows.
A confirmation takes the lock and checks (`StartConfirm`), writes a catalog file
per new asset (`Register`), commits plan, jobs and batch (`CommitConfirm`) and
writes the audit file (`AuditConfirm`); or it rolls back (`FailConfirm`) and puts
the files back (`RestoreFiles`), without the lock. `RestartApi` is the death of
the API and the scan at its start.

### Review and release

`files` is a project on disk: catalog, relations, artifacts, revisions, reviews,
QA records, release manifests and the pointer to the current one. `db` is the
rows. A candidate revision is a number; `-r` is the durable revision the
approval of media candidate `r` makes. `req[p]` is a request: `view`, the rows it
read; `rows`, those it will commit, from its first flush on, when it holds the
SQLite writer lock; `todo`, the files it has still to write; `locked`, that it holds the
lock of the project; `saved`, the files before its own, which a failing file
transaction puts back. A write
of the ORM changes the columns that differ from what was read (`Flush`), which is
why two requests can mix in one row. `Crash` drops every request and its rows;
`StartUp` scans.

### Delivery

`disk` is the checkout, path by path, a lock being the release it names;
`damaged` are releases whose blobs or manifest no longer hash; `req[p]` is a call
of `apply_export` with its backups, the files it saw missing, and what it has
still to write; `deliveries` are receipts and rows. One action is one file
operation; in a restoration each removal and each copy may fail for itself
(`Restore`, `RestoreFails`). A person edits between any two calls, or, with `EditsInFlight`, at any time.
`CheckoutDelivery` is what an owner is promised. The refinement mapping `Seen`
shows the owner the checkout the call started from until the call is recorded or
has nothing left to restore from; deaths and lost receipts map to `Fault`.

## 3. Properties

Runner (`JobRunner`):

| Property | Says |
|---|---|
| `TypeOK` | types; a task at work has a job |
| `CallLimit` | no request is sent more than `max_transport_retries + 1` times, over attempts, retries, format fallbacks, restarts and decisions |
| `HolderOwnsLatest` | while a task holds its lease, the attempt it started is the job's latest: recovery, which judges the latest attempt, judges the right one |
| `LeaseHasTask` | a leased job has a task working on it, unless a cancel, a resumption or a late completion was written over its claim |
| `NotRepeatedUnasked` | (action, `JobHistory`) until a user puts the job in the queue again, whatever is sent twice was answered: no retry, recovery, takeover or restart repeats a call of unknown delivery, whatever the other jobs of the provider do |
| `UnknownNotRepeated` | (action) a request with any attempt of unknown delivery is not sent again: what the documents say, and what the code does not keep (sections 4 and 5) |
| `CandidateComplete` | a ready candidate comes from a completed attempt with a revision and, for an image, a verdict |
| `CancelHolds` | (action) from a cancel to the next decision of a user nothing is sent for the job and it is not claimed; it is made ready only by recovery, with a candidate that was completed before, or by a completion that read its row before the cancel |
| `LeasesWithinLimit`, `ProviderWithinLimit` | leases in force never exceed the limit of the plan, nor, for jobs frozen before runtime policy version 2, that of the provider; 0 counts as 1 |
| `ActionsSettle` | (action) an accepted action stays pending until it is settled; only a completion that saw a cancel, or another action than the one pending by now, drops it |
| `PlanReadyMeansReady` | a plan shown as ready has only ready jobs |
| `LeasedSettles` | (liveness) a claimed job leaves its leased status |
| `BlockedReturns` | (liveness) a dependent blocked by its upstream returns once the upstream stays ready |

Decisions (`Remediation`):

| Property | Says |
|---|---|
| `RoundsWithinLimit` | paid decisions on a job never exceed the plan's rounds; unless a finding of the agent overruled an execution, an action is pending only while its job is queued or runs, in one task |
| `OneDecisionAtATime` | (action) no decision replaces the pending action of another |
| `BudgetKept` | while no two requests overlapped on the plan's row, it counts the paid decisions exactly and they stay within the budget |

Planning queue (`PlanningQueue`):

| Property | Says |
|---|---|
| `TypeOK` | types of the rows and of the worker's memory |
| `AddedAttemptIsAlone` | (action) an attempt that is added is the only open one of its turn, unless it is added by a recovery that another attempt overtook |
| `AutomaticRecoveriesBounded` | over lapsed leases and transient errors together, a turn is recovered automatically at most `AttemptLimit - 1` times |
| `SettledNotRestarted` | (action) only a user starts a completed or cancelled turn again, as long as no stop and no recovery was written over attempts it had not read |
| `RunningSettles` | (liveness) a running conversation comes to rest |
| `QueuedIsClaimed` | (liveness) an attempt does not stay in the queue |

Confirmation (`PlanConfirmation`):

| Property | Says |
|---|---|
| `TypeOK` | types; the request that holds the writer lock confirms; the row is running exactly while the agent has its turn |
| `OneJobPerTask` | each task of a confirmed plan has exactly one job, a plan that is not confirmed has none |
| `CatalogAgrees` | when nothing is under way, catalog files and rows agree, unless a catalog file was written while another confirmation held a copy of the files |
| `ConfirmedOnCurrentFacts` | (action) a batch is made for the conversation's draft and for facts that still hold |
| `RetriesFindTheirBatch` | a repeated confirmation gets the batch of its draft |
| `AgentKeepsEdits` | (action) the agent does not replace a draft that a user edited since its turn began |

Review and release (`ReviewRelease`):

| Property | Says |
|---|---|
| `TypeOK` | types; valid reviews exist |
| `RebuildAgrees` | undisturbed by failed files and overlaps, what the rows let be released a scan lets be released, crashes included; what only the scan lets through is an approval that waited in the files, after a crash, for its relation |
| `CurrentWasApproved` | what is current was approved, also after a crash and a scan |
| `ReleaseConsistent` | whatever overlaps, fails or dies, the assets of a release were approved with the very revisions the release has of the others |
| `NoDeadlock` | the writer lock of SQLite and the lock of the project never wait for each other |
| `PointerHasManifest` | the pointer names a complete manifest at every instant |
| `PublishedIsReleased` | what is marked published is in a release with its current revision |

Delivery (`Delivery`):

| Property | Says |
|---|---|
| `TypeOK` | types; every file about to be written is backed up or known to be new |
| `RecordedVerifies` | what is recorded as delivered verifies |
| `SeenFilesKept` | (action) what a call overwrites or removes of the owner's is never what its second preview found to be the owner's, whatever fails, dies or is edited meanwhile |
| `UnknownFilesKept` | (action) a file of the owner's is never overwritten nor removed: what the documents say, and what the code does not keep (section 5) |
| `AtomicDelivery` | (refinement) calls that do not overlap implement `CheckoutDelivery`: the checkout changes as a whole; only a death or a lost receipt tears it, within the paths of one delivery |

The modules also define statements of the documents that the code does not
keep; see section 5.

## 4. Runs

No run checks for deadlock in TLC's sense: each system stops when its requests
are answered and the bounds on requests and faults are used up. `NoDeadlock`
states the absence of lock cycles explicitly.

| Run | Instance | Shows |
|---|---|---|
| `one_job` | one image job, rejected keys, quotas and network errors, retries and regenerations, 3 claims, one decision, a restart, a cancel and a resumption whose read and write are apart | `TypeOK`, `CancelHolds`: whatever moment a cancel comes at, and whatever overtakes it, nothing more is sent for the job |
| `lease_expiry` | one image job, 3 claims, 2 decisions, one expired lease | `HolderOwnsLatest`, `LeaseHasTask`, `ActionsSettle` with two tasks alive for one job |
| `limits` | three jobs, two plans and two providers crossed, limits 1, frozen under policy version 1, one expired lease | `LeasesWithinLimit`, `ProviderWithinLimit` |
| `chain` | an image job that depends on a text job, rejected keys, network errors, retries, fallbacks, regeneration, 4 claims, a restart | `CandidateComplete`, `PlanReadyMeansReady`, `CallLimit`: a crash between any two commits does not present an unfinished candidate |
| `liveness` | two dependent jobs, an expired lease, fair scheduling | `LeasedSettles`, `BlockedReturns` |
| `history` | two jobs of one provider that run side by side, rejected keys and network errors, an expired lease, a restart | `NotRepeatedUnasked`, also when the key one job finds rejected takes the call of the other off its task |
| `delivery` | three deliveries or rollbacks of two releases that share, drop and add a file, from every initial checkout; one edit between calls, one death, one failing operation, a restoration that fails file by file | `TypeOK`, `RecordedVerifies`, `AtomicDelivery` |
| `edited_checkout` | two deliveries or rollbacks, two edits at any moment, the same faults | `SeenFilesKept` |
| `review_release` | a character and its portrait, two overlapping requests, 2 revisions, 3 reviews, two relations, a release, a scan, one trouble (overlap, failing file or death) | the seven properties of `ReviewRelease` |
| `planning_queue` | two messages, one question, two troubles (stop, recovery or answer of the user, death of the worker), fair scheduling | `TypeOK`, `AutomaticRecoveriesBounded`, `AddedAttemptIsAlone`, `SettledNotRestarted`, `RunningSettles` |
| `queue_liveness` | the same instance | `QueuedIsClaimed`, in a run of its own because of its time |
| `plans` | two tabs, one new and one old task, one turn of the agent, two edits, two plans, one failing confirmation or restart; and two callers, two jobs, three requests, budgets 0 to 2 | the properties of `PlanConfirmation` and `Remediation` |
| `rejected_key`, `unknown_repeated_after_expiry`, `overtaken_unlock`, `edits_overwritten`, `leases_not_taken_over` | a small instance that shows the finding | see section 5 |

### Bounds

Every bound is a constant whose name starts with `Max` (or a set of requests).

- *Runner*: `MaxClaims` bounds leases ever granted (and so tasks): 3 is one more
  than what a job needs to be claimed, lost and claimed again. `MaxActions`
  bounds decisions per job: with 2 a decision can follow the outcome of another.
  `MaxRestarts`, `MaxExpiries`, `MaxCancels`, `MaxLocks` and `MaxOverlaps` are 1 or
  0: one fault at any point, and the run says which. One resumption is overtaken
  at a time; the runs whose property such a write breaks have none (section 5). `MaxTransportRetries` is 1 where retries
  matter, the least value for which the first and the last attempt differ. The
  attempts of a job need no bound of their own: each claim adds at most one per
  permitted call. Jobs are numbers because the claim loop walks them in order of
  creation, so no symmetry is used; plans and providers are model values.
- *Delivery*: three applies let a release be delivered, replaced and rolled back
  to, or a delivery follow one that failed and one that died. Two calls may
  overlap in the code (a checkout has no lock); `AtomicDelivery` is about calls
  that do not, so the run has one request. `delivery` has edits between calls
  (`EditsInFlight` is FALSE), because `RecordedVerifies` and `AtomicDelivery` speak
  of a checkout that GAMS alone writes during a call; `edited_checkout` and
  `edits_overwritten` have edits at any moment.
- *Review and release*: three reviews let an asset be approved, and another or
  the same be approved again or rejected after a candidate; a relation makes
  one approval depend on the other asset, and with two it can be made again after a
  crash, or under the other type. One trouble: the properties are about
  what one fault at any point leads to. Requests are symmetric.
- *Planning queue*: the code retries a turn up to four executions; `AttemptLimit`
  is 2, the least value with one automatic recovery, since the two places that
  recover only compare a count with it; the safety properties are also proved
  for every limit. With 3, one turn and two troubles, a stop that comes too late
  and a crash restart a cancelled turn, which is why `SettledNotRestarted`
  excludes late stops. Two turns let one be not the latest. One recovery of the
  user and one of the worker may be between read and write, which is the least
  that lets two attempts of a turn be open.
- *Plans*: two tabs are enough for every race between two requests. `MaxDrafts`,
  `MaxTurns` are 1: one draft of the agent against two edits. Three decisions let
  two overlap after one has moved the counters; `InitialBudget` and `MaxRounds`
  are 1, so that the limits are reached. Confirmation and decisions share no
  variable, so the run has the behaviours of each and not their product. Tabs are
  symmetric.

### Fairness

`JobRunner!FairSpec` assumes weak fairness of `Poll` and of each task. The event
loop runs the claim loop every poll interval and resumes every task whose await
has completed; every provider call has a timeout and every worker a time limit,
so no await is for ever. Nothing is assumed of users, heartbeats, crashes or
providers answering well.

`PlanningQueue!FairSpec` assumes weak fairness of `Start` (the supervisor in
`cli.py` restarts a dead worker), of the worker's loop and its commands, of the
second halves of a cancel and of a recovery whose first half was done, and of a
task's progress: the
adapter ends its turn because `AppServerCodexAdapter` and `watched_events` have
timeouts, except while the turn waits for the answer of a user, where nothing is
assumed. `RunningSettles` and `QueuedIsClaimed` are stated under two conditions,
each of which the code can break: that the worker is able to start
(`TakesOverLeases`, finding 3), and that no stop and no recovery was overtaken
(`~lateStop`: the API marks an attempt cancelled which the worker took
meanwhile; `~lateRecovery`: a recovery writes the columns it found to differ, over
a conversation that has changed, which may leave it `running` with the stop reason
`cancelled` and nothing to run).

## 5. Findings

Each of these is shown by a run with `expect: violation`; `PROJECT.json` quotes
the text that disagrees with the code.

1. `unknown_repeated_after_expiry`: the task of an expired lease settles the job
   without looking at its lease and clears the pending action of its successor;
   resuming the job then repeats a base request of unknown delivery.
2. `leases_not_taken_over`: a worker that finds a lapsed lease of a turn that is
   not the latest of its conversation dies of the refusal of `recover_turn`; it
   is restarted and dies again, and no turn of any conversation is run. The
   attempt gets there because `finish_attempt` returns early, or because the
   worker died, when the user had already sent the next message.
3. `rejected_candidate`: rejecting a new candidate takes the approval of the
   asset's current revision out of force.

The following statements of the documents are defined in the modules and
refuted too. To see the behaviour, put the name as the INVARIANT or PROPERTY of
the configuration named (without SYMMETRY).

| Statement (kind) | Configuration | What the code does |
|---|---|---|
| `CandidateNotFailed` (invariant) | `one_job`, `ErrorClasses` `{"final"}` | a retry of a candidate that failed hard QA reuses the attempt without its verdict and becomes `candidate_ready` (`runner.py:1022`) |
| `UnknownNotRepeated` (property) | `limits`, `LegacyJobs` `{}`, `ErrorClasses` `{"auth"}`, `MaxTransportRetries` 1, `MaxExpiries` 0 | a rejected key met by one task puts another task's job, whose call is on the wire, in `credentials_locked`; unlocking requeues it and the call is sent again (`runner.py:2033`); `UnknownNotRetried` is refuted by the same instance |
| `UnknownNotRepeated` (property) | `one_job`, `ErrorClasses` `{"final"}`, `ActionKinds` `{"regenerate"}`, `MaxClaims` 4, `MaxActions` 1, `MaxRestarts` 2 | recovery looks at the latest attempt only (`runner.py:174`): a base call is lost, the user regenerates, the API stops before that call is sent and again after the action was rejected as stale (see `RejectedOnlyIfStale`); the latest attempt was not sent, so the job is queued and the base call is made again |
| `UserCanAct` (invariant) | `one_job` | an exhausted quota while a paid action is pending leaves a job for which every decision is refused (`runner.py:2044`) |
| `RejectedOnlyIfStale` (property) | `one_job` | a regeneration that could not be sent because the key was missing is rejected as stale when it is executed again: the hash it is checked against covers a field that its own preparation wrote (`runner.py:970`) |
| `BudgetIsHard` (invariant) | `plans` | two paid decisions that overlap, or a decision and a change of the budget, exceed it (`production.py:400`; `roadmap.md:69` and `system-logic.md:164` call it hard) |
| `DecidesReadyJobs` (property) | `plans` | `diagnose_job` checks the copy of the job it read before it waited (`agent.py:947`; `agentic-production.md:22`) |
| `ActsOnItsCandidate` (property) | `plans` | the hash that protects an outdated candidate is computed from that same copy (`agentic-production.md:198`) |
| `StoppedNotRecovered` (property) | `planning_queue` | the failure of a turn overwrites the user's stop, so a turn that fails transiently after it was stopped is recovered (`generation_planning.py:2017`; `generation-workspace.md:11` 用户停止的规划不会自动恢复) |
| `EditsSurvive` (property) | `plans` | an edit is compared with the draft read before the writer lock, so one of two edits is lost (`generation_planning.py:2361`; `architecture.md:68`) |
| `AnsweredByItsBatch` (invariant) | `plans` | an edit that was checked before a confirmation and written after it leaves a draft without a batch, and confirming that draft is answered with the earlier plan (`generation_planning.py:2596`; `generation-workspace.md:17`) |
| `BatchAssetsAreFiled` (invariant) | `plans` | a confirmation that fails restores catalog files over what another has committed (`generation_planning.py:2673`; `user-guide.md:56`, `architecture.md:70`) |
| `ScanKeepsConfirmation` (property) | `plans` | a scan after a crash between commit and audit file writes the older conversation over the row (`services.py:999`; comment at `generation_planning.py:2682`) |
| `LockMeansApplied` (invariant) | `delivery`, `Requests` `{p1, p2}`, `MaxApplies` 2, other bounds 0 | two deliveries that overlap leave a lock of one with files of the other (`delivery.py:744`; `release-delivery.md:36`) |

Some properties that pass hold only in the instances that check them, or name in
their formula what would break them:

- `UnknownNotRetried` is false once a rejected key takes a job whose call is on the
  wire (the row of `limits` above); `LocksCall` names that step, and `one_job`
  has one job, so that it cannot happen there.
- `cancel_job` reads the status of a job in one statement and writes another
  status in a later one. If the runner claims the job in between, "cancelled" is
  written over the claim: the lease stays, `LeaseHasTask` breaks, and once the
  task persists its result the job counts as active again beside the one that
  took its place, so that two jobs run in a plan whose limit is 1
  (`LeasesWithinLimit`). The runs of these two have no cancels; the theorems
  about them exclude exactly this step (`CancelsClaim`). A cancel overtaken by
  the completion of the job turns a ready job into a cancelled one and breaks
  `PlanReadyMeansReady` (`OutdatedCancel`). The completion of a job whose cancel
  was requested (`CompletesCancelled`) leaves its action accepted and breaks
  `ActionsSettle`.
- "A cancelled job is never made ready" is false: `_recovery_state`
  (`runner.py:174`) does not read `cancel_requested`, so a restart, or a lease
  that runs out, between the completion of an attempt and that of its job shows
  the candidate of a cancelled job. `CancelHolds` says what does hold.
- `CandidateComplete` holds where no task outlives its lease. With one expiry, the task
  that lost its lease stages an attempt that the new holder has completed
  already, and its phase is `staged` again under a ready job
  (`_stage_provider_result` does not compare the lease). A pause of the provider's
  queue has the same effect without an expiry: it takes the lease of a job whose
  output is persisted, the next task completes the job from that output, and the
  old task then marks the attempt failed. `LateWrite` names every such step.
- `PlanReadyMeansReady` is also broken when the task of an expired lease persists
  its result, and with it the status of the job, after the job was completed
  (`LateResult`).
- Jobs frozen under runtime policy version 2 ignore the concurrency of their
  provider (`runner.py:558`): `ProviderWithinLimit` is about the older ones.
- `SettledNotRestarted`, `CatalogAgrees`, `BudgetKept` and the properties under
  `Undisturbed` name the disturbance in the formula itself.

Further observations made while modelling, without a document that says
otherwise:

- *Delivery.* A first delivery that dies leaves files that block every later one
  until a person removes them. `recovery_required` does not forbid deliveries,
  although `release-delivery.md:205` says it does. Edits between the second
  preview and a write are overwritten (compare the comment at
  `delivery.py:756`). A receipt that cannot be written after the backups were
  dropped removes the added files and leaves the updated ones.
- *Review and release.* A crash between the artifact records and the revision of a
  media approval leaves an error that every later scan reports. A crash of
  `create_relation` between the renewed review and the file of relations leaves a
  review that, once the relation is made again, a scan accepts and the rows do not. A text approval
  whose later file cannot be written leaves the files approved and the rows not.
  A scan that overlaps a request writes older rows until the next one. Two
  requests that take the same sequence number fail after their files exist.
  `create_release` reads the approvals before any lock (`release-delivery.md:57`).
- *Planning queue.* A user's stop during which the adapter ends its stream leaves
  the attempt `running` for ever if the session no longer counts as active. An
  answer in a new turn while the asking task is there is committed and answered
  with 409. Two questions can be pending. `recover_turn` and the client's cancel
  do not write the audit file.
- *Decisions.* A blocking finding writes the status of a job that is queued or
  running. Findings that race on their number raise an IntegrityError that
  leaves the agent's session `running` (`agent.py:623`). Two reviews of one
  change set may both succeed (`api.py:1692`).

## 6. Proofs

The theorems hold for every value of the constants that satisfies the named
assumptions, and for behaviours of any length.

**Runner** (`Spec` of `JobRunner`; `JobsAssumption`: jobs are a finite set of
positive numbers, `DependsOn`, `PlanOf`, `ProviderOf` are functions;
`LimitsAssumption`, `BoundsAssumption`: limits and bounds are natural numbers,
action kinds and error classes are among those the code knows).

- `TypeCorrect`: `Spec => []TypeOK`. `TypeOK` is inductive. The conjunct that a
  task at work has a job is needed for the others: without it the rows that a
  task writes could not be typed. `JobRunnerProofs` has one lemma per group of
  actions, after lemmas about the helpers (`RecoveryTarget`, `Refresh`, ...).
- `CallLimitHolds`: `Spec => []CallLimit`. `TypeOK /\ CallLimit` is inductive:
  only `Dispatch` changes `spent`, and it compares the sum with the limit in
  the transaction that adds to it. The number of calls a task believes it has
  left plays no role, which is why other tasks of the same request do no harm.
- `HolderOwnsLatestHolds`: `Spec => []HolderOwnsLatest`. The inductive
  invariant adds `TasksClaimed` (a task at work has a token that was granted):
  without it a fresh lease could belong to a task that is already in the middle
  of an attempt. Most steps are `Steady`: they add no attempt, grant
  no lease and move no task into an attempt. `StartAttempt` and `RepairBegin`
  add an attempt for the holder of the lease; `Poll` grants tokens above
  `claims`, whose tasks have not started.

- `LeaseHasTaskHolds`, `LeasesWithinLimitHolds`, `ProviderWithinLimitHolds`, each
  for `Spec /\ [][~CancelsClaim]_vars`: behaviours in which no cancel that read a
  job as queued is written after its claim. The code does not exclude that step
  (section 5); everything else, expired leases, restarts, cancels of running jobs
  and pauses of a provider's queue, is in. `TaskInv` says that a leased
  job has a leased status and that the task of its token is alive and works on
  it. It is inductive only with a third part: as long as that task may still
  pause the queue of its provider, the job is `running` or `output_received`,
  because the pause releases jobs in these two statuses and no other, and
  would otherwise end the task and leave its lease. `LimitInv` counts leases,
  in force or expired, because an expired one may be renewed by a late heartbeat
  and is in the limit again; `Poll` recovers the expired ones in the transaction
  that counts.
- `CancelHoldsHolds`: `Spec => CancelHolds`, without that condition. Each step that
  sends, grants or completes is shown to read the cancel flag in its own
  transaction; recovery is shown to change no attempt.

The next four are false of the code as it is (section 5). Each is proved for the
behaviours without the named step that breaks it; everything else that can
happen to a job, in any number, is in.

- `ActionsSettleHolds`: `Spec /\ [][~CompletesCancelled]_vars => []ActionsSettle`.
  `ActionInv` adds that a repair which the holder of the lease is about to begin is
  the pending action (`RepairsPending`): the action is read in one transaction
  and started in the next, and would otherwise be an action that is running and
  pending nowhere.
- `PlanReadyMeansReadyHolds`: `Spec /\ [][~OutdatedCancel]_vars /\
  [][~LateResult]_vars => []PlanReadyMeansReady`, with `TaskInv`. Two kinds of
  steps change the status of a job and do not refresh the plan: a cancel, and the
  writes of a task within its call. The first touches jobs that are not ready and
  the second those whose lease the task holds, hence not ready by `TaskInv`,
  except where the hypotheses say otherwise.
- `CandidateCompleteHolds`: `Spec /\ [][~LateWrite]_vars => []CandidateComplete`.
  `CandidateInv` says which attempts have an output and a verdict at each position
  of a task (`OutputInv`), that a lease is on a leased or a cancelled job, that at
  most one task is between two commits of the event loop (`MidAlone`), and what
  recovery may find: if the latest attempt is completed and no action is pending,
  the job is settled and no task but one that gives up holds its lease
  (`ShownSettled`). The last is needed because the recovery of an expired lease
  makes such a job ready without writing which attempt it shows; it needs
  `MidAlone`, because between the rejection of an outdated action and the end of its
  task only the order of the event loop keeps a pause or a recovery out.
- `UnknownNotRetriedHolds`: `Spec /\ [][~CancelsClaim]_vars /\ [][~LateWrite]_vars
  /\ [][~LocksCall]_vars => []UnknownNotRetried`. `RetryInv` follows the
  permission to call from where it is given to where it is used: a queued job
  whose latest call is unknown has a decision pending that does not repeat it
  (`QueueSafe`, `RetrySafe`), a task that has not started a call has the same or
  knows the outcome of the last one (`TaskSafe`), what has an output was answered
  (`OutputsAnswered`), and requests are named by actions that were made
  (`NumberInv`), so that a new decision is a new request. It rests on `GroundInv`:
  the invariants of the leases and outputs above. `LocksCall` is needed: without
  it TLC finds the call repeated. The other two conditions are needed by the
  invariant; with one job and three claims TLC finds no violation without
  either, so the theorem may hold without them.

**Decisions** (`DecisionSpec`; `BudgetAssumption`: budgets and rounds are natural
numbers, as `domain.py` 487-488 and 576 require).

- `RoundsHold` (`RoundsWithinLimit`) and `DecisionsExclusive`
  (`OneDecisionAtATime`) come from one inductive invariant: every row of a job
  has its types, a request that decides is about a job, and `RoundsWithinLimit`
  itself. The argument is that a decision is made from the row as it is under the
  writer lock; what the agent remembers of the job reaches the row only as the
  status of a blocking finding. So the rounds compared are exact, and the one
  thing a stale copy can break is the tie between a pending action and an
  execution, which is why that conjunct excepts `overruled`.
- `BudgetHolds` (`BudgetKept`). The paid decisions of all jobs are counted as a
  set of pairs of a job and a round; a paid decision adds one pair, any other step
  none. `BInv` adds that a request that changes the budget asks for at least what
  was used when it read the plan. If it writes over the plan it read, that is what
  is used now; if not, `raced` is set and nothing is claimed.

**Planning queue** (`Spec` of `PlanningQueue`; `StoreAssumption`: `AttemptLimit` is
at least 1; `BoundsAssumption`). `TypeCorrect`, `OneAttemptAtATime`
(`OneOpenAttempt`), `RecoveriesBounded` (`AutomaticRecoveriesBounded`) and
`SettledStaysSettled` (`SettledNotRestarted`). `DbInv` has the types of the rows,
one open attempt per turn, fewer automatic attempts than the limit, and that each
turn with attempts has one that the user asked for: the code compares the number
of all attempts of a turn with the limit, so this is what bounds the automatic
ones. That a turn with an open attempt is not settled holds until
a stop comes after the claim (`lateStop`). The other parts say that commands,
the task and a stop under way are about rows that exist. The functions that
change the rows have a lemma each, stated for any rows.

**Confirmation** (`Spec` of `PlanConfirmation`; `TabsAssumption`: `NoTab` is not a
tab; `BoundsAssumption`: `MaxPlans` is a number).

- `RetriesAnswered` (`RetriesFindTheirBatch`) and `ConfirmsCurrentFacts`
  (`ConfirmedOnCurrentFacts`). The inductive invariant `LockInv` says that a
  confirming tab holds the writer lock and that, as long as it does, the
  conversation's draft is the one it checked, its context is that of the rows, and
  the draft has no batch yet; and that each draft has one batch. It needs that
  every writer of these rows, the agent and a review included, waits for the
  lock; `StartConfirmUnlocked`, the mutant that reads without it, breaks it.
- `JobsOncePerTask` (`OneJobPerTask`): an approval reads the status of its plan
  before it waits for the lock, so two of them may both insert jobs; what keeps
  the second one out is the unique index of jobs (`HasJobs`). The invariant says
  of every plan which jobs it has.
- `TypeCorrect` (`TypeOK`): `TypeInv` adds which copies a request or the turn has
  at each position.
- `FilesAndRowsAgree` (`CatalogAgrees`): `CatalogInv` says how far files and rows
  may differ while a confirmation registers assets, while one that failed still
  has to put files back, and while an approval is between its file and its row.
- `AgentSparesEdits` (`AgentKeepsEdits`) follows from the types and the guard of
  the merge.

**Review and release** (`Spec` of `ReviewRelease`; `RequestsAssumption`,
`AssetsAssumption`: finitely many requests and assets; `RelationsAssumption`:
relations join assets, and what depicts is media and what it depicts is not;
`MediaAssumption`: media are assets; `NoneAssumption`: `None` is no number).

- `PointerNamesManifest` (`PointerHasManifest`), `ReleasesConsistent`
  (`ReleaseConsistent`) and `LocksDoNotDeadlock` (`NoDeadlock`). `IInv` follows a
  release from its preflight to its last file: the manifest a request holds fits
  the rows it was checked against, the manifest is written before the pointer, what
  a failing transaction puts back was there before with the lock held, and who holds
  which lock. It needs the names of fields but not what they hold. `NoDeadlock`
  needs finiteness: among requests that all wait there is one that waits for nobody,
  because who holds the lock of the project never waits for the other lock.
- `TypeCorrect` (`TypeOK`): `TypeInv` says of what a request has read, holds, still
  has to write or would put back that it has the types of the rows and files.
- `CurrentIsApproved` (`CurrentWasApproved`) and `PublishedWasReleased`
  (`PublishedIsReleased`), which speak of states that no failed file and no overlap
  came before, and of crashes and scans in any number. A crash drops the rows a
  request holds and what it has still to write, so an invariant about rows alone is
  not inductive. `CalmInv` is about the files: between any two writes they are sound
  by themselves (`FilesSound`: what a catalog has as current is recorded, reviewed
  as approved and not superseded, and released if the catalog is published), and
  the writes that are left are in an order that keeps them so and ends at the rows
  to be committed (`Sound`). Each request is shown to list its writes in such an
  order, `WriteKeepsSound` that each write keeps it, and `RebuiltRests` that a scan
  of sound files gives rows that agree with them. It needs that reviews of one
  revision agree in their verdict, because a scan takes the latest; and that one
  request runs at a time: two may decide the same revision both ways.

**Delivery** (`Spec` of `Delivery`; `DeliveryAssumption`: the lock file is no path of a
release, a release has known bytes and lists each of its files once).

- `TypeCorrect` (`TypeOK`), with `IInv`: before its first write a call has staged
  every path of its release, as backed up or as known to be new and never as both.
- `KeepsUnknownFiles` (`UnknownFilesKept`), if `EditsInFlight = FALSE`: owners edit
  between calls only. Calls may overlap. An edit after the second preview is
  overwritten, as section 5 says, so this assumption is the condition under which
  the property is meant, and the one of the run.
- `RecordsVerify` (`RecordedVerifies`) and `DeliversAtomically` (`AtomicDelivery`), if
  also `Serial`: calls do not overlap. Two that do leave a lock of one with files
  of the other (`LockMeansApplied` in section 5). `ProgressInv` says at each step
  of a call where the checkout is between the one it found and the result of the
  release, and that what the call remembers suffices to undo it. The refinement
  maps initial states to initial states and each step to a step of
  `CheckoutDelivery` or to a stutter; `LossInv` bounds the deaths and lost receipts
  that map to `Fault`.

**Only model-checked**:

- `RebuildAgrees` of `ReviewRelease`: it compares which approvals are valid in rows
  and files, so its invariant has to follow the dependencies of every review through
  each operation, and the exception it makes after a crash; `CalmInv` does not.
- Liveness (`LeasedSettles`, `BlockedReturns`, `RunningSettles`, `QueuedIsClaimed`):
  it needs fairness and `ENABLED`, which are out of the prover's reach.

## 7. Not modelled

- *Task graph* (`validate_plan`, `_task_batches`): sequential algorithms over one
  request that the repository tests directly; `JobStore` starts from a valid,
  acyclic graph.
- *Provider catalog*, *narrative map*, *acceptance tooling*, *settings and
  database wiring*, *web interface*: CRUD, views, scripts, and a client whose
  requests are the actions of users.
- *QA and media worker*: pixel work; its verdicts are nondeterministic choices.
- *Dispatch repair*: one transaction on rows of an older version, which the model
  does not have.
- *Provider client*: HTTP, address checks and parsing; what a call may do to a
  job is modelled.

Left out of modelled parts:

- *Runner*: texts, costs, progress, events, the mirror of a job's status on its
  asset, rows of versions without a dispatch state, `image_edit` (the same path
  as `regenerate`), `propose_changeset` (which `create_remediation` refuses),
  repeats of a decision under the same idempotency key, the rule that a repeated
  finding asks for another strategy (it only refuses decisions), providers that
  need no key, deleted rows, the graceful stop of the server.
- *Decisions*: the counting of findings, the review of change sets (whose patch
  people apply outside the program).
- *Planning queue*: `steer`, turns that run inside the server process, a graceful shutdown,
  duplicates of a request key, confirmed conversations, the adapter's process.
- *Confirmation*: contents of tasks, prices, copies of plans, relations between
  media, deletion of conversations.
- *Review and release*: `_sync_approved_relations`, project specifications, blobs,
  the replacement of a revision of the same sequence.
- *Delivery*: generated TypeScript, handwritten importers, path validation.

Worth proving next, in this order: `RebuildAgrees` of releases, on top of
`CalmInv`; `UnknownNotRetried` without its conditions on cancels and late writes.
