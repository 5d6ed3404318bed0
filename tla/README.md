# Formal models of the video analysis pipeline

TLA+ modules, TLC runs and TLAPS proofs about this repository: the parts in which
several processes share a row, a lock or a workflow id and any of them may stop between
two steps, the pipeline that runs inside one of them, the services around it, and the
scripts that vouch for a commit or a release. Paths are relative to the repository root
(`src/` below).

    tlc -workers 4 -config JobLifecycle_safety.cfg MC_JobLifecycle.tla
    tlapm JobLifecycle_proofs.tla

| module | what it is |
| --- | --- |
| `JobLifecycle` | a `jobs` row: API requests, `ProcessJobWorkflow`, the reconciler |
| `JobStatusMachine` | abstract specification: the documented status machine of a job |
| `Delivery` | `notification_deliveries` rows: senders, retry activities, the mail provider |
| `RetriedMail` | abstract specification: a row of `notification_deliveries` as a queue with retries |
| `Polling` | from a feed entry to its job: polls, their locks, their child workflows |
| `Pipeline` | one job's steps: cache, checkpoint, ledger, retries, the verdict, reruns |
| `LlmClient` | `gemini_generate` and the step around it: phases, tool rounds, context cache |
| `FeedFetch`, `Comments` | the worker's HTTP collectors: fallback bases and breakers; paging |
| `Schedules` | the daily digest loop and the provider canary |
| `JobView`, `DigestFeed`, `UiAudit`, `Gateway` | the API: reading a job, the feed and the search, calls of models, the workflow endpoint with the MCP tool that calls it |
| `CurrentProof`, `Evidence`, `Release` | the scripts: proof of the current commit, runtime evidence, release readiness |
| `MC_JobLifecycle`, `MC_Delivery`, `MC_Polling`, `MC_Pipeline`, `MC_Release` | the small instances: symmetry sets, values |
| `MC_Services`, `MC_Reports` | machines that share no state, side by side |
| `JobLifecycle_proofs`, `Delivery_proofs`, `Polling_proofs`, `Pipeline_proofs` | theorems for every value of the constants |
| `Worker_proofs`, `Api_proofs`, `Scripts_proofs` | the same about `LlmClient`, `FeedFetch`, `Comments` and `Schedules`; `UiAudit`, `JobView`, `DigestFeed` and `Gateway`; `CurrentProof`, `Evidence` and `Release` |
| `Ordering`, `Ordering_proofs` | sorting, filtering and cutting lists, for the modules that do, and lemmas on what they keep |

`PROJECT.json` maps every definition to the lines it models and lists the runs, the
mutants (a plausible bug per property, that the run finds), findings, hazards and
theorems.

## 1. Inventory

The product watches feeds, creates a job per video, lets a worker analyse it and mails
digests. An API (FastAPI), a worker (Temporal workflows and activities), an MCP server
and a web front end are processes of their own. They meet in Postgres, in Temporal, in a
SQLite file of the worker and at the mail provider.

| component | state | operations | what makes it hard | what makes it correct |
| --- | --- | --- | --- | --- |
| Job creation and dispatch, `apps/api/app/services/videos.py`, `repositories/jobs.py` | `jobs` row, UNIQUE `idempotency_key`; workflow id `process-job-{id}` | look up, requeue, insert, resolve the conflict, connect, start, mark the dispatch failed | statements of concurrent requests interleave; UPDATEs by id alone; a start that times out may have happened | one pipeline run per job; an answer never precedes what it reports; no finished job is reopened |
| `ProcessJobWorkflow` and job activities, `temporal/workflows.py`, `activities_job_state.py`, `state/postgres_store.py` | `jobs.status`, the workflow's position | `mark_running`, `run_pipeline`, `mark_succeeded`, `mark_failed`, digest | attempts whose completion is lost or that outlive their timeout; what is inside and what outside the `try` | succeeded only after a successful run; a running row has somebody who ends it |
| Stale queue reconciler, `activities_job_state.py`, `postgres_store.py:398` | `jobs.updated_at` | fail at most LIMIT old queued rows | races requests and workflows; LIMIT | every job ends |
| Operator CLI, `worker/main.py` | - | starts workflows by hand | the same workflow id as the API's | as above |
| Delivery senders, `activities_delivery*.py`, `apps/api/app/services/notifications.py` | `notification_deliveries` row | insert, skip, send, mark | a crash between insert, send and mark; marks by id alone; the API sends without a key | no mail twice without a reason; no second row of a digest |
| Delivery retriers, `activities_delivery_retry.py`, `activities_delivery.py` | the same row, advisory locks | claim a batch, lock, send, compare-and-set | several retry workflows; a claim that times out; lost answers; limit and backoff | attempts bounded; one retrier per row; every row settles |
| Mail client, `integrations/providers/resend.py` | - | send with or without `Idempotency-Key` | refused, or the answer lost | the outcome tells what may have happened |
| Feed polling, `activities_poll.py`, `PollFeedsWorkflow` | `ingest_events`, `videos`, `jobs`, poll lock | lock, fetch, insert event, create queued job, start children one after another | advisory lock with a SQLite fallback that expires; a retry that no longer returns the ids of the first attempt; children that wait while the reconciler counts | one poll per job; one run per job; every created row ends |
| SQLite store, `state/sqlite_store.py` | locks, step runs, checkpoints | acquire, release, next attempt, checkpoint | expiry with a living owner; read-then-insert of attempt numbers | one poll per job; what is recorded stays |
| Pipeline executor, `pipeline/orchestrator.py`, `step_executor.py`, `policies.py`, `runner.py` | step runs, checkpoint, cache files, work files, the state of the run | run, retry, skip, force, reuse, resume, degrade, cancel | five kinds of leftovers (rows, checkpoint, two cache files, media) that a crash may leave in any combination; modes and policies that differ between runs | the verdict agrees with the gate; a success is whole; a digest belongs to its outline |
| Pipeline steps, `pipeline/steps/` | artifacts | external programs and models | which failures degrade; deterministic fallbacks | as above |
| LLM client, `pipeline/steps/llm_client.py`, `llm_computer_use.py` | one call's phase, round and signatures; a process-wide table of cached contents | upload, generate, run tools, cache, fall back | modes tried one after another; a cache the provider forgets; tools that ask for more | an accepted answer has the thoughts, signatures and input it claims |
| Feed fetching, `rss/fetcher.py` | order and breakers of the fallback bases, by process | probe, reorder, fetch, retry | fetches side by side read before an await and write after it | no base lost; a breaker opens over failures only |
| Comment collectors, `comments/` | the lists so far | page, ask for replies, retry | inline and asked-for replies overlap; a failure half way | the policy's numbers and order; all or nothing |
| Daily timing and loops, `activities_timing.py`, `activities_reports.py`, `DailyDigestWorkflow` | timers, the digest row of a day | wait, send, wait | local days of 23 or 25 hours; lost attempts; timers that fire late | one digest a day, of that day |
| Canary and health, `activities_health.py` | `provider_health_checks` | probe, record, sleep | probes that time out | - |
| Cleanup, `activities_cleanup.py` | files of the workspace | delete old media, prune directories | runs at work in the same workspace | a run at work survives (it does not: 6.5) |
| Job reading, `services/jobs.py`, `routers/jobs.py` | - | five reads of three stores | the workflow writes between them | a succeeded answer is whole |
| Feed, retrieval, subscriptions, `services/feed.py`, `retrieval.py`, `subscriptions.py` | `jobs`, `videos`, `subscriptions` | page, search, change categories | rows change between pages | pages in order, without repetition or gap |
| UI audit, computer use, `services/ui_audit.py`, `computer_use.py` | runs in memory and on disk | collect, ask a model with a limit, store, read | a call that outlives its limit; restarts; files that go away | a run reads as it was answered |
| Workflow endpoint, MCP server, `routers/workflows.py`, `mcp/server.py` | - | start a workflow; forward a tool's call | lost answers, time limits on each hop, retries | one call, one workflow |
| Current proof, `scripts/governance/` | reports with metadata sidecars | probe, stamp, check, render | commits and remote runs between any two scripts | what the audit lets pass is proved of this commit |
| Runtime evidence, `scripts/runtime/` | `.runtime-cache` | write, normalise, prune, index, check | runs and audits that end half way; days that pass | a quiet audit passes |
| Release readiness, `scripts/release/` | the reports of a release | capture, check, weigh | scripts in any order on a changing tree | not red means every required check held |
| Migrations | schema | unique indexes, defaults | - | the guards of the models' inserts |
| Adapters and normaliser, integrations, web front end, other scripts | - | parse, forward, render, lint | - | - |

How they interact: an API request commits a `queued` row and then asks Temporal to start
`process-job-{id}`; the workflow's activities move the row by guarded UPDATEs; after
`mark_succeeded` the workflow runs the video digest activity, which inserts a delivery
row; `DailyDigestWorkflow` and three API endpoints insert others. The resident
`NotificationRetryWorkflow` alternates between two activities: retry due deliveries and
fail stale queued jobs. So the liveness of jobs and of deliveries hangs on one loop.

## 2. Plan

| order | module | state |
| --- | --- | --- |
| 1 | `JobLifecycle`, `JobStatusMachine` | done: checked, proved |
| 2 | `Delivery`, `RetriedMail` | done: checked, proved |
| 3 | `Polling` | done: checked, proved |
| 4 | `Pipeline` | done: checked, safety proved |
| 5 | `LlmClient`, `FeedFetch`, `Comments`, `Schedules` (worker) | done: checked, proved |
| 6 | `JobView`, `DigestFeed`, `UiAudit`, `Gateway` (API, MCP) | done: checked, proved |
| 7 | `CurrentProof`, `Evidence`, `Release` (scripts) | done: checked, proved |
| 8 | a composition of `JobLifecycle`'s reconciler and `Delivery`'s retriers in the one loop that runs both | left: each module states the loop's fairness for itself |
| 9 | one run of the steps without cache as an abstract specification of `Pipeline` | left: its invariants say what a reused product may be |

Job keys of the poller and of the API are disjoint (`rss/normalizer.py:100`,
`apps/api/app/services/videos.py:107`), so `Polling` has rows of its own, and only as much
of the workflow as its row can tell.

Abstract specifications: the status machine of a job (done; `JobLifecycle` implements it
under assumptions, `Polling` without any); a queue with retries (done; `Delivery` implements it
without stalls). Worth stating: one run of the steps without
cache, that the executor with caches and checkpoints implements.

The modules of 4 to 7 share no state with each other or with 1 to 3, except where one
produces what the other takes as given: `JobLifecycle.RunPipeline` takes the outcome
`Pipeline` computes, `Pipeline` takes the outcome of an LLM step that `LlmClient`
computes, `Polling` takes the entries `FeedFetch` delivers, and `Schedules` sends the row
`Delivery` settles. `Pipeline.GateAgreesWithStatus` is what `mark_succeeded` in
`JobLifecycle` relies on.

## 3. JobLifecycle

One row, one workflow id and any number of requests per key. A key is an
`idempotency_key`. The workflow id is a function of the job id and so of the key. A request with `force=true`
has a key of its own.

| variable | code |
| --- | --- |
| `row[k]` | `jobs.status`, the reason (`hard_fail_reason`/`error_message`), and whether `updated_at` is older than `queued_timeout_minutes` |
| `api[c]` | the place of a request in `process_video` and `create_or_reuse`, its key, its answer |
| `stage[k]` | the place of `ProcessJobWorkflow.run`; `none`: never started; `closed`: ended in any way |
| `attempt[k]` | failed attempts of its current activity |
| `result[k]`, `runs[k]` | what the run reported (succeeded and degraded are `ok`), how often it ran |
| `late` | start requests and activity attempts nobody waits for any more |

Actions: `LookupActive`, `FindRetryable`, `Requeue`, `Create`, `ResolveConflict` are the
statements of `create_or_reuse` (`jobs.py:44`), each a step of its own because the
session is READ COMMITTED and the row is not locked; `Connect`, `TemporalStart`,
`DispatchAccepted`, `DispatchFailed`, `DispatchTimeout` the dispatch (`videos.py:215`);
`AbandonRequest` every way a request ends without writing the row (a connect that times
out is one: it raises before the `try` whose handlers mark the failure).
`MarkRunning`, `MarkSucceeded`, `MarkFailed`, `MarkException` are one
operator, `MarkActivity`, with the guard (`CanMark`), the write (`Marked`), the number
of attempts and the successor of each; `MarkFailed` is the call inside the `try`
(`workflows.py:98`), `MarkException` the one in the `except`. `FailStaleQueuedJobs(S)`
is one transaction of the reconciler, `StartProcessWorkflow` the operator's command.
`StartWorkflow` is Temporal's conflict policy, which is external: a running id is used,
a closed one refused.

Faults are a CONSTANT set, so that a run or a theorem can say which of them it assumes.

### Runs

| run | instance | shows |
| --- | --- | --- |
| `job_safety` | 1 key, 3 requests, all faults, operator | `PipelineRunsOnce`, `SucceededIsEarned`, `DispatchedMeansStarted`, `StageTellsResult` hold whatever goes wrong |
| `job_documented` | 2 keys, 1 request, no timed out start | the rows implement `JobStatusMachine` (refinement mapping `DocState`) |
| `job_converges` | 1 key, 2 requests, activities answer | `RunningIsOwned`, and `JobConverges`: every queued or running job ends |
| `job_requeue_race` | 2 requests | violation of `SucceededIsFinal`: the second UPDATE of two requeues reopens a finished job (`jobs.py:92`) |

`SucceededIsFinal` can be broken in a second way, by one request: a start that timed out
has happened, and `mark_dispatch_failed` overwrites what its workflow wrote
(`jobs.py:114`). `job_documented` therefore excludes start timeouts as well.

`RunningIsOwned` fails with one request and `Faults = {"lost_completion"}`: `mark_running`
commits, its completion is lost, its retry finds the row running and raises outside the
`try` (`workflows.py:77`), and nothing owns the row, for the reconciler looks at queued
ones only. `docs/architecture.md:55` says that `mark_failed_activity` converges every error.

Bounds. Keys meet only in the LIMIT of the reconciler, hence one key wherever that
limit plays no part, and two keys in `job_documented`, where one transaction may move
both. Three requests are one more than any counterexample needs: two that race and a
third that starts over after either. `attempt` is bounded by `MaxAttempts`, `runs` by
the property itself; requests repeat without bound. TLC's state space is finite without
a constraint.

Fairness (`FairSpec`): a request handler that runs goes on (it may still end by
`AbandonRequest`); a workflow with work to do does it (Temporal keeps its task until a
worker takes it, and a worker is resident); time passes for a queued row; the reconciler
reaches each stale row (`ORDER BY updated_at` serves the oldest first, so LIMIT cannot
starve one). Nobody is obliged to send a request, and a late operation need not land.
The last of these presumes that `NotificationRetryWorkflow` is alive, which is more than
the code guarantees (4, "Two failures").

### Theorems

For any sets of keys and requests, any limit and any set of faults:

- `TypeCorrect`, `RunsOnce`, `SuccessIsEarned`, `DispatchIsHonest`: `Spec => []P` for
  `TypeOK` and the three properties. Types are left to this theorem, here and in the two
  other modules that have one: no run checks what holds for every instance.
- `StagesTellResults`: `Spec => []StageTellsResult`, the strengthening of the three.
- `RunningOwned`: `WritesAreAnswered => (Spec => []RunningIsOwned)`. The assumption
  says that no activity attempt fails, stalls or loses its completion;
  the lost completion above shows that it is needed.
- `DocumentedStatusMachine`: `OneAtATime => (Spec => FollowsStatusMachine)`, the refinement
  that `job_documented` checks, and `SucceededStays`, that then no row leaves `succeeded`.
  `OneAtATime` is what that run assumes: one request at a time (for any number of keys),
  no start or activity outrun by its timeout, nothing started by hand. Every other fault is
  allowed. The two ways to break `SucceededIsFinal` above show that one request and answered
  starts are needed. `DocInv` says when a request may still write: a row that it is about to
  requeue is a retryable failure, one that it has queued has nothing at work (`RequestInv`);
  and that a workflow past `mark_running` has a row that is running or that it ended
  itself (`KeyInv`). Each step then takes an edge of the machine or stutters (`DocStep`).

None of the three properties is inductive. That `runs[k] <= 1` survives `RunPipeline`
needs that the pipeline has not run while the stage is before it; that `succeeded` is
earned needs that whoever is about to write it, a stalled attempt included, belongs to a
run that reported `ok`; that `dispatched` is honest needs that an `accepted` request has
started something, and that no stage ever returns to `none`. `StageTellsResult` is the
conjunction of these, and
`IInv == TypeOK /\ Safety` (`Safety` is it and the three) is inductive. Requests, the
reconciler and the operator are treated once: they write rows other than to
`succeeded`, and move no stage except from `none` to `mark_running`
(`OutsideKeepsSafety`); the four mark activities are treated once by `MarkActivitySafety`.
`OwnedInv`, for `RunningOwned`, adds that no `mark_*` operation is late.

## 4. Delivery

| variable | code |
| --- | --- |
| `row[d]` | what the row announces, `status`, `attempt_count`, `next_retry_at` (NULL, future, past), and whether `updated_at` is older than the claim timeout |
| `sender[d]` | the place of the process that inserted the row |
| `retrier[r]` | the place of a retry workflow, the claimed `(id, attempt_count)` pairs it has left and the one it is at; `dead`: the workflow failed |
| `locks` | session advisory locks, by row and holder |
| `mails[d]` | idempotency keys under which the provider took mail of the row |
| `misread[d]` | history: attempts recorded as failed whose mail had been taken |

A digest is a video's, a day's, one of the API, or a test mail. `Insert` has the guard
of each: the unique index on `job_id` for a video, the advisory lock and the check of
live rows for a day (`activities_delivery.py:284`, `:378`), the index on
`(kind, dispatch_key)` or a fresh row for the API. `SenderSkips`, `SenderSends`,
`SenderMarks` follow the activity (`activities_delivery_send.py`) and `_dispatch_email`
(`notifications.py:240`), which differ in the key they send with and in the columns they
set. `Claim`, `TakeItem`, `RetrierSends`, `RetrierMarks`, `BatchDone` follow
`retry_failed_deliveries_activity_impl`. Rows are claimed in one transaction
(`FOR UPDATE SKIP LOCKED`) and marked by compare-and-set on `queued` and the claimed
count. `RetrierCrashes` ends the workflow and the connection, so its locks are
released; `RestartLoop` is an operator or `run_once`.

The provider is external: it takes mails with one key for one (it promises so for a
day; the claim timeout is 15 minutes) and keyless mails for as many as they are.

### Runs

| run | instance | shows |
| --- | --- | --- |
| `delivery_safety` | 2 rows (a day's, the API's), 2 retriers, all faults but stalls | `QueuedIsReclaimable`, `AttemptBound`, `OneLivePerDigest`, `WorkerMailsExplained`, `SettledIsFinal`, and that the rows implement `RetriedMail`; 1,185,220 states |
| `delivery_settles` | 1 row (a video's, the API's or a test mail), 2 retriers, stalls, locks can be had | `NoConcurrentRetry` by the lock alone, `SentHasMail`, and `DeliverySettles` while the loop lives |

`RetriedMail` is what a row promises to whoever announces a digest. It has no processes: a
row is tried one attempt at a time, attempt `n` under key `n`, and each attempt has one
answer. `sent` needs a mail of the attempt answered, `skipped` that nothing was
mailed, `waiting` that an attempt is left, and a digest is announced again only
when its rows are given up. The mapping (`Announced`, `States`, `Tries`) tells failed rows
with a retry time from those given up; claims, locks, ages and crashes are stutters, but for
a batch of failed rows that is claimed. The API's rows have a first attempt without key or
count (`Untold`).

Two failures of what a reader might expect. `AllMailsExplained` fails with one row of the
API and `Faults = {"sender_crash"}`: the API sends without a key (`notifications.py:304`)
and the reclaim mails the digest again, under `delivery-initial:{id}`. `DeliverySettles`
fails with `Faults = {"retrier_crash"}`: `NotificationRetryWorkflow` awaits its two
activities outside any `try`, each with one attempt, so that one failure ends the loop
(`workflows.py:260`); `docs/state-machine.md:159` has it scan every ten minutes.

Bounds. Rows meet in a batch, in the digest they announce and in `ClaimLimit`: two
rows are the smallest number for each. Two retriers are the resident workflow and one
started by hand; a third would only wait for the same row. `DELIVERY_MAX_ATTEMPTS` is
3 instead of 5: a first, an intermediate and a last attempt. Symmetry is used in safety
runs only.

`docs/reference/cache.md:185` names another claim condition than the code (queued rows
with `attempt_count > 0` only). The code's is modelled; the mutant `Due_Documented` shows
that under the documented one a row whose sender died before its first mark would never settle.

Fairness: senders and retriers that run go on, backoff and claim timeout pass, and a
loop that is alive claims every due row in its turn. The last is strong fairness per
row: with a batch limit of one, a row is enabled only when the loop is idle, and
`ORDER BY next_retry_at` lets no row be passed over for ever. `RestartLoop` is
not fair: nothing in the code starts a dead loop again.

### Theorems

For any rows, digests, retriers, limits and faults:

- `TypeCorrect`, `QueuedRowsAreReclaimable`, `SentIsTaken`: under every fault.
- `LockKeepsRetriersApart`: when advisory locks can be had (`AlwaysLocks`), stalls
  included, `NoConcurrentRetry`. Invariant `Locked`: who is at a row holds its lock, and
  a lock has one holder.
- `ClaimKeepsRetriersApart`, `MailsAreTimely`, `SettledStays`, `AttemptsAreBounded`,
  `RowsOfADigestTakeTurns`, `WorkerMailsAreExplained`: without stalls (`NoStall`), locks
  or not.
- `RowsFollowRetriedMail`: `NoStall => (Spec => FollowsRetriedMail)`, the refinement that
  `delivery_safety` checks. `MailsOnlyWhileQueued`, which `MailsAreTimely` proves, is one of the
  steps of `RetriedMail` (`Mail`) and has no run of its own.

The two theorems on `NoConcurrentRetry` say that either mechanism suffices; with
neither it fails. `delivery_settles` checks the first on an instance; `delivery_safety`,
where locks may be lacking, leaves the second to the proof.

Invariants. `RetryShape` says of each row what `QueuedIsReclaimable` says of queued ones
and also that a row with retry time has been counted: `Claim` makes failed rows queued and
needs it. `Accepted` says that a process which saw `accepted` is at a row that was mailed
under the key of the process's own attempt.
Without stalls, `Owned` holds: an active sender's row is queued, young and uncounted;
a claimed or taken row is queued, young and has the claimed count; no row has two of
these; a taken row is no longer in the batch. From it the marks always find what they
expect, so a settled row is not written (`SettledStays`), mail is sent for queued rows
(`MailsAreTimely`), and attempts stay below the limit until the mark that makes
the row final (`Left`, for `AttemptsAreBounded`). With stalls these three fail: the
sender's marks name the row by id alone. A row that does not keep others of its digest
out is blank or settled, so only its own insert can make it live (`NothingYet`, for
`RowsOfADigestTakeTurns`). For `WorkerMailsAreExplained`, `MailsCounted` says that attempt
`n + 1` has key `n + 1` and that all mails of a worker's row but that of the attempt to
come were read wrong; a mark moves one mail over, and counts it if it was read wrong.

For `RowsFollowRetriedMail` each step is mapped to one of `RetriedMail` or a stutter
(`InsertAnnounces`, `SkipSkips`, `SendMails`, `MarkAnswers`, `ApiAnswers`, `ClaimRetries`,
`TimeFollows`). It rests on the invariants above, for a mark is the answer to the attempt to
come only if the count that the process works from is the row's, and on one more,
`NothingMailed`: a row has no mail before its sender has sent. With stalls it fails:
a sender that outlives its claim answers for an attempt of somebody else.

## 5. Polling

A key is the `idempotency_key` of a video's entries, UNIQUE in `jobs`.

| variable | code |
| --- | --- |
| `row[k]` | `jobs.status`; `undispatched`: failed by the reconciler |
| `stale` | queued rows older than `queued_timeout_minutes` |
| `poll[p]` | the place of a `PollFeedsWorkflow`, the attempt it awaits, the created jobs it has yet to start, the child it awaits |
| `scan[p, n]` | attempt `n` of its activity: entries to look at, the key `find_active_job` has just not found, the keys created, the lock it holds |
| `fallback` | row `phase2.poll_feeds` of the SQLite table `locks` |
| `wf[s, k]` | `ProcessJobWorkflow` of `k` started by poll `s`, or by the operator |
| `runs[k]` | how often the pipeline ran |

Actions: `TakeAdvisoryLock`, `TakeFallbackLock`, `SkipPoll`, `FindActiveJob`,
`CreateQueuedJob`, `FinishScan`, `ScanFails` follow `run_poll_feeds_once`; look-up and
insert are two transactions and two steps. `AttemptFails` is Temporal's retry: it may
come while the attempt is still at work (`poll_stall`), and the workflow then ignores
that one's result (`Report`). `WorkerCrashes` releases the advisory lock with its
connection and leaves the fallback's row. The fallback is owned by a process
(`pid-...`), so two attempts in one process both have it, and `FallbackExpires` needs no
fault: `lock_ttl_seconds` is 90 and an attempt may take five minutes. `StartChild`,
`ChildEnds`, `PollEnds` are the loop of `PollFeedsWorkflow`; its list of jobs is kept as
a set, because feeds list entries in any order. `MarkRunning`, `RunPipeline`, `MarkEnd` are
`ProcessJobWorkflow` as far as its row and its caller can tell; `JobLifecycle` has its
attempts and its exception handler.

### Runs

| run | instance | shows |
| --- | --- | --- |
| `polling_safety` | 1 key, 2 polls, 2 processes, operator; stalls, no advisory locks, lost writes, slow starts | `OneDispatcher`, `JobRunsOnce`, `RunnerHasRow`, and that the rows implement `JobStatusMachine` |
| `polling_converges` | 2 keys, 1 poll, 2 processes; attempts fail, stall, die | `PolledJobConverges`: every queued or running row ends |

`NewJobIsStarted` fails with 3 keys, 1 poll and no faults: while the first child runs, up
to 30 minutes, the reconciler fails the queued rows of the others after 15; the second
child's `mark_running` raises, and with it the poll (`workflows.py:40`), so the third job
is never started, nor created again, its key being taken. `docs/state-machine.md:34` says
that every new job's workflow is started.

Bounds. Keys meet in a poll's list only, so one key serves for what two polls can do
to each other and two for a list whose rest is lost. Two attempts are the code's
`maximum_attempts`; with two polls that makes four scans.

A row that waits behind another child becomes stale without any fault, for a child may run for half an
hour; a row whose workflow or scan is at work does so under `slow_start` only.
A lost write is not among the faults of `polling_converges`: it strands a running row
(3, "Runs").

Fairness: scans, polls and workflows that have started go on (Temporal keeps their
tasks), time passes for queued rows and the reconciler reaches them; the last presumes
the loop whose end section 4 describes. Nobody has to poll, and locks need not expire.

### Theorems

For any keys, polls, processes and faults:

- `TypeCorrect`: `Spec => []TypeOK`.
- `JobIsAtOnePoll`: `Spec => []OneDispatcher`. Invariant `HandsInv`: who holds a job has
  seen its row created, and rows are not deleted; so an insert that succeeds finds no
  holder. No lock occurs in the proof: the locks save work, and the unique index decides.
- `RunsOnce`, `RunnerIsAlone`: `Spec => []P` for `JobRunsOnce` and `RunnerHasRow`.
  Invariant `RunInv` adds that a row before its run, and a workflow about to run it, mean that the
  pipeline has not run. Every step but those of workflows keeps it because it keeps
  `KeepsRunners` (`OthersKeepRunners`, `KeepsRunInv`).
- `RowsFollowStatusMachine`: `Spec => FollowsStatusMachine`, from `RunInv`: the terminal
  UPDATE also accepts queued rows, and would take the undocumented edge `queued ->
  succeeded`, did not every workflow that reaches it have a running row.

## 6. The pipeline of a job

### 6.1 What is modelled

`Pipeline` has one job and a bounded number of calls of `run_pipeline` for it, one after
another: `PipelineRunsOnce` and `JobRunsOnce` say that no two are at work together. A run
has a mode, a policy and a caller. `activity` is `run_pipeline_activity`, which
`mark_running` precedes and whose checkpoint it writes; `direct` is any other caller of
`run_pipeline`, with nothing in between.

| variable | code |
| --- | --- |
| `job` | content type, platform, whether there is a `source_url` |
| `rows[s][n]` | the `step_runs` row of step `s` and attempt `n`: status, cache key, result |
| `checkpoint` | `checkpoints.last_completed_step` |
| `cache[s]`, `legacy[s]` | the signed cache file and the old unsigned one of a step; a torn file reads as none |
| `dirs`, `disk` | which directories exist, and which run made the media and the frames |
| `run` | place, index, failed tries, the execution at hand, how far it resumes |
| `data` | the state the steps share |
| `steps`, `degr`, `result` | step records, degradations, final status and gate |
| `basis[n]` | history: the outline from which run `n` wrote its digest |

A product is the number of the run that made it. Two runs' outlines differ, which is what
makes `DigestMatchesOutline` say something: it holds because the outline is a part of the
digest's signature (`types.py:115`), and fails without.

`Begin` is `execute_step` up to the handler: the skips of the mode, the row, the
recovery from cache or ledger. `Try` is one call of the handler with any outcome it has in
the code (`Outcomes`, from the nine step modules) and what it leaves on disk; `Sleep`
the wait of `retry_delay_seconds`; `Finish`, `Checkpoint`, `Write` the writes in
their order, each a step because the process may die between them (`Crash`, which may also
tear the file it writes); `Return` the two resolvers. `Cancel` is the branch of
`CancelledError`. `Cleanup` is `CleanupWorkspaceWorkflow` at any moment.

### 6.2 The run

`pipeline_reruns`: two runs, every pair of the four modes and of two policies (one hard),
video and article, one trouble anywhere, called directly (the deployed caller never resumes,
6.5). 301,820 states. Two runs suffice for what a run takes from an earlier one; every
recovery looks at one file or row. One trouble means one step that fails as often as it
likes, or one crash, cancellation or cleanup, in either run: what is left behind by two
troubles of one run is what the later one leaves, and a trouble in the second run meets a
first run of any mode. Retries are 1 (transient) and 2 (rate limit), so that the categories
have different budgets.

| property | what could go wrong |
| --- | --- |
| `GateAgreesWithStatus` | resolvers, break and policy judge the same records differently |
| `SucceededIsComplete` | a recovered degraded result counts as a full one |
| `DigestMatchesOutline` | one of the two comes from a cache, the other is new |
| `NoRowLeftRunning` | a path out of the executor that forgets its row |
| `CheckpointBacked` | the checkpoint ahead of the ledger |
| `LedgerIsKept` | attempt numbers used twice |
| `RecordedWorkIsKept` | a resumed run repeats what is on record |
| `RunEnds` | retries without bound |

Fairness: a run that is at work goes on (`WF_vars(Advance)`: its activity's process runs or
dies; `Crash` and `Cancel` are not fair). `CHECK_DEADLOCK FALSE`: after the last run nothing
is left to do; the same holds of the runs of sections 7 and 8.

### 6.3 Theorems

For any number of runs, modes, policies, retries and faults, `Pipeline_proofs` has seven
theorems along four invariants:

- `LedgerInv`: the rows of a run at work are none for the steps to come, running for
  the step at hand, and no other one is running; no later run has a row; at the checkpoint
  the row says it passed. Every step then keeps the rows that say how a step ended
  (`KeepsLedger`). `RowsAreFinished`, `CheckpointIsBacked` and `LedgerIsNotRewritten`
  follow. Writes of the row are treated once (`LedgerRowStep`), as are steps that only
  move the run on (`LedgerUnmoved`).
- `VerdictInv`: while a run is at work the steps behind it have a status and nothing fatal was
  met; at the resolvers all steps have one, or a required LLM step failed. For
  `VerdictsAgree`.
- `DigestInv`: a row of `llm_digest` that says succeeded, and a cache file of it, holds a
  digest written from the outline of its key; the outline at hand does not change while
  `llm_digest` is at work; no other step changes either product (`OwnOutcomes`). It needs
  `LedgerInv`: that a digest's row is not rewritten is what keeps `basis` from
  being written twice. For `DigestFollowsOutline`.
- `EarnedInv`: whatever stands in a cache file, a legacy file, a row or the run's hand and
  passed without being degraded updates all products of its step, and those in full
  (`Earned`); a step behind the run that passed, was not degraded and not spared by
  the mode has them in the run's state (`DataEarned`). It needs that no two steps of a list
  have a product in common (`ApartProducts`) and that a handler that is done is either
  degraded or whole (`EarnedHandler`, one case per step). That a recovered result keeps its
  `degraded` is what carries it over from run to run. For `SucceededHasAll`.

`RecordedWorkStays` proves the action property `RecordedWorkIsKept` without an invariant
of its own: only `Begin` goes from a step's beginning to its handler, and only when
`Lookup` found nothing, which up to the checkpoint includes the rows (`LookupSeesRows`).

A policy is a number from 1 on, `policy = 0` being none (`InputsAssumption`).
`RunEnds` is liveness and model-checked only.

### 6.4 LlmClient

A call goes through the phases its options allow (`Phases`), each a loop of rounds: a
request, tools to run, the next request, with signatures carried along. `local` is
`_CACHE_NAME_BY_KEY` in its order, `live` and `minted` the provider's side of it. `Judge`
is what the LLM steps accept, `JudgeTranslation` the second call for an answer that is not
Chinese. `AnswerIsEarned`: an accepted answer has text and thoughts and signatures, and
the input it reports is one of a phase that was tried. `SpendIsBounded`,
`RefusedNameIsDropped` and `LlmCallEnds` hold too and are not among the runs.

`Worker_proofs.EarnedAnswers` proves `AnswerIsEarned` for any options, rounds, prompts and
cached contents. `LlmInv` follows the call: what is to be tried is allowed by the options
asked (`TodoSound`), so an answer comes from such a mode (`EndSound`); what failed in one
mode and is kept for later has no text, so it cannot be accepted after the others failed
too; and the answer under translation is one that was accepted, with what came
with it (`PurposeSound`). No assumption is made about tools or the provider.

### 6.5 Disagreements met on the way, without a run of their own

- `DegradableStepIsNotFatal` of `Pipeline` fails: `docs/architecture.md:53` has only the
  critical path end in `failed`; `resolve_pipeline_status` fails on any failed step other
  than a soft LLM step (`orchestrator.py:112`).
- `CleanupIsHarmless` fails: `prune_empty_dirs` removes the empty directories of a run at
  work, and the next cache write raises (`activities_cleanup.py:30`).
- `mark_running` writes the checkpoint `mark_running` (`activities_job_state.py:128`), so a
  job's rerun never resumes, though `docs/reference/cache.md:58` says so. With
  `Callers = {"activity"}` the resuming part of `RecordedWorkIsKept` is vacuous; the run
  therefore calls directly.
- Function calling is on in every step call, which excludes the context cache
  (`docs/reference/cache.md:84` presents it as used); `build_llm_policy_section` always
  sets the computer use keys, so that the settings of the same name have no effect.
- A blocked response becomes `llm_provider_unavailable`, a transient error, and is retried.
- A legacy cache file is taken whatever its signature, and degraded results are cached as
  succeeded; `SucceededIsComplete` holds because the recovered result keeps its `degraded`.

## 7. The services of the worker and the API

### 7.1 Components

`FeedFetch`: by process, `order`, `reorderedAt`, `failures`, `openUntil` are `_FallbackState`.
`StartFetch`, `Probe`, `Reorder` are `_ordered_public_bases` with its awaits;
`List` the candidates; `BodyArrives`, `Refused`, `Wait`, `Exhausted` the requests and retries. Two
fetches share the state and interleave at every await. `FallbackStateIsSound`: no base
is lost or doubled, and a circuit is open only over failures that reach the threshold.
`Remaining` may be empty: then all candidates have been tried (`GivesUpLast`, not run).
`Worker_proofs.FallbackIsSound` proves it for any finite set of bases and any fetches. The
order is shared and written after awaits, but what a fetch writes is made of its own
scores: they and what is left to probe are each base once (`ProbeSound`). That sorting
them by score, and by place where scores are equal, loses none is `RankedListing`. It rests
on `Ordering_proofs`: `Ordered` puts a member of a set after as many as come before it;
these numbers grow along the order, so that no two are the same (`PlacesGrow`) and each place
is taken (`OrderedLists`).

`Comments`: one collection, its pages and threads, in YouTube's way (pages of threads;
missing replies asked for page by page) or Bilibili's (one page of each). A request is
retried; one lost for good raises, and the step delivers nothing, degraded.
`CommentsKeepPolicy` says what is delivered. It is about replies: top comments are not
deduplicated across pages (`youtube.py:183`), and the model shows it.
`Worker_proofs.DeliveredKeepsPolicy` proves it for any numbers asked for, pages and
failures. Replies at hand, replies of a page and the most liked of a list repeat none
(`ReplyLists`; for a page, `PageOfReplies`: one that is picked was neither had nor
above itself on the page); what is delivered is empty or went through
`apply_comments_policy`, which keeps to the numbers and sorts (`PolicyApplied`).

`Schedules`: an hour is the unit and four make a day; the local clock changes once by one
hour either way, or never. `resolve_timing` is the activity, waits are those it computed
when it ran, `JobsOf` the SQL of the report, `DigestOf` the row of a day, inserted once.
`TimingLost` and `SendLost` are failed attempts: two end the loop, and only the command
line starts it again. A timer may fire late, when the worker was away (`late`). `DigestEveryDay` is about loops whose timers fire
on time. It depends on the hour: where the digest is due in the last hour of the day
(`TargetHour = DayHours - 1`, `DIGEST_DAILY_LOCAL_HOUR=23`) and the clock is set forward while
the loop waits, the wait, a difference of wall times (`activities_timing.py:113`), ends on the next
day and the digest of the day before is sent then. TLC finds this for that hour
alone. For every other hour `Worker_proofs.DigestsKeepTheirDays` proves the property, for
days of any length, any zones and hour of the change, any jobs, lost attempts and starts:
its one hypothesis is `TargetHour + 1 < DayHours`. `ScheduleAssumption` says what is taken
for granted of zones: an offset is less than a day (Python's `timezone` refuses others,
`activities_timing.py:44`), the change is an hour at most.

The proof is about two clocks. A day's window is the hours whose local day it is
(`InWindow`). A wall time turned to UTC and back is off by an hour at most, and only around
the change (`Translated`). So a wait that the activity computes ends within an hour of the
due hour, on the digest's day when that hour is not its last (`Near`; `WaitBefore`,
`WaitAfter`). `ScheduleInv` says so of the loop in each of its states (`LoopSound`), and
that the days from the loop's start to the one before the one at work have their digests;
`DigestSound` says that a digest was sent in its window with the jobs done in it by
then; `Untouched`, that nothing was sent before the first start, when the
zone is chosen. The canary's probes and their timeouts are the second machine of the module.

`JobView`: `GET /api/v1/jobs/{id}` is five reads (`ReadRow` to `ReadIndex`) of row, step
rows and files, while `run_pipeline` and the marks write them, and while a dispatch that
timed out lets a second run in (`DispatchTimesOut`, `Requeue`). `SucceededViewIsWhole`:
an answer that says succeeded has a digest, a passed gate, no reason, and, unless a requeue
disputes it, the final status its degradations call for. It holds because the row is read
first and written last. `Api_proofs.SucceededIsShownWhole` proves it for any runs and any
LLM steps. `JobViewInv` says what a row that says succeeded stands for (`RowBacked`: its
files, and a last step on record), that the same is true of the row a reader has at hand, to which
files and rows are only added (`ViewBacked`), and that an undisputed job has one run
whose final status its files tell (`SoleRun`). The converse fails: `FinalAgreesWithStatus`, because a
row read as running may be answered with the final status of the step rows read later.

`UiAudit`: an audit from the files to the stored run, the planner, and the query embedding:
a call in a thread with a limit. `TimesOut` marks the call overdue; `Joined` is the exit of
the executor's block, that waits for the thread, so a limit does not bound a
request (`ui_audit.py:480`). `Restart` empties the memory; `FileGoes` is anybody else.
`AnsweredRunIsKept` relates three stores: what was answered, the memory, the file.
`Api_proofs.AnswersAreKept` proves it for any requests, files and restarts. `AuditInv` says
that every copy is the run as it was saved (`CopiesKept`), that an answer stands beside a
copy in memory unless a restart took it (`AnswerKept`), and, while the review goes on,
that no reply is used but one that was in time (`RequestSound`).

`DigestFeed`: `list_digest_feed` is the SQL's keyset condition, order and limit, the row cut
from the page when it has no text, and the cursor of the last row shown. The world moves between
pages: jobs succeed, dates move, texts go, categories change. `FeedPagesFit` is an action
property: a page is in order, strictly below the cursor it was asked with, of the feed's
filter, and leaves out nothing above the cursor it returns. `Api_proofs.PagesFit` proves it
for any rows, dates and limit. The rows below the cursor are listed newest first, the limit
cuts that list, and what has a text is picked from what is left, in the same order
(`PageOf`); so a row that is not on a full page is later in the list than the page's last,
whether the limit cut it or the page. `ReaderAssumption`: finitely many jobs, limit at least 1
(`feed.py:28`). `FeedEndsAtTheEnd` fails:
`has_more` is computed from the rows shown, so that a row without text on the page
ends the feed early (`feed.py:178`). The search merges keyword and semantic hits and
has no property of its own in the runs: `HybridKeepsBest` holds by construction.

`Gateway`: an MCP tool, `ApiClient.request` with its retries, the API's `run_workflow`, and
Temporal; any hop may lose the request or the answer, or answer after nobody waits.
`WriteTakesEffectOnce` counts the workflows a call has started (`effects`) and compares
with what the tool was told. `Api_proofs.WritesTakeEffectOnce` proves it for any calls, attempts and faults:
in `GatewayInv` a handler yet to start finds no workflow of its call; only reads are sent again,
so that the tool of a write that has yet to send has no handler; what was answered, and what
the tool was told, agrees with the count; and a tool told for certain has no handler left. `OneLoopPerKind` fails: the API's id for a loop
(`daily_digest-workflow`) is not the command line's (`daily-digest-workflow`), so both run.

### 7.2 The run

`services` puts these machines side by side: `focus`, chosen at the start, is the one that
moves, so the states of the run are the sum and not the product of theirs. They share no
variable, hence nothing is lost. One run says what ten would: each property is about one
machine, and its mutant is found in it. 2,754,999 states.

| machine | instance | why it is enough |
| --- | --- | --- |
| LLM client | 2 prompts, 1 key in the table, 2 calls, 1 tool round, 3 names | a table that overflows, a second call that meets what the first left, a round after the first |
| feed fetching | 2 fetches, 2 bases, threshold 2, 3 ticks | two that interleave, an order that can change, a breaker that opens, closes and expires |
| comments | 2 ranks, 2 pages, 2 wanted of each | an overlap of inline and listed replies, a page after the first, one too many |
| schedules | days of 4 hours, 1 change, 3 days, 1 job, 2 starts | a short day, a long day, the days before and after; a restart |
| reading a job | 2 runs of it, 1 LLM step | a second run let in by a dispatch that timed out; its rows meet those of the first |
| UI audit | 1 request, 3 kinds of files, 2 restarts | each read after a restart, in memory or not |
| feed | 3 rows, page of 1, 2 dates, 3 changes | ties in the date, a page before and one after each change |
| gateway | 2 calls, 2 attempts, 2 command line starts | a retry, a conflict with an older loop |

## 8. The scripts' reports

`CurrentProof`: `Probe_*`, `Begin_*`, `Write`, `Stamp` are a script from reading HEAD to the
metadata of its report; `GateStart` to `GateEnds` are `governance-audit`; commits and remote
runs come in between, and any script may be interrupted. Scripts by hand come before an audit
or after it, one at a time: that no two scripts, and no script and the audit, are at work
together is an assumption (`ByHandNow`), for neither `gate.sh` nor the scripts take a lock.
Without it a slow probe could write its report over that of a later one, between the audit's
probe and its checks, and `AuditedGreenIsProved` would not be known to hold. `lane_state` has
the remote runs that tell their commit; one without `headSha`
(`probe_external_lane_workflows.py:126`) is never called verified and is left out.
`AuditedGreenIsProved` holds although a report is stamped with a HEAD read after its content
was made: the alignment check compares the HEAD inside the workflow report as well
(`NestedErrors`). `Scripts_proofs.AuditedIsProved` proves it for any lanes, commits and
scripts by hand. `GateSound` says what the audit has seen to after each of its steps, as long
as no commit was made since it began; `GateAlone`, that its own scripts read that commit;
`VerifiedIsProved`, that no report ever calls verified what had no success. Lanes and other
reports have different names (`ReportNamesAssumption`). `SummaryGreenIsCurrent` fails: outside
the audit the summary calls a lane verified by the readiness report of another commit, where
`docs/reference/external-lane-status.md:34` requires the latest run's `headSha` to be the
current HEAD (`render_current_state_summary.py:79`).

`Evidence`: files with their sidecars by path; a run writes log, manifest, evidence and the
log's completion, each with a sidecar after it. A writer may be killed within `write_text` or
an append (`WriterDies`): nothing is written, or an empty or torn file, a log without the end
of its line (to which the next line is then joined), the file with no sidecar or with that of
the file before. The audit may end between its steps (`AuditDies`) and within those that write
(`PruneDies`, `BuildIndexDies`, which may leave a torn index). A file that does not parse is
given a `legacy-` run (`infer_source_run_id`, `prune_runtime_cache.py:37`, `:42`); a sidecar
that does not parse is none.

`QuietAuditPasses` is about audits during which nobody wrote (`audit.quiet`). Not every one
passes. A torn manifest makes the last check raise (`check_run_manifest_completeness.py:66`),
and it does so again in every audit until the manifest is a day old and pruned; a log whose
first line was torn and that has no sidecar is made "legacy" by the audit itself and then
fails as that of another run (`:86`); a log that was never written fails as absent (`:80`).
`cut` are the runs whose writer was killed like that, and the property says that these are the
only failures: no check but the last fails, and that one on no run outside `cut`. Every other
trace of a dead run or a dead audit is healed. That the property would fail without `cut` TLC
shows at once; so it does when the inferred run is not the manifest's (the mutant). The run
has one death; with two it holds as well (checked apart: with the rest it is too long for one run), and
`Scripts_proofs.AuditHeals` proves it for any runs, days and number of deaths, along
`EvidenceInv`: what the audit has pruned and normalised stays so, and what it has indexed
stays listed in an index that is whole, until somebody writes (`Clean`, `Listed`); a manifest
that is left of a run not cut short is complete because the log of that run is whole until its
completion is logged, is known to be its own or will be (`OwnLog`), was written no earlier and
is kept no shorter (`RunLogged`). The latter is an assumption on the two TTLs
(`TtlAssumption`; `config/governance/runtime-outputs.json` has 1 day and 30): with manifests
kept longer than logs the audit would prune a log and then fail on the manifest.

Abstractions: a bootstrap takes less than a day and an audit does not run across midnight
(`NextDay`); the budgets of a directory, which count its files before any is removed, are left
open, and an audit that exceeds one ends there (`Prune`, `CheckRetention`), failing for a
reason the property is not about; pruning removes a file and its sidecar together.

`Release`: developers change the tree, the operator captures evidence and runs
prechecks, CI summary and readiness report in any order. `NotRedIsBacked` holds of the tree
the prechecks saw, which may have changed since; the report does not
look. `Rank` is the nearest-rank p75 of `generate_rum_baseline`; `AtPlace`, what stands there
in the sorted list, is told without sorting it: the least value that so many do not exceed.
The prover knows nothing of TLC's `SortSeq`. `Scripts_proofs.ReleaseIsBacked` proves
`NotRedIsBacked` for any migrations, tags, lists of samples and results of the CI. That
prechecks which all hold saw a tree that could be released is `ChecksHold`; its
hard part is the baseline: three samples in four are within the p75 (`Percentile`),
so a baseline within the budget is one that the samples keep. `ReleaseAssumption`: there is
a tag, samples are not empty (without any the script makes no baseline), tests are counted.

| run | instance | shows |
| --- | --- | --- |
| `reports` | 1 lane, 2 commits, 1 audit, 3 scripts by hand; 1 migration, 1 tag, 1 change of the tree, 3 CI results; 2 runs in the cache, 1 writer killed, TTLs of 0 and 1 days, 2 days | the three properties; 1,917,258 states |
| `release_invalid_down` | 1 migration, 1 tag | violation of `NotRedIsReversible`: a down file without a statement blocks nothing (`generate_release_prechecks.py:443`), though `docs/deploy/rollback-runbook.md:29` says that it must |

Two commits are a proved one and the next, one audit with three scripts by hand
lets every report be older than the one that reads it; a third commit would be another
next. Two runs are one that the audit finds and one that comes after; two days let a file expire
alone, or with its sidecar. One lane suffices since lanes are checked one by one. One change of the
tree is what can come between a report and the one that uses it.

## 9. Only model-checked, and not modelled

Only model-checked: liveness (`JobConverges`, `DeliverySettles`, `PolledJobConverges`,
`RunEnds`), which is out of the prover's reach. Every other property of a passing run is a
theorem, some of them under hypotheses on the faults, those of the runs (sections 3 and 4).
`DigestEveryDay` is proved for a target hour before the last of the day: nothing in the code
excludes that last hour, and there the property is false (section 7, `Schedules`).

No module declares a RECURSIVE operator, so each can be reasoned about in part.

Abstractions. Texts, urls, artifacts and key hashes are left out. Times are "old or
not", "waiting or due", an hour, a tick or a day. A step that reads
and writes inside one transaction under a lock is one action. A timed out activity whose code keeps
running is a late operation in `JobLifecycle`; in `Delivery` it is a
retrier that stalls. Workflow termination by an operator is not modelled: it would strand
a row like a lost completion. The advisory lock of a dropped connection is
released by `RetrierCrashes` only, not under a live retrier.

Left out of `Polling`: the upserts of `videos` and `ingest_events` (a duplicate event
only counts; the scan goes on to the job either way) and
`max_new_videos`, which limits the reported candidates and not the created jobs.

Modelled in part: the steps' external programs and prompts are outcomes; a size budget of
the runtime cache ends an audit at will, that of the workspace is a choice of what goes; health's read-only
summary, the single artifact and asset reads, ingest's forwarding and metrics are left out.

Not modelled, and why: adapters and the normaliser turn text into records and keep
nothing; integrations construct clients; the web front end renders what the API answers; the
other scripts are linters of this repository's files, images and deployment shells, which
read files and exit with 0 or 1. `scripts/deploy/canary_rollout.sh` changes a server's
configuration and would be the next to model.
