------------------------------- MODULE Polling -------------------------------
(***************************************************************************)
(* From a feed entry to its job: PollFeedsWorkflows whose activity scans   *)
(* the feeds under a lock and creates jobs, the child workflows each poll  *)
(* starts one after another, the operator who may start one more, and the  *)
(* reconciler that meanwhile fails the rows that stay queued.              *)
(*                                                                         *)
(* A key stands for the idempotency_key of the entries of one video, which *)
(* is UNIQUE among jobs; the API's keys are others.  Feeds list keys in    *)
(* any order, and so a poll's list of created jobs is kept as a set.       *)
(***************************************************************************)
EXTENDS Naturals, FiniteSets

CONSTANTS
    Keys,
    Polls,          \* runs of PollFeedsWorkflow
    Workers,        \* worker processes: the owners of the SQLite lock
    Operator,       \* who runs `start-process-workflow`, not one of Polls
    OperatorStarts, \* whether that happens
    Faults          \* the faults this environment shows, a subset of AllFaults

(***************************************************************************)
(* poll_error  an attempt of the poll activity raises                      *)
(* poll_stall  an attempt outlives its start_to_close_timeout and goes on  *)
(* crash       a worker process dies in the middle of an attempt           *)
(* no_lock     advisory locks are not to be had: the SQLite lock is used   *)
(* mark_error  an attempt to write the row fails, or its completion is lost *)
(* slow_start  queued_timeout_minutes pass although the row's workflow, or *)
(*             the scan that created the row, is at work                   *)
(***************************************************************************)
AllFaults == {"poll_error", "poll_stall", "crash", "no_lock", "mark_error", "slow_start"}

Starters == Polls \union {Operator}
Attempts == Polls \X {1, 2} \* maximum_attempts=2

ASSUME FaultsAssumption == Faults \subseteq AllFaults
ASSUME OperatorAssumption == Operator \notin Polls /\ OperatorStarts \in BOOLEAN
ASSUME WorkersAssumption == Workers \intersect {"nobody", "none", "advisory"} = {}

VARIABLES
    row,      \* jobs.status of each key; "undispatched": failed by the reconciler
    stale,    \* queued rows whose updated_at is older than the timeout
    poll,     \* each PollFeedsWorkflow: its place, attempt, jobs still to start
    scan,     \* each attempt of its activity
    fallback, \* row of the SQLite table `locks`
    wf,       \* each ProcessJobWorkflow, by who started it and its key
    runs      \* how often the pipeline was run for a key

vars == <<row, stale, poll, scan, fallback, wf, runs>>
jobVars == <<row, stale, wf, runs>>

-----------------------------------------------------------------------------
Statuses == {"absent", "queued", "running", "succeeded", "failed", "undispatched"}
Active == {"queued", "running", "succeeded"}
ScanPcs == {"none", "lock", "scanning", "gone"}

\* The SQLite lock is held in the name of a worker process, `pid-{getpid()}`.
Locks == {"none", "advisory"} \union Workers
WfStages == {"none", "mark_running", "pipeline", "mark_end", "returned", "raised"}

PollStates == [pc : {"idle", "polling", "dispatching", "done", "failed"},
               attempt : {1, 2}, queue : SUBSET Keys, child : SUBSET Keys]
ScanStates == [pc : ScanPcs, todo : SUBSET Keys, found : SUBSET Keys,
               created : SUBSET Keys, lock : Locks]

TypeOK ==
    /\ row \in [Keys -> Statuses]
    /\ stale \subseteq Keys
    /\ poll \in [Polls -> PollStates]
    /\ scan \in [Attempts -> ScanStates]
    /\ fallback \in [owner : Workers \union {"nobody"}, expired : BOOLEAN]
    /\ wf \in [Starters \X Keys -> WfStages]
    /\ runs \in [Keys -> Nat]

Poll(pc, n, queue, child) ==
    [pc |-> pc, attempt |-> n, queue |-> queue, child |-> child]

NoLock == [owner |-> "nobody", expired |-> FALSE]

Scan(pc, todo, found, created, lock) ==
    [pc |-> pc, todo |-> todo, found |-> found, created |-> created, lock |-> lock]

\* An attempt that holds and knows nothing.
Blank(pc) == Scan(pc, {}, {}, {}, "none")

Init ==
    /\ row = [k \in Keys |-> "absent"]
    /\ stale = {}
    /\ poll = [p \in Polls |-> Poll("idle", 1, {}, {})]
    /\ scan = [a \in Attempts |-> Blank("none")]
    /\ fallback = NoLock
    /\ wf = [x \in Starters \X Keys |-> "none"]
    /\ runs = [k \in Keys |-> 0]

-----------------------------------------------------------------------------
(***************************************************************************)
(* The workflow and its activity's attempts.                               *)
(***************************************************************************)
\* Attempt n of p's activity begins.
Schedule(p, n) == scan' = [scan EXCEPT ![<<p, n>>] = Blank("lock")]

StartPoll(p) ==
    /\ poll[p].pc = "idle"
    /\ poll' = [poll EXCEPT ![p] = Poll("polling", 1, {}, {})]
    /\ Schedule(p, 1)
    /\ UNCHANGED <<jobVars, fallback>>

Awaited(p, n) == poll[p].pc = "polling" /\ poll[p].attempt = n

\* The workflow receives a result, if it still waits for this attempt.
Report(p, n, created) ==
    poll' = IF Awaited(p, n)
              THEN [poll EXCEPT ![p] = Poll("dispatching", n, created, {})]
              ELSE poll

\* release_advisory_lock, or release_lock: DELETE WHERE owner = pid.
ReleaseLock(p, n) ==
    fallback' = IF fallback.owner = scan[<<p, n>>].lock THEN NoLock ELSE fallback

Leave(p, n) == scan' = [scan EXCEPT ![<<p, n>>] = Blank("gone")]

AdvisoryFree == \A a \in Attempts : scan[a].lock # "advisory"

\* acquire_lock: absent, one's own, or expired.  Its SELECT and its UPDATE are
\* two statements; two processes that both read an expired row end up as if it
\* had expired once more between two acquisitions.
FallbackFree(w) == fallback.owner \in {"nobody", w} \/ fallback.expired

\* The lock is taken and the feeds are fetched: they list the keys S.
Enter(p, n, lock, S) ==
    scan' = [scan EXCEPT ![<<p, n>>] = Scan("scanning", S, {}, {}, lock)]

TakeAdvisoryLock(p, n) ==
    /\ scan[<<p, n>>].pc = "lock"
    /\ AdvisoryFree
    /\ \E S \in SUBSET Keys : Enter(p, n, "advisory", S)
    /\ UNCHANGED <<jobVars, poll, fallback>>

TakeFallbackLock(p, n, w) ==
    /\ scan[<<p, n>>].pc = "lock"
    /\ "no_lock" \in Faults
    /\ FallbackFree(w)
    /\ fallback' = [owner |-> w, expired |-> FALSE]
    /\ \E S \in SUBSET Keys : Enter(p, n, w, S)
    /\ UNCHANGED <<jobVars, poll>>

\* lock_not_acquired: the result has no created_job_ids.
SkipPoll(p, n) ==
    /\ scan[<<p, n>>].pc = "lock"
    /\ \/ ~AdvisoryFree
       \/ "no_lock" \in Faults /\ \E w \in Workers : ~FallbackFree(w)
    /\ Leave(p, n)
    /\ Report(p, n, {})
    /\ UNCHANGED <<jobVars, fallback>>

\* find_active_job, for the next entry.
FindActiveJob(p, n, k) ==
    /\ scan[<<p, n>>].pc = "scanning"
    /\ scan[<<p, n>>].found = {}
    /\ k \in scan[<<p, n>>].todo
    /\ scan' = [scan EXCEPT ![<<p, n>>] =
                 Scan("scanning", @.todo \ {k}, IF row[k] \in Active THEN {} ELSE {k},
                      @.created, @.lock)]
    /\ UNCHANGED <<jobVars, poll, fallback>>

\* Mutants: an existing row is taken for a created one; it is queued again.
CreateQueuedJob_Existing(p, n, k) ==
    /\ k \in scan[<<p, n>>].found
    /\ row' = IF row[k] = "absent" THEN [row EXCEPT ![k] = "queued"] ELSE row
    /\ scan' = [scan EXCEPT ![<<p, n>>] =
                   Scan("scanning", @.todo, {}, @.created \union {k}, @.lock)]
    /\ UNCHANGED <<stale, wf, runs, poll, fallback>>
CreateQueuedJob_Upsert(p, n, k) ==
    /\ k \in scan[<<p, n>>].found
    /\ row' = [row EXCEPT ![k] = "queued"]
    /\ scan' = [scan EXCEPT ![<<p, n>>] =
                   Scan("scanning", @.todo, {}, @.created \union {k}, @.lock)]
    /\ UNCHANGED <<stale, wf, runs, poll, fallback>>

\* create_queued_job: INSERT, or the unique index refuses and the row that
\* is there, failed ones included, counts as a duplicate.
CreateQueuedJob(p, n, k) ==
    /\ k \in scan[<<p, n>>].found
    /\ LET new == IF row[k] = "absent" THEN {k} ELSE {}
       IN  /\ row' = [j \in Keys |-> IF j \in new THEN "queued" ELSE row[j]]
           /\ scan' = [scan EXCEPT ![<<p, n>>] =
                        Scan("scanning", @.todo, {}, @.created \union new, @.lock)]
    /\ UNCHANGED <<stale, wf, runs, poll, fallback>>

FinishScan(p, n) ==
    /\ scan[<<p, n>>].pc = "scanning"
    /\ scan[<<p, n>>].todo = {} /\ scan[<<p, n>>].found = {}
    /\ Leave(p, n)
    /\ ReleaseLock(p, n)
    /\ Report(p, n, scan[<<p, n>>].created)
    /\ UNCHANGED jobVars

\* An exception: the lock is released and what was created is not reported.
ScanFails(p, n) ==
    /\ "poll_error" \in Faults
    /\ scan[<<p, n>>].pc \in {"lock", "scanning"}
    /\ Leave(p, n)
    /\ ReleaseLock(p, n)
    /\ UNCHANGED <<jobVars, poll>>

\* The process dies: its connection closes, the row of the SQLite lock stays.
WorkerCrashes(p, n) ==
    /\ "crash" \in Faults
    /\ scan[<<p, n>>].pc \in {"lock", "scanning"}
    /\ Leave(p, n)
    /\ UNCHANGED <<jobVars, poll, fallback>>

\* lock_ttl_seconds pass: they are fewer than a poll may take.
FallbackExpires ==
    /\ fallback.owner # "nobody" /\ ~fallback.expired
    /\ fallback' = [fallback EXCEPT !.expired = TRUE]
    /\ UNCHANGED <<jobVars, poll, scan>>

\* The attempt is over without a result, or its five minutes are: the second
\* attempt begins, or the workflow fails.
AttemptFails(p) ==
    LET n == poll[p].attempt
    IN  /\ Awaited(p, n)
        /\ scan[<<p, n>>].pc = "gone" \/ "poll_stall" \in Faults
        /\ IF n = 1 THEN /\ poll' = [poll EXCEPT ![p] = Poll("polling", 2, {}, {})]
                         /\ Schedule(p, 2)
                    ELSE /\ poll' = [poll EXCEPT ![p] = Poll("failed", 2, {}, {})]
                         /\ UNCHANGED scan
        /\ UNCHANGED <<jobVars, fallback>>

-----------------------------------------------------------------------------
(***************************************************************************)
(* Child workflows, one after another; outside any try, so that a child    *)
(* that raises ends the poll.                                              *)
(***************************************************************************)
StartChild(p, k) ==
    /\ poll[p].pc = "dispatching" /\ poll[p].child = {} /\ k \in poll[p].queue
    /\ poll' = [poll EXCEPT ![p] = Poll("dispatching", @.attempt, @.queue \ {k}, {k})]
    /\ wf' = [wf EXCEPT ![<<p, k>>] = "mark_running"]
    /\ UNCHANGED <<row, stale, runs, scan, fallback>>

ChildEnds(p, k) ==
    /\ poll[p].pc = "dispatching" /\ k \in poll[p].child
    /\ \/ /\ wf[<<p, k>>] = "returned"
          /\ poll' = [poll EXCEPT ![p] = Poll("dispatching", @.attempt, @.queue, {})]
       \/ /\ wf[<<p, k>>] = "raised"
          /\ poll' = [poll EXCEPT ![p] = Poll("failed", @.attempt, {}, {})]
    /\ UNCHANGED <<jobVars, scan, fallback>>

PollEnds(p) ==
    /\ poll[p].pc = "dispatching" /\ poll[p].child = {} /\ poll[p].queue = {}
    /\ poll' = [poll EXCEPT ![p] = Poll("done", @.attempt, {}, {})]
    /\ UNCHANGED <<jobVars, scan, fallback>>

\* `worker.main start-process-workflow --job-id`, under an id of its own.
StartProcessWorkflow(k) ==
    /\ OperatorStarts
    /\ row[k] # "absent" /\ wf[<<Operator, k>>] = "none"
    /\ wf' = [wf EXCEPT ![<<Operator, k>>] = "mark_running"]
    /\ UNCHANGED <<row, stale, runs, poll, scan, fallback>>

-----------------------------------------------------------------------------
(***************************************************************************)
(* ProcessJobWorkflow as far as its row can tell; JobLifecycle has all of  *)
(* it.  x is <<who started it, its key>>.                                  *)
(***************************************************************************)
\* The row is written and the workflow goes on, or the write fails, or it is
\* written and the workflow takes it for a failure.
Write(x, status, next) ==
    \/ /\ row' = [row EXCEPT ![x[2]] = status]
       /\ stale' = stale \ {x[2]}
       /\ \/ wf' = [wf EXCEPT ![x] = next]
          \/ "mark_error" \in Faults /\ wf' = [wf EXCEPT ![x] = "raised"]
    \/ /\ "mark_error" \in Faults
       /\ wf' = [wf EXCEPT ![x] = "raised"]
       /\ UNCHANGED <<row, stale>>

Refused(x) ==
    /\ wf' = [wf EXCEPT ![x] = "raised"]
    /\ UNCHANGED <<row, stale>>

\* Mutant: the UPDATE names the row by id alone.
MarkRunning_Blind(x) ==
    /\ wf[x] = "mark_running"
    /\ Write(x, "running", "pipeline")
    /\ UNCHANGED <<runs, poll, scan, fallback>>

MarkRunning(x) ==
    /\ wf[x] = "mark_running"
    /\ IF row[x[2]] = "queued" THEN Write(x, "running", "pipeline") ELSE Refused(x)
    /\ UNCHANGED <<runs, poll, scan, fallback>>

RunPipeline(x) ==
    /\ wf[x] = "pipeline"
    /\ wf' = [wf EXCEPT ![x] = "mark_end"]
    /\ runs' = [runs EXCEPT ![x[2]] = @ + 1]
    /\ UNCHANGED <<row, stale, poll, scan, fallback>>

\* Mutant: a failed pipeline is reported and not marked.
MarkEnd_OnlySuccess(x) ==
    /\ wf[x] = "mark_end"
    /\ \/ Write(x, "succeeded", "returned")
       \/ wf' = [wf EXCEPT ![x] = "returned"] /\ UNCHANGED <<row, stale>>
    /\ UNCHANGED <<runs, poll, scan, fallback>>
MarkEnd_FinalStatus(x) ==
    /\ wf[x] = "mark_end"
    /\ \E status \in {"succeeded", "degraded", "failed"} : Write(x, status, "returned")
    /\ UNCHANGED <<runs, poll, scan, fallback>>

MarkEnd(x) ==
    /\ wf[x] = "mark_end"
    /\ IF row[x[2]] \in {"queued", "running"}
         THEN \E status \in {"succeeded", "failed"} : Write(x, status, "returned")
         ELSE Refused(x)
    /\ UNCHANGED <<runs, poll, scan, fallback>>

-----------------------------------------------------------------------------
(***************************************************************************)
(* The reconciler.                                                         *)
(***************************************************************************)
\* The scan that created the row is still at work, its poll is about to start a
\* child, or its workflow waits for a worker.  While another child of the poll
\* is at work, for half an hour maybe, nobody is.
InProgress(k) ==
    \/ \E a \in Attempts : k \in scan[a].created
    \/ \E p \in Polls : k \in poll[p].queue /\ poll[p].child = {}
    \/ \E s \in Starters : wf[<<s, k>>] = "mark_running"

BecomeStale(k) ==
    /\ row[k] = "queued" /\ k \notin stale
    /\ InProgress(k) => "slow_start" \in Faults
    /\ stale' = stale \union {k}
    /\ UNCHANGED <<row, wf, runs, poll, scan, fallback>>

\* Mutant: running rows are reconciled too, by their age in the queue.
FailStaleQueuedJob_Running(k) ==
    /\ row[k] \in {"queued", "running"}
    /\ row' = [row EXCEPT ![k] = "undispatched"]
    /\ stale' = stale \ {k}
    /\ UNCHANGED <<wf, runs, poll, scan, fallback>>

\* fail_stale_queued_jobs, for one row of its transaction.
FailStaleQueuedJob(k) ==
    /\ row[k] = "queued" /\ k \in stale
    /\ row' = [row EXCEPT ![k] = "undispatched"]
    /\ stale' = stale \ {k}
    /\ UNCHANGED <<wf, runs, poll, scan, fallback>>

-----------------------------------------------------------------------------
ScanStep(p, n) ==
    \/ TakeAdvisoryLock(p, n) \/ SkipPoll(p, n)
    \/ \E w \in Workers : TakeFallbackLock(p, n, w)
    \/ \E k \in Keys : FindActiveJob(p, n, k) \/ CreateQueuedJob(p, n, k)
    \/ FinishScan(p, n)

PollStep(p) ==
    \/ AttemptFails(p) \/ PollEnds(p)
    \/ \E k \in Keys : StartChild(p, k) \/ ChildEnds(p, k)

WorkflowStep(x) == MarkRunning(x) \/ RunPipeline(x) \/ MarkEnd(x)

Next ==
    \/ \E p \in Polls : StartPoll(p) \/ PollStep(p)
    \/ \E p \in Polls, n \in {1, 2} :
          ScanStep(p, n) \/ ScanFails(p, n) \/ WorkerCrashes(p, n)
    \/ FallbackExpires
    \/ \E x \in Starters \X Keys : WorkflowStep(x)
    \/ \E k \in Keys :
          StartProcessWorkflow(k) \/ BecomeStale(k) \/ FailStaleQueuedJob(k)

Spec == Init /\ [][Next]_vars

(***************************************************************************)
(* Scans, polls and workflows go on, time passes and the reconciler is     *)
(* alive.  Nobody has to poll, and no fault has to happen.                 *)
(***************************************************************************)
Fairness ==
    /\ \A p \in Polls, n \in {1, 2} : WF_vars(ScanStep(p, n))
    /\ \A p \in Polls : WF_vars(PollStep(p))
    /\ \A x \in Starters \X Keys : WF_vars(WorkflowStep(x))
    /\ \A k \in Keys : WF_vars(BecomeStale(k)) /\ WF_vars(FailStaleQueuedJob(k))

FairSpec == Spec /\ Fairness

-----------------------------------------------------------------------------
(***************************************************************************)
(* Properties                                                              *)
(***************************************************************************)
\* p created the job of k: it is about to report it, to start it, or has.
InHands(p, k) ==
    \/ \E n \in {1, 2} : k \in scan[<<p, n>>].created
    \/ k \in poll[p].queue
    \/ wf[<<p, k>>] # "none"

\* No two polls are at one job, although two scans may run side by side on the
\* fallback lock, after an expiry, or with a stalled attempt: the unique index
\* decides, and only the scan whose INSERT it lets through lists the job.
OneDispatcher ==
    \A p, q \in Polls, k \in Keys : p # q => ~(InHands(p, k) /\ InHands(q, k))

\* The pipeline of a job runs at most once, although a poll's child and an
\* operator's workflow have different ids: the guard of mark_running decides.
JobRunsOnce == \A k \in Keys : runs[k] <= 1

\* A workflow that is past mark_running has the job for itself: its row is
\* running until it ends, whatever the reconciler and other workflows do.
RunnerHasRow ==
    \A x \in Starters \X Keys : wf[x] \in {"pipeline", "mark_end"} =>
        /\ row[x[2]] = "running"
        /\ \A y \in Starters \X Keys :
              wf[y] \in {"pipeline", "mark_end"} /\ y[2] = x[2] => y = x

\* The documented status machine, under every fault: in contrast to the rows
\* of the API, those of a poll are written by guarded statements only.
StatusMachine == INSTANCE JobStatusMachine WITH Jobs <- Keys, state <- row
FollowsStatusMachine == StatusMachine!Spec

\* Every job that a poll creates ends, also one whose poll died or never
\* learned of it.
PolledJobConverges ==
    \A k \in Keys : row[k] \in {"queued", "running"}
                       ~> row[k] \in {"succeeded", "failed", "undispatched"}

\* docs/state-machine.md: a ProcessJobWorkflow is started for each new job.
NewJobIsStarted ==
    \A k \in Keys : row[k] = "queued" ~> \E s \in Starters : wf[<<s, k>>] # "none"
=============================================================================
