---------------------------- MODULE JobLifecycle ----------------------------
(***************************************************************************)
(* The life of a row of the `jobs` table: API requests that create, reuse  *)
(* or requeue it and dispatch a ProcessJobWorkflow for it, the workflow's  *)
(* activities that move its status, and the reconciler that fails rows     *)
(* that stay queued.  Each of these runs in a process of its own and they  *)
(* meet only in the row and in Temporal's table of workflow ids.           *)
(*                                                                         *)
(* A key stands for an idempotency_key; the column is UNIQUE, so a key has *)
(* at most one row, and the workflow id `process-job-{job_id}` is a        *)
(* function of the key.  A request with force=true appends a fresh uuid to *)
(* its key: it is a request for a key nobody else asks for.                *)
(***************************************************************************)
EXTENDS Naturals, FiniteSets

CONSTANTS
    Keys,           \* idempotency keys of jobs
    Clients,        \* concurrent POST /videos/process requests
    ReconcileLimit, \* rows one reconcile activity may fail (queued_reclaim_limit)
    Faults,         \* the faults this environment shows, a subset of AllFaults
    OperatorStarts  \* whether operators run `start-process-workflow` by hand

(***************************************************************************)
(* abandon         the request ends early: the Temporal connect times out  *)
(*                 or fails, the API process dies, a statement fails       *)
(* start_error     start_workflow raises and nothing was started           *)
(* start_timeout   start_workflow times out, or its call breaks, and the   *)
(*                 request was carried out, or will be, or is lost         *)
(* slow_start      queued_timeout_minutes pass while a request is still    *)
(*                 dispatching the row or its workflow waits for a worker  *)
(* activity_error  an activity attempt fails and wrote nothing             *)
(* lost_completion an attempt writes the row and its completion is lost    *)
(* activity_stall  an attempt outlives its start_to_close_timeout and      *)
(*                 writes the row later                                    *)
(***************************************************************************)
AllFaults == {"abandon", "start_error", "start_timeout", "slow_start",
              "activity_error", "lost_completion", "activity_stall"}

ASSUME FaultsAssumption == Faults \subseteq AllFaults
ASSUME ReconcileLimitAssumption == ReconcileLimit \in Nat \ {0}
ASSUME OperatorAssumption == OperatorStarts \in BOOLEAN

VARIABLES
    row,      \* jobs row of each key: status, hard_fail_reason, "updated_at is old"
    api,      \* what each request is doing, for which key, and its answer
    stage,    \* where each key's ProcessJobWorkflow is
    attempt,  \* failed attempts of that workflow's current activity
    result,   \* what its pipeline run reported
    runs,     \* how often run_pipeline_activity was run for the key
    late      \* operations whose caller stopped waiting and that may still land

vars == <<row, api, stage, attempt, result, runs, late>>
wfVars == <<stage, attempt, result, runs>>

-----------------------------------------------------------------------------
ACTIVE_JOB_STATUSES == {"queued", "running", "succeeded"}
RETRYABLE_DISPATCH_FAILURE_REASONS == {"dispatch_failed", "dispatch_timeout"}

\* "workflow" stands for every reason mark_failed_activity writes.
Reasons == RETRYABLE_DISPATCH_FAILURE_REASONS \union {"none", "workflow"}
Row == [status : ACTIVE_JOB_STATUSES \union {"absent", "failed"},
        reason : Reasons,
        old    : BOOLEAN]

Fresh(status, reason) == [status |-> status, reason |-> reason, old |-> FALSE]

ApiPcs == {"idle", "no_active", "requeue", "insert", "conflict",
           "dispatch", "starting", "accepted", "rejected"}
Answers == {"none", "reused", "dispatched", "error"}

MarkStages == {"mark_running", "mark_succeeded", "mark_failed", "mark_exception"}
Stages == MarkStages \union {"none", "pipeline", "digest", "closed"}
LateOps == MarkStages \union {"start"}

TypeOK ==
    /\ row \in [Keys -> Row]
    /\ api \in [Clients -> [pc : ApiPcs, key : Keys, answer : Answers]]
    /\ stage \in [Keys -> Stages]
    /\ attempt \in [Keys -> Nat]
    /\ result \in [Keys -> {"none", "ok", "failed"}]
    /\ runs \in [Keys -> Nat]
    /\ late \in SUBSET [key : Keys, op : LateOps]

Init ==
    /\ row = [k \in Keys |-> Fresh("absent", "none")]
    /\ \E k0 \in Keys :
          api = [c \in Clients |-> [pc |-> "idle", key |-> k0, answer |-> "none"]]
    /\ stage = [k \in Keys |-> "none"]
    /\ attempt = [k \in Keys |-> 0]
    /\ result = [k \in Keys |-> "none"]
    /\ runs = [k \in Keys |-> 0]
    /\ late = {}

-----------------------------------------------------------------------------
(***************************************************************************)
(* The API request: JobsRepository.create_or_reuse, then the dispatch.     *)
(* Every statement is its own step: the transactions are READ COMMITTED    *)
(* and the UPDATEs name the row by id alone.                               *)
(***************************************************************************)
RetryableFailure(k) ==
    /\ row[k].status = "failed"
    /\ row[k].reason \in RETRYABLE_DISPATCH_FAILURE_REASONS

Goto(c, pc) == api' = [api EXCEPT ![c].pc = pc]
Answer(c, answer) == api' = [api EXCEPT ![c].pc = "idle", ![c].answer = answer]

\* A new request looks for an active row of its key and reuses it.
LookupActive(c, k) ==
    /\ api[c].pc = "idle"
    /\ LET active == row[k].status \in ACTIVE_JOB_STATUSES
       IN  api' = [api EXCEPT ![c] =
                     [pc     |-> IF active THEN "idle" ELSE "no_active",
                      key    |-> k,
                      answer |-> IF active THEN "reused" ELSE "none"]]
    /\ UNCHANGED <<row, wfVars, late>>

\* The SELECT of requeue_retryable_dispatch_failure on the first pass.
FindRetryable(c) ==
    /\ api[c].pc = "no_active"
    /\ Goto(c, IF RetryableFailure(api[c].key) THEN "requeue" ELSE "insert")
    /\ UNCHANGED <<row, wfVars, late>>

\* Its UPDATE, by id: whatever the row has become since the SELECT.
Requeue(c) ==
    /\ api[c].pc = "requeue"
    /\ row' = [row EXCEPT ![api[c].key] = Fresh("queued", "none")]
    /\ Goto(c, "dispatch")
    /\ UNCHANGED <<wfVars, late>>

\* INSERT, or the unique index on idempotency_key refuses it.
Create(c) ==
    /\ api[c].pc = "insert"
    /\ IF row[api[c].key].status = "absent"
         THEN /\ row' = [row EXCEPT ![api[c].key] = Fresh("queued", "none")]
              /\ Goto(c, "dispatch")
         ELSE /\ Goto(c, "conflict")
              /\ UNCHANGED row
    /\ UNCHANGED <<wfVars, late>>

\* After the IntegrityError: requeue a dispatch failure, else reuse the row.
ResolveConflict(c) ==
    /\ api[c].pc = "conflict"
    /\ IF RetryableFailure(api[c].key) THEN Goto(c, "requeue") ELSE Answer(c, "reused")
    /\ UNCHANGED <<row, wfVars, late>>

\* Client.connect answers and start_workflow is sent.
Connect(c) ==
    /\ api[c].pc = "dispatch"
    /\ Goto(c, "starting")
    /\ UNCHANGED <<row, wfVars, late>>

\* mark_dispatch_failed: an unconditional write, then the request fails.
MarkDispatchFailed(c, reason) ==
    /\ row' = [row EXCEPT ![api[c].key] = Fresh("failed", reason)]
    /\ Answer(c, "error")

\* Mutant: the start allows a duplicate of a closed workflow id.
StartWorkflow_AllowDuplicate(k) ==
    IF stage[k] \in {"none", "closed"} THEN stage' = [stage EXCEPT ![k] = "mark_running"]
                                       ELSE UNCHANGED stage

\* Temporal carries out a start request: REJECT_DUPLICATE refuses an id that
\* has closed, USE_EXISTING answers with the run that is open.
StartWorkflow(k) ==
    IF stage[k] = "none" THEN stage' = [stage EXCEPT ![k] = "mark_running"]
                         ELSE UNCHANGED stage

TemporalStart(c) ==
    /\ api[c].pc = "starting"
    /\ StartWorkflow(api[c].key)
    /\ Goto(c, IF stage[api[c].key] = "closed" THEN "rejected" ELSE "accepted")
    /\ UNCHANGED <<row, attempt, result, runs, late>>

DispatchAccepted(c) ==
    /\ api[c].pc = "accepted"
    /\ Answer(c, "dispatched")
    /\ UNCHANGED <<row, wfVars, late>>

DispatchFailed(c) ==
    /\ \/ api[c].pc = "rejected"
       \/ api[c].pc = "starting" /\ "start_error" \in Faults
    /\ MarkDispatchFailed(c, "dispatch_failed")
    /\ UNCHANGED <<wfVars, late>>

\* The start request that is still under way when its caller stops waiting.
InFlight(c) ==
    IF api[c].pc = "starting" /\ "start_timeout" \in Faults
      THEN {[key |-> api[c].key, op |-> "start"]} ELSE {}

\* Mutant: a timed out start is taken for a dispatched job.
DispatchTimeout_Optimistic(c) ==
    /\ "start_timeout" \in Faults
    /\ api[c].pc \in {"starting", "accepted", "rejected"}
    /\ Answer(c, "dispatched")
    /\ late' = late \union InFlight(c)
    /\ UNCHANGED <<row, wfVars>>

DispatchTimeout(c) ==
    /\ "start_timeout" \in Faults
    /\ api[c].pc \in {"starting", "accepted", "rejected"}
    /\ \E reason \in RETRYABLE_DISPATCH_FAILURE_REASONS : MarkDispatchFailed(c, reason)
    /\ late' = late \union InFlight(c)
    /\ UNCHANGED wfVars

\* The request ends where it stands; the row keeps what was committed.
AbandonRequest(c) ==
    /\ "abandon" \in Faults
    /\ api[c].pc # "idle"
    /\ Answer(c, "error")
    /\ late' = late \union InFlight(c)
    /\ UNCHANGED <<row, wfVars>>

-----------------------------------------------------------------------------
(***************************************************************************)
(* ProcessJobWorkflow.  Its row-writing activities are guarded UPDATEs: a  *)
(* write that finds another status changes nothing and the attempt raises. *)
(***************************************************************************)
\* Mutants: the UPDATEs name the row by id alone; all of them want `queued`.
CanMark_Blind(op, k) == TRUE
CanMark_QueuedOnly(op, k) == row[k].status = "queued"

\* The WHERE clauses of mark_job_running and _mark_job_status.
CanMark(op, k) ==
    row[k].status \in (IF op = "mark_running" THEN {"queued"} ELSE {"queued", "running"})

\* Mutant: the pipeline's final status is written to the status column.
Marked_FinalStatus(op) ==
    Fresh(IF op = "mark_running" THEN "running" ELSE "degraded", "none")

Marked(op) ==
    CASE op = "mark_running"   -> Fresh("running", "none")
      [] op = "mark_succeeded" -> Fresh("succeeded", "none")
      [] OTHER                 -> Fresh("failed", "workflow")

Mark(op, k) ==
    IF CanMark(op, k) THEN row' = [row EXCEPT ![k] = Marked(op)] ELSE UNCHANGED row

\* maximum_attempts of each activity, and where the workflow goes from it.
MaxAttempts(op) == IF op \in {"mark_running", "mark_succeeded"} THEN 2 ELSE 1

AfterSuccess ==
    [mark_running |-> "pipeline", mark_succeeded |-> "digest",
     mark_failed  |-> "closed",   mark_exception |-> "closed"]

\* Mutant: a failing mark_failed is swallowed and the digest is sent.
AfterFailure_Swallowed ==
    [mark_running |-> "closed", mark_succeeded |-> "mark_exception",
     mark_failed  |-> "digest", mark_exception |-> "closed"]

\* mark_running is awaited outside the try block, mark_failed inside it.
AfterFailure ==
    [mark_running |-> "closed",         mark_succeeded |-> "mark_exception",
     mark_failed  |-> "mark_exception", mark_exception |-> "closed"]

MoveTo(k, s) ==
    /\ stage' = [stage EXCEPT ![k] = s]
    /\ attempt' = [attempt EXCEPT ![k] = 0]

AttemptFailed(op, k) ==
    IF attempt[k] + 1 < MaxAttempts(op)
      THEN attempt' = [attempt EXCEPT ![k] = @ + 1] /\ UNCHANGED stage
      ELSE MoveTo(k, AfterFailure[op])

\* One attempt of a mark_* activity, with every way it can end.
MarkActivity(op, k) ==
    /\ stage[k] = op
    /\ \/ /\ CanMark(op, k)
          /\ Mark(op, k)
          /\ MoveTo(k, AfterSuccess[op])
          /\ UNCHANGED late
       \/ /\ ~CanMark(op, k) \/ "activity_error" \in Faults
          /\ AttemptFailed(op, k)
          /\ UNCHANGED <<row, late>>
       \/ /\ "lost_completion" \in Faults
          /\ Mark(op, k)
          /\ AttemptFailed(op, k)
          /\ UNCHANGED late
       \/ /\ "activity_stall" \in Faults
          /\ AttemptFailed(op, k)
          /\ late' = late \union {[key |-> k, op |-> op]}
          /\ UNCHANGED row
    /\ UNCHANGED <<api, result, runs>>

MarkRunning(k)   == MarkActivity("mark_running", k)
MarkSucceeded(k) == MarkActivity("mark_succeeded", k)
MarkFailed(k)    == MarkActivity("mark_failed", k)
MarkException(k) == MarkActivity("mark_exception", k)

\* Mutant: the reported final status is not looked at.
RunPipeline_Unchecked(k) ==
    /\ stage[k] = "pipeline"
    /\ runs' = [runs EXCEPT ![k] = @ + 1]
    /\ \E r \in {"ok", "failed"} : result' = [result EXCEPT ![k] = r]
    /\ MoveTo(k, "mark_succeeded")
    /\ UNCHANGED <<row, api, late>>

\* run_pipeline_activity reports succeeded or degraded ("ok"), reports failed,
\* or raises: its one attempt may fail or exceed thirty minutes.
RunPipeline(k) ==
    /\ stage[k] = "pipeline"
    /\ runs' = [runs EXCEPT ![k] = @ + 1]
    /\ \/ /\ result' = [result EXCEPT ![k] = "ok"]
          /\ MoveTo(k, "mark_succeeded")
       \/ /\ result' = [result EXCEPT ![k] = "failed"]
          /\ MoveTo(k, "mark_failed")
       \/ /\ result' = [result EXCEPT ![k] = "failed"]
          /\ MoveTo(k, "mark_exception")
    /\ UNCHANGED <<row, api, late>>

\* send_video_digest_activity; an exception of it is swallowed.
SendDigest(k) ==
    /\ stage[k] = "digest"
    /\ MoveTo(k, "closed")
    /\ UNCHANGED <<row, api, result, runs, late>>

\* An operation nobody waits for any more is carried out.
LateArrival(m) ==
    /\ late' = late \ {m}
    /\ IF m.op = "start" THEN StartWorkflow(m.key) /\ UNCHANGED row
                         ELSE Mark(m.op, m.key) /\ UNCHANGED stage
    /\ UNCHANGED <<api, attempt, result, runs>>

-----------------------------------------------------------------------------
(***************************************************************************)
(* The worker's side jobs: reconcile_stale_queued_jobs_activity, which     *)
(* NotificationRetryWorkflow runs, and the operator's command line.        *)
(***************************************************************************)
\* Somebody is about to take the row from `queued`.
Dispatching(k) ==
    \/ stage[k] = "mark_running"
    \/ \E c \in Clients : api[c].pc # "idle" /\ api[c].key = k

\* queued_timeout_minutes pass without an update of the row.
BecomeStale(k) ==
    /\ row[k].status = "queued" /\ ~row[k].old
    /\ Dispatching(k) => "slow_start" \in Faults
    /\ row' = [row EXCEPT ![k].old = TRUE]
    /\ UNCHANGED <<api, wfVars, late>>

StaleQueued == {k \in Keys : row[k].status = "queued" /\ row[k].old}

\* Mutant: the limit is off by one.
FailStaleQueuedJobs_OffByOne(S) ==
    /\ S # {} /\ S \subseteq StaleQueued
    /\ Cardinality(S) < ReconcileLimit
    /\ row' = [k \in Keys |-> IF k \in S THEN Fresh("failed", "dispatch_timeout")
                                         ELSE row[k]]
    /\ UNCHANGED <<api, wfVars, late>>

\* One transaction fails the rows S: at most the limit, SKIP LOCKED.
FailStaleQueuedJobs(S) ==
    /\ S # {}
    /\ S \subseteq StaleQueued
    /\ Cardinality(S) <= ReconcileLimit
    /\ row' = [k \in Keys |-> IF k \in S THEN Fresh("failed", "dispatch_timeout")
                                         ELSE row[k]]
    /\ UNCHANGED <<api, wfVars, late>>

\* `worker.main start-process-workflow --job-id`, under the API's workflow id.
StartProcessWorkflow(k) ==
    /\ OperatorStarts
    /\ row[k].status # "absent"
    /\ StartWorkflow(k)
    /\ UNCHANGED <<row, api, attempt, result, runs, late>>

-----------------------------------------------------------------------------
RequestStep(c) ==
    \/ FindRetryable(c) \/ Requeue(c) \/ Create(c) \/ ResolveConflict(c)
    \/ Connect(c) \/ TemporalStart(c) \/ DispatchAccepted(c)
    \/ DispatchFailed(c) \/ DispatchTimeout(c) \/ AbandonRequest(c)

WorkflowStep(k) ==
    \/ MarkRunning(k) \/ RunPipeline(k) \/ MarkSucceeded(k)
    \/ MarkFailed(k) \/ MarkException(k) \/ SendDigest(k)

Next ==
    \/ \E c \in Clients, k \in Keys : LookupActive(c, k)
    \/ \E c \in Clients : RequestStep(c)
    \/ \E k \in Keys : WorkflowStep(k)
    \/ \E m \in late : LateArrival(m)
    \/ \E k \in Keys : BecomeStale(k)
    \/ \E S \in SUBSET Keys : FailStaleQueuedJobs(S)
    \/ \E k \in Keys : StartProcessWorkflow(k)

Spec == Init /\ [][Next]_vars

(***************************************************************************)
(* A request handler and a workflow run to their end, time passes, and the *)
(* resident NotificationRetryWorkflow reaches every stale row, oldest      *)
(* first.  Nothing makes a client ask, or a late operation land.           *)
(***************************************************************************)
Fairness ==
    /\ \A c \in Clients : WF_vars(RequestStep(c))
    /\ \A k \in Keys :
          /\ WF_vars(WorkflowStep(k))
          /\ WF_vars(BecomeStale(k))
          /\ WF_vars(\E S \in SUBSET Keys : k \in S /\ FailStaleQueuedJobs(S))

FairSpec == Spec /\ Fairness

-----------------------------------------------------------------------------
(***************************************************************************)
(* Properties                                                              *)
(***************************************************************************)
\* However often a request is repeated, times out, is requeued or arrives
\* late, the pipeline of a job runs at most once: the deterministic workflow
\* id with REJECT_DUPLICATE, and maximum_attempts=1, are what guarantees it.
PipelineRunsOnce == \A k \in Keys : runs[k] <= 1

\* A row says succeeded only if the job's own pipeline run reported success,
\* whatever stalled attempts and blind API writes did to the row meanwhile.
SucceededIsEarned ==
    \A k \in Keys : row[k].status = "succeeded" => result[k] = "ok"

\* A request that was answered with a workflow id has a workflow: the answer
\* never precedes the start it reports.
DispatchedMeansStarted ==
    \A c \in Clients : api[c].answer = "dispatched" => stage[api[c].key] # "none"

\* What the stage of a workflow tells about its run, and what makes the three
\* properties above inductive: the pipeline has not run before its stage is
\* left, it reported success where success is about to be written, also by a
\* stalled attempt, and an accepted start request has started a workflow.
StageTellsResult ==
    /\ \A k \in Keys :
          /\ stage[k] \in {"none", "mark_running", "pipeline"}
                => runs[k] = 0 /\ result[k] = "none"
          /\ stage[k] \in {"mark_succeeded", "digest"} => result[k] = "ok"
    /\ \A m \in late : m.op = "mark_succeeded" => result[m.key] = "ok"
    /\ \A c \in Clients : api[c].pc = "accepted" => stage[api[c].key] # "none"

\* A running row has a workflow that is past mark_running and has not ended:
\* nothing else would ever move it (the reconciler looks at queued rows only).
RunningIsOwned ==
    \A k \in Keys : row[k].status = "running" =>
        stage[k] \in {"pipeline", "mark_succeeded", "mark_failed", "mark_exception"}

\* The documented status machine: what this module implements as long as one
\* request at a time deals with a key and every start request is answered.
DocState ==
    [k \in Keys |-> IF RetryableFailure(k) THEN "undispatched" ELSE row[k].status]
StatusMachine == INSTANCE JobStatusMachine WITH Jobs <- Keys, state <- DocState
FollowsStatusMachine == StatusMachine!Spec

\* docs/state-machine.md: no edge leaves `succeeded`.
SucceededIsFinal ==
    [][\A k \in Keys : row[k].status = "succeeded" => row'[k].status = "succeeded"]_vars

\* Every job that is queued or running reaches a terminal status.
JobConverges ==
    \A k \in Keys : row[k].status \in {"queued", "running"}
                       ~> row[k].status \in {"succeeded", "failed"}
=============================================================================
