------------------------ MODULE JobLifecycle_proofs ------------------------
(***************************************************************************)
(* Theorems about JobLifecycle for any keys, clients and faults.           *)
(***************************************************************************)
EXTENDS JobLifecycle, TLAPS

-----------------------------------------------------------------------------
(***************************************************************************)
(* Type correctness.                                                       *)
(***************************************************************************)
Statuses == ACTIVE_JOB_STATUSES \union {"absent", "failed"}

\* A row written by any of the UPDATEs is a row.
LEMMA FreshIsRow ==
  ASSUME NEW s \in Statuses, NEW r \in Reasons
  PROVE  Fresh(s, r) \in Row
  BY DEF Fresh, Row, Statuses

LEMMA RequestType ==
  ASSUME TypeOK, NEW c \in Clients, RequestStep(c)
  PROVE  TypeOK'
<1>1. api[c].pc \in ApiPcs /\ api[c].key \in Keys
  BY DEF TypeOK
<1>2. ASSUME NEW pc \in ApiPcs, Goto(c, pc)
      PROVE  api' \in [Clients -> [pc : ApiPcs, key : Keys, answer : Answers]]
  BY <1>2 DEF TypeOK, Goto
<1>3. ASSUME NEW a \in Answers, Answer(c, a)
      PROVE  api' \in [Clients -> [pc : ApiPcs, key : Keys, answer : Answers]]
  BY <1>3 DEF TypeOK, Answer, ApiPcs
<1>4. ASSUME NEW s \in Statuses, NEW r \in Reasons,
             row' = [row EXCEPT ![api[c].key] = Fresh(s, r)]
      PROVE  row' \in [Keys -> Row]
  BY <1>1, <1>4, FreshIsRow DEF TypeOK
<1>5. "error" \in Answers /\ "reused" \in Answers /\ "dispatched" \in Answers
  BY DEF Answers
<1>6. {"requeue", "insert", "dispatch", "conflict", "starting", "accepted",
       "rejected"} \subseteq ApiPcs
  BY DEF ApiPcs
<1>7. {"queued", "failed"} \subseteq Statuses /\ "none" \in Reasons
      /\ RETRYABLE_DISPATCH_FAILURE_REASONS \subseteq Reasons
  BY DEF Statuses, ACTIVE_JOB_STATUSES, Reasons
<1>8. late \union InFlight(c) \in SUBSET [key : Keys, op : LateOps]
  BY <1>1 DEF TypeOK, InFlight, LateOps
<1>a. CASE FindRetryable(c)
  BY <1>a, <1>2, <1>6 DEF FindRetryable, TypeOK, wfVars
<1>b. CASE Requeue(c)
  BY <1>b, <1>2, <1>4, <1>6, <1>7 DEF Requeue, TypeOK, wfVars
<1>c. CASE Create(c)
  <2>1. row' \in [Keys -> Row]
    BY <1>c, <1>4, <1>7 DEF Create, TypeOK
  <2>2. api' \in [Clients -> [pc : ApiPcs, key : Keys, answer : Answers]]
    BY <1>c, <1>2, <1>6 DEF Create
  <2> QED
    BY <1>c, <2>1, <2>2 DEF Create, TypeOK, wfVars
<1>d. CASE ResolveConflict(c)
  <2>1. api' \in [Clients -> [pc : ApiPcs, key : Keys, answer : Answers]]
    BY <1>d, <1>2, <1>3, <1>5, <1>6 DEF ResolveConflict
  <2> QED
    BY <1>d, <2>1 DEF ResolveConflict, TypeOK, wfVars
<1>e. CASE Connect(c)
  BY <1>e, <1>2, <1>6 DEF Connect, TypeOK, wfVars
<1>f. CASE TemporalStart(c)
  <2>1. stage' \in [Keys -> Stages]
    BY <1>f, <1>1 DEF TemporalStart, StartWorkflow, TypeOK, Stages, MarkStages
  <2> QED
    BY <1>f, <2>1, <1>2, <1>6 DEF TemporalStart, TypeOK
<1>g. CASE DispatchAccepted(c)
  BY <1>g, <1>3, <1>5 DEF DispatchAccepted, TypeOK, wfVars
<1>h. CASE DispatchFailed(c)
  <2>1. row' \in [Keys -> Row]
    BY <1>h, <1>4, <1>7 DEF DispatchFailed, MarkDispatchFailed,
                            RETRYABLE_DISPATCH_FAILURE_REASONS
  <2> QED
    BY <1>h, <2>1, <1>3, <1>5 DEF DispatchFailed, MarkDispatchFailed, TypeOK, wfVars
<1>i. CASE DispatchTimeout(c)
  <2>1. row' \in [Keys -> Row]
    BY <1>i, <1>4, <1>7 DEF DispatchTimeout, MarkDispatchFailed
  <2> QED
    BY <1>i, <2>1, <1>3, <1>5, <1>8
       DEF DispatchTimeout, MarkDispatchFailed, TypeOK, wfVars
<1>j. CASE AbandonRequest(c)
  BY <1>j, <1>3, <1>5, <1>8 DEF AbandonRequest, TypeOK, wfVars
<1> QED
  BY <1>a, <1>b, <1>c, <1>d, <1>e, <1>f, <1>g, <1>h, <1>i, <1>j DEF RequestStep

\* What an attempt does to the stage and the attempt counter of its workflow.
LEMMA AttemptType ==
  ASSUME TypeOK, NEW k \in Keys, NEW op \in MarkStages,
         AttemptFailed(op, k) \/ MoveTo(k, AfterSuccess[op])
  PROVE  stage' \in [Keys -> Stages] /\ attempt' \in [Keys -> Nat]
<1>1. AfterSuccess[op] \in Stages /\ AfterFailure[op] \in Stages
  BY DEF AfterSuccess, AfterFailure, Stages, MarkStages
<1>2. ASSUME NEW s \in Stages, MoveTo(k, s)
      PROVE  stage' \in [Keys -> Stages] /\ attempt' \in [Keys -> Nat]
  BY <1>2 DEF MoveTo, TypeOK
<1> QED
  BY <1>1, <1>2 DEF AttemptFailed, TypeOK

\* A guarded UPDATE writes a row, or nothing.
LEMMA MarkType ==
  ASSUME TypeOK, NEW k \in Keys, NEW op \in MarkStages, Mark(op, k)
  PROVE  row' \in [Keys -> Row]
<1>1. Marked(op) \in Row
  BY FreshIsRow DEF Marked, MarkStages, Statuses, ACTIVE_JOB_STATUSES, Reasons
<1> QED
  BY <1>1 DEF Mark, TypeOK

LEMMA MarkActivityType ==
  ASSUME TypeOK, NEW k \in Keys, NEW op \in MarkStages, MarkActivity(op, k)
  PROVE  TypeOK'
<1>1. row' \in [Keys -> Row]
  BY MarkType DEF MarkActivity, TypeOK
<1>2. stage' \in [Keys -> Stages] /\ attempt' \in [Keys -> Nat]
  BY AttemptType DEF MarkActivity
<1>3. late' \in SUBSET [key : Keys, op : LateOps]
  BY DEF MarkActivity, TypeOK, LateOps
<1> QED
  BY <1>1, <1>2, <1>3 DEF MarkActivity, TypeOK

LEMMA WorkflowType ==
  ASSUME TypeOK, NEW k \in Keys, WorkflowStep(k)
  PROVE  TypeOK'
<1>1. CASE RunPipeline(k)
  BY <1>1 DEF RunPipeline, MoveTo, TypeOK, Stages, MarkStages
<1>2. CASE SendDigest(k)
  BY <1>2 DEF SendDigest, MoveTo, TypeOK, Stages, MarkStages
<1>3. ASSUME NEW op \in MarkStages, MarkActivity(op, k)
      PROVE  TypeOK'
  BY <1>3, MarkActivityType
<1> QED
  BY <1>1, <1>2, <1>3 DEF WorkflowStep, MarkRunning, MarkSucceeded, MarkFailed,
                          MarkException, MarkStages

\* Every variable keeps its type.
THEOREM TypeCorrect == Spec => []TypeOK
<1>1. Init => TypeOK
  BY FreshIsRow DEF Init, TypeOK, Statuses, Reasons, ApiPcs, Answers, Stages
<1>2. TypeOK /\ [Next]_vars => TypeOK'
  <2> SUFFICES ASSUME TypeOK, [Next]_vars
               PROVE  TypeOK'
    OBVIOUS
  <2>1. ASSUME NEW c \in Clients, NEW k \in Keys, LookupActive(c, k)
        PROVE  TypeOK'
    BY <2>1 DEF LookupActive, TypeOK, ApiPcs, Answers, wfVars
  <2>2. ASSUME NEW m \in late, LateArrival(m)
        PROVE  TypeOK'
    <3>1. m.key \in Keys /\ m.op \in LateOps
      BY DEF TypeOK
    <3>2. row' \in [Keys -> Row]
      BY <2>2, <3>1, MarkType DEF LateArrival, TypeOK, LateOps
    <3>3. stage' \in [Keys -> Stages]
      BY <2>2, <3>1 DEF LateArrival, StartWorkflow, TypeOK, Stages, MarkStages
    <3> QED
      BY <2>2, <3>2, <3>3 DEF LateArrival, TypeOK
  <2>3. ASSUME NEW k \in Keys, BecomeStale(k)
        PROVE  TypeOK'
    BY <2>3 DEF BecomeStale, TypeOK, Row, wfVars
  <2>4. ASSUME NEW S \in SUBSET Keys, FailStaleQueuedJobs(S)
        PROVE  TypeOK'
    <3>1. Fresh("failed", "dispatch_timeout") \in Row
      BY FreshIsRow DEF Statuses, Reasons, RETRYABLE_DISPATCH_FAILURE_REASONS
    <3> QED
      BY <2>4, <3>1 DEF FailStaleQueuedJobs, TypeOK, wfVars
  <2>5. ASSUME NEW k \in Keys, StartProcessWorkflow(k)
        PROVE  TypeOK'
    BY <2>5 DEF StartProcessWorkflow, StartWorkflow, TypeOK, Stages, MarkStages
  <2>6. CASE UNCHANGED vars
    BY <2>6 DEF vars, TypeOK
  <2> QED
    BY <2>1, <2>2, <2>3, <2>4, <2>5, <2>6, RequestType, WorkflowType DEF Next
<1> QED
  BY <1>1, <1>2, PTL DEF Spec

-----------------------------------------------------------------------------
(***************************************************************************)
(* The safety invariants.  Together with StageTellsResult they are         *)
(* inductive: every step either leaves the workflow's part alone or moves  *)
(* one workflow along its stages.                                          *)
(***************************************************************************)
Safety ==
    /\ PipelineRunsOnce
    /\ SucceededIsEarned
    /\ DispatchedMeansStarted
    /\ StageTellsResult

IInv == TypeOK /\ Safety

\* A step that makes no row running or succeeded.
MakesNoneActive ==
    \A k \in Keys : row'[k].status \in {"running", "succeeded"}
                       => row'[k].status = row[k].status

\* What every step outside a workflow keeps: no run, no result, no late
\* activity; a stage changes only from "none" to "mark_running".
Outside ==
    /\ runs' = runs /\ result' = result
    /\ \A k \in Keys : stage'[k] = stage[k]
                          \/ (stage[k] = "none" /\ stage'[k] = "mark_running")
    /\ MakesNoneActive
    /\ \A m \in late' : m \in late \/ m.op = "start"

\* What such a step must show of the request it moves, if it moves one.
ApiKept ==
    \A c \in Clients :
        api'[c].pc = "accepted" \/ api'[c].answer = "dispatched"
            => stage'[api'[c].key] # "none"

LEMMA OutsideKeepsSafety ==
  ASSUME IInv, TypeOK', Outside, ApiKept
  PROVE  Safety'
  BY DEF IInv, Safety, Outside, MakesNoneActive, ApiKept, TypeOK, PipelineRunsOnce,
         SucceededIsEarned, DispatchedMeansStarted, StageTellsResult

\* A step that leaves the requests alone keeps what they were told.
LEMMA ApiUnchanged ==
  ASSUME IInv, TypeOK', api' = api,
         \A k \in Keys : stage'[k] = "none" => stage[k] = "none"
  PROVE  ApiKept
  BY DEF IInv, Safety, ApiKept, TypeOK, DispatchedMeansStarted, StageTellsResult

LEMMA StartWorkflowStage ==
  ASSUME TypeOK, NEW k \in Keys, StartWorkflow(k)
  PROVE  /\ \A j \in Keys : stage'[j] = stage[j]
                               \/ (stage[j] = "none" /\ stage'[j] = "mark_running")
         /\ stage'[k] # "none"
  BY DEF StartWorkflow, TypeOK

LEMMA RequestOutside ==
  ASSUME TypeOK, NEW c \in Clients, RequestStep(c)
  PROVE  Outside
<1> USE DEF Outside, wfVars
<1>1. api[c].key \in Keys
  BY DEF TypeOK
<1>2. ASSUME NEW s \in {"queued", "failed"}, NEW r \in Reasons,
             row' = [row EXCEPT ![api[c].key] = Fresh(s, r)]
      PROVE  MakesNoneActive
  BY <1>1, <1>2 DEF TypeOK, Fresh, MakesNoneActive
<1>3. "none" \in Reasons /\ RETRYABLE_DISPATCH_FAILURE_REASONS \subseteq Reasons
      /\ "dispatch_failed" \in RETRYABLE_DISPATCH_FAILURE_REASONS
  BY DEF Reasons, RETRYABLE_DISPATCH_FAILURE_REASONS
<1>4. \A m \in late \union InFlight(c) : m \in late \/ m.op = "start"
  BY DEF InFlight
<1>a. CASE FindRetryable(c)
  BY <1>a DEF FindRetryable, MakesNoneActive
<1>b. CASE Requeue(c)
  BY <1>b, <1>2, <1>3 DEF Requeue
<1>c. CASE Create(c)
  <2>1. MakesNoneActive
    BY <1>c, <1>2, <1>3 DEF Create, MakesNoneActive
  <2> QED
    BY <1>c, <2>1 DEF Create
<1>d. CASE ResolveConflict(c)
  BY <1>d DEF ResolveConflict, MakesNoneActive
<1>e. CASE Connect(c)
  BY <1>e DEF Connect, MakesNoneActive
<1>f. CASE TemporalStart(c)
  BY <1>f, <1>1, StartWorkflowStage DEF TemporalStart, MakesNoneActive
<1>g. CASE DispatchAccepted(c)
  BY <1>g DEF DispatchAccepted, MakesNoneActive
<1>h. CASE DispatchFailed(c)
  BY <1>h, <1>2, <1>3 DEF DispatchFailed, MarkDispatchFailed
<1>i. CASE DispatchTimeout(c)
  <2>1. MakesNoneActive
    BY <1>i, <1>2, <1>3 DEF DispatchTimeout, MarkDispatchFailed
  <2> QED
    BY <1>i, <2>1, <1>4 DEF DispatchTimeout
<1>j. CASE AbandonRequest(c)
  BY <1>j, <1>4 DEF AbandonRequest, MakesNoneActive
<1> QED
  BY <1>a, <1>b, <1>c, <1>d, <1>e, <1>f, <1>g, <1>h, <1>i, <1>j DEF RequestStep

\* A request is told "dispatched" only from "accepted", and enters that only
\* when Temporal has carried out its start.
LEMMA RequestApi ==
  ASSUME IInv, TypeOK', NEW c \in Clients, RequestStep(c)
  PROVE  ApiKept
<1>1. Outside
  BY RequestOutside DEF IInv
<1>2. \A d \in Clients : d # c => api'[d] = api[d]
  BY DEF IInv, TypeOK, RequestStep, FindRetryable, Requeue, Create,
         ResolveConflict, Connect, TemporalStart, DispatchAccepted,
         DispatchFailed, DispatchTimeout, AbandonRequest, MarkDispatchFailed,
         Goto, Answer
<1>3. api'[c].key = api[c].key /\ api[c].key \in Keys
  BY DEF IInv, TypeOK, RequestStep, FindRetryable, Requeue, Create,
         ResolveConflict, Connect, TemporalStart, DispatchAccepted,
         DispatchFailed, DispatchTimeout, AbandonRequest, MarkDispatchFailed,
         Goto, Answer
<1>4. \A k \in Keys : stage'[k] = "none" => stage[k] = "none"
  BY <1>1 DEF Outside
<1>5. api'[c].pc = "accepted" => stage'[api'[c].key] # "none"
  <2>1. CASE TemporalStart(c)
    BY <2>1, <1>3, StartWorkflowStage DEF TemporalStart, IInv
  <2>2. CASE ~TemporalStart(c)
    BY <2>2 DEF IInv, TypeOK, RequestStep, FindRetryable, Requeue, Create,
         ResolveConflict, Connect, DispatchAccepted, DispatchFailed,
         DispatchTimeout, AbandonRequest, MarkDispatchFailed, Goto, Answer
  <2> QED
    BY <2>1, <2>2
<1>6. api'[c].answer = "dispatched"
         => api[c].answer = "dispatched" \/ api[c].pc = "accepted"
  BY DEF IInv, TypeOK, RequestStep, FindRetryable, Requeue, Create,
         ResolveConflict, Connect, TemporalStart, DispatchAccepted,
         DispatchFailed, DispatchTimeout, AbandonRequest, MarkDispatchFailed,
         Goto, Answer
<1>7. \A d \in Clients : api[d].key \in Keys /\
         (api[d].pc = "accepted" \/ api[d].answer = "dispatched"
            => stage[api[d].key] # "none")
  BY DEF IInv, TypeOK, Safety, StageTellsResult, DispatchedMeansStarted
<1> QED
  BY <1>2, <1>3, <1>4, <1>5, <1>6, <1>7 DEF ApiKept

\* A workflow leaves its stages in one direction: no attempt leads back to a
\* stage before the pipeline, and none leads to success without the result.
LEMMA MarkStagesForward ==
  ASSUME TypeOK, NEW k \in Keys, NEW op \in MarkStages, stage[k] = op,
         AttemptFailed(op, k) \/ MoveTo(k, AfterSuccess[op])
  PROVE  /\ \A j \in Keys : j # k => stage'[j] = stage[j]
         /\ \/ stage'[k] = op
            \/ op = "mark_running" /\ stage'[k] \in {"pipeline", "closed"}
            \/ op = "mark_succeeded" /\ stage'[k] \in {"digest", "mark_exception"}
            \/ op \in {"mark_failed", "mark_exception"}
                 /\ stage'[k] \in {"mark_exception", "closed"}
  BY DEF AttemptFailed, MoveTo, AfterSuccess, AfterFailure, MarkStages, TypeOK

LEMMA MarkActivitySafety ==
  ASSUME IInv, TypeOK', NEW k \in Keys, NEW op \in MarkStages, MarkActivity(op, k)
  PROVE  Safety'
<1>1. /\ api' = api /\ result' = result /\ runs' = runs /\ stage[k] = op
      /\ AttemptFailed(op, k) \/ MoveTo(k, AfterSuccess[op])
      /\ row' = row \/ Mark(op, k)
      /\ \A m \in late' : m \in late \/ m = [key |-> k, op |-> op]
  BY DEF MarkActivity
<1>2. /\ \A j \in Keys : j # k => stage'[j] = stage[j]
      /\ \/ stage'[k] = op
         \/ op = "mark_running" /\ stage'[k] \in {"pipeline", "closed"}
         \/ op = "mark_succeeded" /\ stage'[k] \in {"digest", "mark_exception"}
         \/ op \in {"mark_failed", "mark_exception"}
              /\ stage'[k] \in {"mark_exception", "closed"}
  BY <1>1, MarkStagesForward DEF IInv
<1>3. \A j \in Keys : row'[j].status = "succeeded"
                        => row[j].status = "succeeded" \/ (j = k /\ op = "mark_succeeded")
  BY <1>1 DEF Mark, Marked, Fresh, MarkStages, IInv, TypeOK
<1>4. op = "mark_succeeded" => result[k] = "ok"
  BY <1>1 DEF IInv, Safety, StageTellsResult
<1>5. PipelineRunsOnce' /\ SucceededIsEarned'
  BY <1>1, <1>3, <1>4 DEF IInv, Safety, PipelineRunsOnce, SucceededIsEarned
<1>6. \A j \in Keys : stage'[j] = "none" => stage[j] = "none"
  BY <1>1, <1>2 DEF MarkStages
<1>7. ApiKept
  BY <1>1, <1>6, ApiUnchanged
<1>8. \A m \in late' : m.op = "mark_succeeded" => result[m.key] = "ok"
  BY <1>1, <1>4 DEF IInv, Safety, StageTellsResult
<1>9. \A j \in Keys :
        /\ stage'[j] \in {"none", "mark_running", "pipeline"}
             => runs[j] = 0 /\ result[j] = "none"
        /\ stage'[j] \in {"mark_succeeded", "digest"} => result[j] = "ok"
  BY <1>1, <1>2, <1>4 DEF IInv, Safety, StageTellsResult, MarkStages
<1> QED
  BY <1>1, <1>5, <1>7, <1>8, <1>9
     DEF Safety, ApiKept, DispatchedMeansStarted, StageTellsResult

LEMMA WorkflowSafety ==
  ASSUME IInv, TypeOK', NEW k \in Keys, WorkflowStep(k)
  PROVE  Safety'
<1>1. CASE RunPipeline(k)
  <2>1. stage[k] = "pipeline" /\ runs[k] = 0 /\ result[k] = "none"
        /\ row[k].status # "succeeded"
    BY <1>1 DEF RunPipeline, IInv, Safety, StageTellsResult, SucceededIsEarned
  <2>2. \A j \in Keys : j # k => stage'[j] = stage[j] /\ runs'[j] = runs[j]
                                   /\ result'[j] = result[j]
    BY <1>1 DEF RunPipeline, MoveTo, IInv, TypeOK
  <2>3. /\ runs'[k] = 1
        /\ stage'[k] \in {"mark_succeeded", "mark_failed", "mark_exception"}
        /\ stage'[k] = "mark_succeeded" => result'[k] = "ok"
    BY <1>1, <2>1 DEF RunPipeline, MoveTo, IInv, TypeOK
  <2>4. api' = api /\ row' = row /\ late' = late
    BY <1>1 DEF RunPipeline
  <2>5. ApiKept
    BY <2>2, <2>3, <2>4, ApiUnchanged
  <2>6. PipelineRunsOnce' /\ SucceededIsEarned'
    BY <2>1, <2>2, <2>3, <2>4 DEF IInv, Safety, PipelineRunsOnce, SucceededIsEarned
  <2>7. \A m \in late : m.key \in Keys
                          /\ (m.op = "mark_succeeded" => result'[m.key] = "ok")
    BY <2>1, <2>2 DEF IInv, TypeOK, Safety, StageTellsResult
  <2>8. StageTellsResult'
    BY <2>2, <2>3, <2>4, <2>5, <2>7 DEF ApiKept, IInv, Safety, StageTellsResult
  <2> QED
    BY <2>5, <2>6, <2>8 DEF Safety, ApiKept, DispatchedMeansStarted
<1>2. CASE SendDigest(k)
  <2>1. /\ api' = api /\ row' = row /\ late' = late
        /\ runs' = runs /\ result' = result
        /\ stage' = [stage EXCEPT ![k] = "closed"]
    BY <1>2 DEF SendDigest, MoveTo
  <2>2. ApiKept
    BY <2>1, ApiUnchanged DEF IInv, TypeOK
  <2> QED
    BY <2>1, <2>2 DEF IInv, TypeOK, Safety, ApiKept, PipelineRunsOnce,
                      SucceededIsEarned, DispatchedMeansStarted, StageTellsResult
<1>3. ASSUME NEW op \in MarkStages, MarkActivity(op, k)
      PROVE  Safety'
  BY <1>3, MarkActivitySafety
<1> QED
  BY <1>1, <1>2, <1>3 DEF WorkflowStep, MarkRunning, MarkSucceeded, MarkFailed,
                          MarkException, MarkStages

LEMMA LateSafety ==
  ASSUME IInv, TypeOK', NEW m \in late, LateArrival(m)
  PROVE  Safety'
<1>1. m.key \in Keys /\ m.op \in LateOps
  BY DEF IInv, TypeOK
<1>2. CASE m.op = "start"
  <2>1. Outside /\ api' = api
    BY <1>1, <1>2, StartWorkflowStage DEF LateArrival, Outside, MakesNoneActive, IInv
  <2> QED
    BY <2>1, ApiUnchanged, OutsideKeepsSafety DEF Outside
<1>3. CASE m.op \in MarkStages
  <2>1. /\ api' = api /\ stage' = stage /\ runs' = runs /\ result' = result
        /\ Mark(m.op, m.key) /\ late' = late \ {m}
    BY <1>3 DEF LateArrival, MarkStages
  <2>2. SucceededIsEarned'
    BY <1>1, <2>1 DEF Mark, Marked, Fresh, IInv, TypeOK, Safety,
                      StageTellsResult, SucceededIsEarned
  <2> QED
    BY <2>1, <2>2 DEF IInv, Safety, PipelineRunsOnce, DispatchedMeansStarted,
                      StageTellsResult
<1> QED
  BY <1>1, <1>2, <1>3 DEF LateOps

\* The steps that are neither a request under way nor a workflow's.
LEMMA SideOutside ==
  ASSUME TypeOK
  PROVE  /\ \A c \in Clients, k \in Keys : LookupActive(c, k) => Outside
         /\ \A k \in Keys : BecomeStale(k) => Outside
         /\ \A S \in SUBSET Keys : FailStaleQueuedJobs(S) => Outside
         /\ \A k \in Keys : StartProcessWorkflow(k) => Outside
<1> USE DEF Outside, MakesNoneActive, wfVars
<1>1. ASSUME NEW c \in Clients, NEW k \in Keys, LookupActive(c, k)
      PROVE  Outside
  BY <1>1 DEF LookupActive
<1>2. ASSUME NEW k \in Keys, BecomeStale(k)
      PROVE  Outside
  BY <1>2 DEF BecomeStale, TypeOK, Row
<1>3. ASSUME NEW S \in SUBSET Keys, FailStaleQueuedJobs(S)
      PROVE  Outside
  BY <1>3 DEF FailStaleQueuedJobs, Fresh
<1>4. ASSUME NEW k \in Keys, StartProcessWorkflow(k)
      PROVE  Outside
  BY <1>4, StartWorkflowStage DEF StartProcessWorkflow
<1> QED
  BY <1>1, <1>2, <1>3, <1>4

LEMMA StepSafety ==
  ASSUME IInv, TypeOK', [Next]_vars
  PROVE  Safety'
<1>1. ASSUME NEW c \in Clients, NEW k \in Keys, LookupActive(c, k)
      PROVE  Safety'
  <2>1. Outside
    BY <1>1, SideOutside DEF IInv
  <2>2. ApiKept
    BY <1>1 DEF LookupActive, ApiKept, IInv, TypeOK, Safety, wfVars,
                DispatchedMeansStarted, StageTellsResult
  <2> QED
    BY <2>1, <2>2, OutsideKeepsSafety
<1>2. ASSUME NEW c \in Clients, RequestStep(c)
      PROVE  Safety'
  BY <1>2, RequestOutside, RequestApi, OutsideKeepsSafety DEF IInv
<1>3. ASSUME Outside, api' = api
      PROVE  Safety'
  BY <1>3, ApiUnchanged, OutsideKeepsSafety DEF Outside
<1>4. ASSUME NEW k \in Keys, BecomeStale(k) \/ StartProcessWorkflow(k)
      PROVE  Safety'
  BY <1>3, <1>4, SideOutside DEF BecomeStale, StartProcessWorkflow, IInv
<1>5. ASSUME NEW S \in SUBSET Keys, FailStaleQueuedJobs(S)
      PROVE  Safety'
  BY <1>3, <1>5, SideOutside DEF FailStaleQueuedJobs, IInv
<1>6. CASE UNCHANGED vars
  BY <1>6 DEF vars, IInv, Safety, PipelineRunsOnce, SucceededIsEarned,
              DispatchedMeansStarted, StageTellsResult
<1> QED
  BY <1>1, <1>2, <1>4, <1>5, <1>6, WorkflowSafety, LateSafety DEF Next

LEMMA Inductive == Spec => []IInv
<1>1. Init => Safety
  BY DEF Init, Safety, PipelineRunsOnce, SucceededIsEarned,
         DispatchedMeansStarted, StageTellsResult, Fresh
<1>2. IInv /\ TypeOK' /\ [Next]_vars => Safety'
  BY StepSafety
<1> QED
  BY <1>1, <1>2, TypeCorrect, PTL DEF Spec, IInv

\* No interleaving of requests, retries, timeouts and late arrivals makes the
\* pipeline of a job run twice.
THEOREM RunsOnce == Spec => []PipelineRunsOnce
<1>1. IInv => PipelineRunsOnce
  BY DEF IInv, Safety
<1> QED
  BY <1>1, Inductive, PTL

\* A row never says succeeded unless its own pipeline reported success.
THEOREM SuccessIsEarned == Spec => []SucceededIsEarned
<1>1. IInv => SucceededIsEarned
  BY DEF IInv, Safety
<1> QED
  BY <1>1, Inductive, PTL

\* An answer that names a workflow is never given before the workflow exists.
THEOREM DispatchIsHonest == Spec => []DispatchedMeansStarted
<1>1. IInv => DispatchedMeansStarted
  BY DEF IInv, Safety
<1> QED
  BY <1>1, Inductive, PTL

\* A workflow is nowhere in ProcessJobWorkflow.run that its pipeline's report does not explain.
THEOREM StagesTellResults == Spec => []StageTellsResult
<1>1. IInv => StageTellsResult
  BY DEF IInv, Safety
<1> QED
  BY <1>1, Inductive, PTL

-----------------------------------------------------------------------------
(***************************************************************************)
(* Running rows.  A lost or late write may leave one without a workflow    *)
(* (mark_running commits and its completion is lost); without such writes  *)
(* no row is orphaned, whatever requests, operators and the reconciler do. *)
(***************************************************************************)
WritesAreAnswered ==
    Faults \intersect {"activity_error", "lost_completion", "activity_stall"} = {}

OwnedInv ==
    /\ RunningIsOwned
    /\ \A m \in late : m.op = "start"

LEMMA MarkActivityOwned ==
  ASSUME WritesAreAnswered, TypeOK, OwnedInv,
         NEW k \in Keys, NEW op \in MarkStages, MarkActivity(op, k)
  PROVE  OwnedInv'
<1>0. \A f \in {"activity_error", "lost_completion", "activity_stall"} : f \notin Faults
  BY DEF WritesAreAnswered
<1>1. late' = late /\ stage[k] = op
  BY <1>0 DEF MarkActivity
<1>2. \A j \in Keys : j # k => stage'[j] = stage[j] /\ row'[j] = row[j]
  BY DEF MarkActivity, Mark, AttemptFailed, MoveTo, TypeOK
<1>3. CASE CanMark(op, k) /\ Mark(op, k) /\ MoveTo(k, AfterSuccess[op])
  <2>1. row'[k].status = "running" => op = "mark_running"
    BY <1>3 DEF Mark, Marked, Fresh, MarkStages, TypeOK
  <2>2. op = "mark_running" => stage'[k] = "pipeline"
    BY <1>3 DEF MoveTo, AfterSuccess, TypeOK
  <2> QED
    BY <1>1, <1>2, <2>1, <2>2 DEF OwnedInv, RunningIsOwned
<1>4. CASE ~CanMark(op, k) /\ row' = row /\ AttemptFailed(op, k)
  <2>1. op # "mark_running" => row'[k].status # "running"
    BY <1>4 DEF CanMark, MarkStages
  <2>2. op = "mark_running" => row'[k].status # "running"
    BY <1>1, <1>4 DEF OwnedInv, RunningIsOwned
  <2> QED
    BY <1>1, <1>2, <2>1, <2>2 DEF OwnedInv, RunningIsOwned
<1> QED
  BY <1>0, <1>3, <1>4 DEF MarkActivity

\* A step outside the workflows is harmless.
LEMMA OutsideOwned ==
  ASSUME OwnedInv, Outside
  PROVE  OwnedInv'
  BY DEF OwnedInv, RunningIsOwned, Outside, MakesNoneActive

\* As long as every write of an activity is answered, a running row has a
\* workflow that will move it: no interleaving of requests, reconciler and
\* operators orphans it.
THEOREM RunningOwned == WritesAreAnswered => (Spec => []RunningIsOwned)
<1> SUFFICES ASSUME WritesAreAnswered
             PROVE  Spec => []RunningIsOwned
  OBVIOUS
<1>1. Init => OwnedInv
  BY DEF Init, OwnedInv, RunningIsOwned, Fresh
<1>2. TypeOK /\ OwnedInv /\ [Next]_vars => OwnedInv'
  <2> SUFFICES ASSUME TypeOK, OwnedInv, [Next]_vars
               PROVE  OwnedInv'
    OBVIOUS
  <2>1. CASE Outside
    BY <2>1, OutsideOwned
  <2>2. ASSUME NEW k \in Keys, WorkflowStep(k)
        PROVE  OwnedInv'
    <3>1. CASE RunPipeline(k)
      BY <3>1 DEF RunPipeline, MoveTo, TypeOK, OwnedInv, RunningIsOwned
    <3>2. CASE SendDigest(k)
      BY <3>2 DEF SendDigest, MoveTo, TypeOK, OwnedInv, RunningIsOwned
    <3>3. ASSUME NEW op \in MarkStages, MarkActivity(op, k)
          PROVE  OwnedInv'
      BY <3>3, MarkActivityOwned
    <3> QED
      BY <2>2, <3>1, <3>2, <3>3 DEF WorkflowStep, MarkRunning, MarkSucceeded,
                                    MarkFailed, MarkException, MarkStages
  <2>3. ASSUME NEW m \in late, LateArrival(m)
        PROVE  Outside
    <3>1. m.op = "start" /\ m.key \in Keys
      BY DEF OwnedInv, TypeOK
    <3> QED
      BY <2>3, <3>1, StartWorkflowStage DEF LateArrival, Outside, MakesNoneActive
  <2>4. CASE UNCHANGED vars
    BY <2>4 DEF vars, OwnedInv, RunningIsOwned
  <2> QED
    BY <2>1, <2>2, <2>3, <2>4, RequestOutside, SideOutside DEF Next
<1>3. OwnedInv => RunningIsOwned
  BY DEF OwnedInv
<1> QED
  BY <1>1, <1>2, <1>3, TypeCorrect, PTL DEF Spec

-----------------------------------------------------------------------------
(***************************************************************************)
(* The documented status machine.  JobLifecycle implements it as long as   *)
(* requests come one at a time, every start request is answered, no        *)
(* dispatch or activity is outrun by a timeout, and nobody starts a        *)
(* workflow by hand: then a row that a request queues has no workflow at   *)
(* work, a row that one awaits is not taken for stale, and past            *)
(* mark_running a row is running or has ended in its workflow.             *)
(***************************************************************************)
OneAtATime ==
    /\ \A c, d \in Clients : c = d
    /\ Faults \intersect {"start_timeout", "slow_start", "activity_stall"} = {}
    /\ ~OperatorStarts

AtRest(k) == stage[k] \in {"none", "closed"}

Moved(k) ==
    \/ row[k].status \in {"running", "succeeded"}
    \/ row[k].status = "failed" /\ ~RetryableFailure(k)

Awaited(k) == row[k].status = "queued" /\ ~row[k].old

KeyInv(k) ==
    /\ row[k].status = "absent" => stage[k] = "none"
    /\ stage[k] = "mark_running" => row[k].status = "running" \/ Awaited(k)
    /\ AtRest(k) \/ stage[k] = "mark_running" \/ Moved(k)

RequestInv(c) ==
    /\ api[c].pc = "requeue" => RetryableFailure(api[c].key)
    /\ api[c].pc \in {"dispatch", "starting", "rejected"} =>
           Awaited(api[c].key) /\ AtRest(api[c].key)
    /\ api[c].pc = "rejected" => stage[api[c].key] = "closed"

DocInv ==
    /\ late = {}
    /\ \A k \in Keys : KeyInv(k)
    /\ \A c \in Clients : RequestInv(c)

\* What the step shows of a key.
DocStep(k) ==
    DocState'[k] = DocState[k] \/ <<DocState[k], DocState'[k]>> \in StatusMachine!Edges

LEMMA DocStateOf ==
  \A k \in Keys :
      /\ DocState[k] = IF RetryableFailure(k) THEN "undispatched" ELSE row[k].status
      /\ DocState'[k] = IF RetryableFailure(k)' THEN "undispatched" ELSE row'[k].status
BY DEF DocState

LEMMA NoFault ==
  ASSUME OneAtATime
  PROVE  /\ "start_timeout" \notin Faults /\ "slow_start" \notin Faults
         /\ "activity_stall" \notin Faults
BY DEF OneAtATime

\* A row that keeps its status and reason shows what it showed.
LEMMA SameShown ==
  ASSUME NEW k \in Keys, row'[k].status = row[k].status, row'[k].reason = row[k].reason
  PROVE  DocStep(k) /\ (RetryableFailure(k)' <=> RetryableFailure(k))
BY DocStateOf DEF DocStep, RetryableFailure

LEMMA QueuedShown ==
  ASSUME NEW k \in Keys, row'[k] = Fresh("queued", "none"),
         row[k].status = "absent" \/ RetryableFailure(k)
  PROVE  DocStep(k) /\ Awaited(k)'
<1>1. row'[k].status = "queued" /\ row'[k].old = FALSE /\ ~RetryableFailure(k)'
  BY DEF Fresh, RetryableFailure
<1>2. DocState'[k] = "queued" /\ DocState[k] \in {"absent", "undispatched"}
  BY <1>1, DocStateOf DEF RetryableFailure
<1> QED
  BY <1>1, <1>2 DEF DocStep, StatusMachine!Edges, Awaited

LEMMA UndispatchedShown ==
  ASSUME NEW k \in Keys, NEW r \in RETRYABLE_DISPATCH_FAILURE_REASONS,
         row'[k] = Fresh("failed", r), row[k].status = "queued"
  PROVE  DocStep(k) /\ RetryableFailure(k)'
<1>1. RetryableFailure(k)' /\ ~RetryableFailure(k)
  BY DEF Fresh, RetryableFailure
<1>2. DocState'[k] = "undispatched" /\ DocState[k] = "queued"
  BY <1>1, DocStateOf
<1> QED
  BY <1>1, <1>2 DEF DocStep, StatusMachine!Edges

\* A step of the one request there is.  The other keys stay as they are.
LEMMA DocRequest ==
  ASSUME OneAtATime, TypeOK, DocInv, NEW c \in Clients, RequestStep(c)
  PROVE  DocInv' /\ \A k \in Keys : DocStep(k)
<1>0. PICK k \in Keys : k = api[c].key
  BY DEF TypeOK
<1>1. /\ api[c].key = k /\ api[c].pc \in ApiPcs /\ late = {} /\ RequestInv(c) /\ KeyInv(k)
      /\ \A d \in Clients : d = c
  BY <1>0 DEF TypeOK, DocInv, OneAtATime
<1>2. ASSUME NEW pc, Goto(c, pc)
      PROVE  api'[c].pc = pc /\ api'[c].key = k
  BY <1>1, <1>2 DEF Goto, TypeOK
<1>3. ASSUME NEW a, Answer(c, a)
      PROVE  api'[c].pc = "idle"
  BY <1>3 DEF Answer, TypeOK
<1>4. InFlight(c) = {}
  BY NoFault DEF InFlight
\* Steps that write no row and start nothing.
<1>5. ASSUME UNCHANGED <<row, stage, late>>,
             \/ api'[c].pc \in {"idle", "insert", "conflict", "accepted"}
             \/ api'[c].pc = "requeue" /\ api'[c].key = k /\ RetryableFailure(k)
             \/ api'[c].pc = "starting" /\ api[c].pc = "dispatch" /\ api'[c].key = k
             \/ api'[c].pc = "rejected" /\ api[c].pc = "starting" /\ api'[c].key = k
                  /\ stage[k] = "closed"
      PROVE  DocInv' /\ \A j \in Keys : DocStep(j)
  <2>1. \A j \in Keys : DocStep(j)
    BY <1>5, SameShown
  <2>2. \A j \in Keys : KeyInv(j)'
    BY <1>5 DEF DocInv, KeyInv, AtRest, Moved, Awaited, RetryableFailure
  <2>3. RequestInv(c)'
    BY <1>1, <1>5 DEF RequestInv, Awaited, AtRest, RetryableFailure
  <2> QED
    BY <1>1, <1>5, <2>1, <2>2, <2>3 DEF DocInv
\* Steps that write the request's row.
<1>6. ASSUME NEW r, row' = [row EXCEPT ![k] = r], UNCHANGED <<stage, late>>,
             DocStep(k), KeyInv(k)', RequestInv(c)'
      PROVE  DocInv' /\ \A j \in Keys : DocStep(j)
  <2>1. \A j \in Keys : j # k => row'[j] = row[j]
    BY <1>6 DEF TypeOK
  <2>2. \A j \in Keys : DocStep(j)
    BY <1>6, <2>1, SameShown
  <2>3. \A j \in Keys : j # k => KeyInv(j)'
    BY <1>6, <2>1 DEF DocInv, KeyInv, AtRest, Moved, Awaited, RetryableFailure
  <2> QED
    BY <1>1, <1>6, <2>2, <2>3 DEF DocInv
<1>7. ASSUME api[c].pc \in {"starting", "rejected"}, NEW a, Answer(c, a),
             NEW r \in RETRYABLE_DISPATCH_FAILURE_REASONS,
             row' = [row EXCEPT ![k] = Fresh("failed", r)], UNCHANGED <<stage, late>>
      PROVE  DocInv' /\ \A j \in Keys : DocStep(j)
  <2>1. row[k].status = "queued" /\ AtRest(k) /\ row'[k] = Fresh("failed", r)
    BY <1>1, <1>7 DEF RequestInv, Awaited, TypeOK
  <2>2. DocStep(k) /\ RetryableFailure(k)'
    BY <1>1, <2>1, UndispatchedShown
  <2>3. KeyInv(k)'
    BY <1>7, <2>1, <2>2 DEF KeyInv, AtRest, RetryableFailure
  <2>4. api'[c].pc = "idle"
    BY <1>3, <1>7
  <2>5. RequestInv(c)'
    BY <2>4 DEF RequestInv
  <2> QED
    BY <1>6, <1>7, <2>2, <2>3, <2>5
<1>8. ASSUME Goto(c, "dispatch"), row' = [row EXCEPT ![k] = Fresh("queued", "none")],
             UNCHANGED <<stage, late>>, row[k].status = "absent" \/ RetryableFailure(k)
      PROVE  DocInv' /\ \A j \in Keys : DocStep(j)
  <2>1. row'[k] = Fresh("queued", "none")
    BY <1>1, <1>8 DEF TypeOK
  <2>2. DocStep(k) /\ Awaited(k)'
    BY <1>1, <1>8, <2>1, QueuedShown
  <2>3. AtRest(k)
    BY <1>1, <1>8 DEF KeyInv, AtRest, Moved, Awaited, RetryableFailure
  <2>4. KeyInv(k)'
    BY <1>8, <2>2, <2>3 DEF KeyInv, AtRest, Awaited
  <2>5. api'[c].pc = "dispatch" /\ api'[c].key = k
    BY <1>2, <1>8
  <2>6. AtRest(k)'
    BY <1>8, <2>3 DEF AtRest
  <2>7. RequestInv(c)'
    BY <2>2, <2>5, <2>6 DEF RequestInv, Awaited, AtRest
  <2> QED
    BY <1>6, <1>8, <2>2, <2>4, <2>7
<1>a. CASE FindRetryable(c)
  BY <1>a, <1>1, <1>2, <1>5 DEF FindRetryable, wfVars
<1>b. CASE Requeue(c)
  BY <1>1, <1>b, <1>8 DEF Requeue, wfVars, RequestInv
<1>c. CASE Create(c)
  BY <1>c, <1>1, <1>2, <1>5, <1>8 DEF Create, wfVars
<1>d. CASE ResolveConflict(c)
  BY <1>d, <1>1, <1>2, <1>3, <1>5 DEF ResolveConflict, wfVars
<1>e. CASE Connect(c)
  BY <1>e, <1>1, <1>2, <1>5 DEF Connect, wfVars
<1>f. CASE TemporalStart(c)
  <2>1. /\ api[c].pc = "starting" /\ UNCHANGED <<row, late>> /\ Awaited(k) /\ AtRest(k)
    BY <1>1, <1>f DEF TemporalStart, RequestInv
  <2>2. CASE stage[k] = "closed"
    <3>1. stage' = stage /\ Goto(c, "rejected")
      BY <1>1, <1>f, <2>2 DEF TemporalStart, StartWorkflow
    <3> QED
      BY <1>2, <1>5, <2>1, <2>2, <3>1
  <2>3. CASE stage[k] = "none"
    <3>1. stage' = [stage EXCEPT ![k] = "mark_running"] /\ Goto(c, "accepted")
      BY <1>1, <1>f, <2>3 DEF TemporalStart, StartWorkflow
    <3>2. \A j \in Keys : DocStep(j)
      BY <2>1, SameShown
    <3>3. stage'[k] = "mark_running" /\ \A j \in Keys : j # k => stage'[j] = stage[j]
      BY <1>1, <3>1 DEF TypeOK
    <3>4. \A j \in Keys : KeyInv(j)'
      BY <2>1, <3>3 DEF DocInv, KeyInv, AtRest, Moved, Awaited, RetryableFailure
    <3>5. api'[c].pc = "accepted"
      BY <1>2, <3>1
    <3>6. RequestInv(c)'
      BY <3>5 DEF RequestInv
    <3> QED
      BY <1>1, <2>1, <3>2, <3>4, <3>6 DEF DocInv
  <2> QED
    BY <2>1, <2>2, <2>3 DEF AtRest
<1>g. CASE DispatchAccepted(c)
  BY <1>g, <1>1, <1>3, <1>5 DEF DispatchAccepted, wfVars
<1>h. CASE DispatchFailed(c)
  BY <1>h, <1>1, <1>7 DEF DispatchFailed, MarkDispatchFailed, wfVars,
                          RETRYABLE_DISPATCH_FAILURE_REASONS
<1>i. CASE DispatchTimeout(c)
  BY <1>i, NoFault DEF DispatchTimeout
<1>j. CASE AbandonRequest(c)
  BY <1>j, <1>1, <1>3, <1>4, <1>5 DEF AbandonRequest, wfVars
<1> QED
  BY <1>a, <1>b, <1>c, <1>d, <1>e, <1>f, <1>g, <1>h, <1>i, <1>j DEF RequestStep

\* A workflow's write finds its row queued by mark_running, and running after it.
LEMMA MarkShown ==
  ASSUME TypeOK, NEW k \in Keys, NEW op \in MarkStages, stage[k] = op, KeyInv(k), Mark(op, k)
  PROVE  /\ \A j \in Keys : DocStep(j)
         /\ \A j \in Keys : j # k => row'[j] = row[j]
         /\ row'[k] = row[k] \/ Moved(k)'
         /\ row[k].status # "absent" => row'[k].status # "absent"
         /\ op = "mark_running" => row'[k] = row[k] \/ row'[k].status = "running"
<1>1. CASE row' = row
  BY <1>1, SameShown
<1>2. CASE CanMark(op, k) /\ row' = [row EXCEPT ![k] = Marked(op)]
  <2>1. row'[k] = Marked(op) /\ \A j \in Keys : j # k => row'[j] = row[j]
    BY <1>2 DEF TypeOK
  <2>2. \A j \in Keys : j # k => DocStep(j)
    BY <2>1, SameShown
  <2>3. CASE op = "mark_running"
    <3>1. row[k].status = "queued" /\ row'[k].status = "running"
      BY <1>2, <2>1, <2>3 DEF CanMark, Marked, Fresh
    <3>2. ~RetryableFailure(k) /\ ~RetryableFailure(k)'
      BY <3>1 DEF RetryableFailure
    <3>3. DocState[k] = "queued" /\ DocState'[k] = "running"
      BY <3>1, <3>2, DocStateOf
    <3>4. DocStep(k)
      BY <3>3 DEF DocStep, StatusMachine!Edges
    <3> QED
      BY <2>1, <2>2, <2>3, <3>1, <3>4 DEF Moved
  <2>4. CASE op # "mark_running"
    <3>1. row[k].status = "running"
      BY <1>2, <2>4 DEF CanMark, KeyInv, AtRest, Moved, MarkStages
    <3>2. /\ row'[k].status \in {"succeeded", "failed"}
          /\ row'[k].status = "failed" => row'[k].reason = "workflow"
      BY <2>1, <2>4 DEF Marked, Fresh, MarkStages
    <3>3. ~RetryableFailure(k) /\ ~RetryableFailure(k)'
      BY <3>1, <3>2 DEF RetryableFailure, RETRYABLE_DISPATCH_FAILURE_REASONS
    <3>4. DocState[k] = "running" /\ DocState'[k] \in {"succeeded", "failed"}
      BY <3>1, <3>2, <3>3, DocStateOf
    <3>5. DocStep(k)
      BY <3>4 DEF DocStep, StatusMachine!Edges
    <3> QED
      BY <2>1, <2>2, <2>4, <3>2, <3>3, <3>5 DEF Moved
  <2> QED
    BY <2>3, <2>4
<1> QED
  BY <1>1, <1>2 DEF Mark

LEMMA DocWorkflow ==
  ASSUME OneAtATime, TypeOK, DocInv, NEW k \in Keys, WorkflowStep(k)
  PROVE  DocInv' /\ \A j \in Keys : DocStep(j)
<1>1. ~AtRest(k) /\ KeyInv(k) /\ late = {}
  BY DEF DocInv, WorkflowStep, MarkRunning, MarkSucceeded, MarkFailed, MarkException,
         MarkActivity, RunPipeline, SendDigest, AtRest
\* No request is at this row, but perhaps to learn that its workflow was started.
<1>2. \A c \in Clients : api[c].pc \in {"requeue", "dispatch", "starting", "rejected"} =>
          api[c].key \in Keys \ {k}
  BY <1>1 DEF DocInv, RequestInv, TypeOK, KeyInv, AtRest, Moved, Awaited, RetryableFailure
<1>3. ASSUME UNCHANGED <<api, late>>, KeyInv(k)',
             \A j \in Keys : j # k => row'[j] = row[j] /\ stage'[j] = stage[j]
      PROVE  DocInv'
  <2>1. \A j \in Keys : KeyInv(j)'
    BY <1>3 DEF DocInv, KeyInv, AtRest, Moved, Awaited, RetryableFailure
  <2>2. \A c \in Clients : RequestInv(c)'
    BY <1>2, <1>3 DEF DocInv, RequestInv, AtRest, Awaited, RetryableFailure
  <2> QED
    BY <1>1, <1>3, <2>1, <2>2 DEF DocInv
<1>4. ASSUME NEW s, MoveTo(k, s)
      PROVE  stage'[k] = s /\ \A j \in Keys : j # k => stage'[j] = stage[j]
  BY <1>4 DEF MoveTo, TypeOK
<1>5. CASE RunPipeline(k)
  <2>1. /\ UNCHANGED <<row, api, late>> /\ stage[k] = "pipeline"
        /\ stage'[k] \in {"mark_succeeded", "mark_failed", "mark_exception"}
        /\ \A j \in Keys : j # k => stage'[j] = stage[j]
    BY <1>4, <1>5 DEF RunPipeline
  <2>2. KeyInv(k)'
    BY <1>1, <2>1 DEF KeyInv, AtRest, Moved, RetryableFailure
  <2> QED
    BY <1>3, <2>1, <2>2, SameShown
<1>6. CASE SendDigest(k)
  <2>1. /\ UNCHANGED <<row, api, late>> /\ stage[k] = "digest" /\ stage'[k] = "closed"
        /\ \A j \in Keys : j # k => stage'[j] = stage[j]
    BY <1>4, <1>6 DEF SendDigest
  <2>2. KeyInv(k)'
    BY <1>1, <2>1 DEF KeyInv, AtRest, Moved
  <2> QED
    BY <1>3, <2>1, <2>2, SameShown
<1>7. ASSUME NEW op \in MarkStages, MarkActivity(op, k)
      PROVE  DocInv' /\ \A j \in Keys : DocStep(j)
  <2>1. /\ UNCHANGED <<api, late>> /\ stage[k] = op
        /\ \/ CanMark(op, k) /\ Mark(op, k) /\ MoveTo(k, AfterSuccess[op])
           \/ (row' = row \/ Mark(op, k)) /\ AttemptFailed(op, k)
    BY <1>7, NoFault DEF MarkActivity
  <2>2. AttemptFailed(op, k) \/ MoveTo(k, AfterSuccess[op])
    BY <2>1
  <2>3. /\ \A j \in Keys : j # k => stage'[j] = stage[j]
        /\ \/ stage'[k] = op
           \/ op = "mark_running" /\ stage'[k] \in {"pipeline", "closed"}
           \/ op = "mark_succeeded" /\ stage'[k] \in {"digest", "mark_exception"}
           \/ op \in {"mark_failed", "mark_exception"}
                /\ stage'[k] \in {"mark_exception", "closed"}
    BY <2>1, <2>2, MarkStagesForward
  <2>4. /\ \A j \in Keys : DocStep(j)
        /\ \A j \in Keys : j # k => row'[j] = row[j]
        /\ row'[k] = row[k] \/ Moved(k)'
        /\ row[k].status # "absent" => row'[k].status # "absent"
        /\ op = "mark_running" => row'[k] = row[k] \/ row'[k].status = "running"
    <3>1. CASE row' = row
      BY <3>1, SameShown
    <3>2. CASE Mark(op, k)
      BY <1>1, <2>1, <3>2, MarkShown
    <3> QED
      BY <2>1, <3>1, <3>2
  <2>5. row[k].status # "absent"
    BY <1>1 DEF KeyInv, AtRest
  <2>6. stage'[k] = "pipeline" => row'[k].status = "running"
    <3>1. CASE CanMark(op, k) /\ Mark(op, k)
      BY <1>1, <2>1, <2>3, <3>1 DEF CanMark, Mark, Marked, Fresh, TypeOK, MarkStages
    <3>2. CASE AttemptFailed(op, k)
      <4>1. stage'[k] = op \/ stage'[k] = AfterFailure[op]
        BY <2>1, <3>2, <1>4 DEF AttemptFailed
      <4> QED
        BY <4>1 DEF AfterFailure, MarkStages
    <3> QED
      BY <2>1, <3>1, <3>2
  <2>7. KeyInv(k)'
    <3>1. CASE op = "mark_running"
      <4>1. row[k].status = "running" \/ Awaited(k)
        BY <1>1, <2>1, <3>1 DEF KeyInv
      <4> QED
        BY <2>3, <2>4, <2>5, <2>6, <3>1, <4>1 DEF KeyInv, AtRest, Moved, Awaited
    <3>2. CASE op # "mark_running"
      <4>1. Moved(k)
        BY <1>1, <2>1, <3>2 DEF KeyInv
      <4>2. Moved(k)'
        BY <2>4, <4>1 DEF Moved, RetryableFailure
      <4> QED
        BY <2>3, <2>4, <2>5, <3>2, <4>2 DEF KeyInv, MarkStages
    <3> QED
      BY <3>1, <3>2
  <2> QED
    BY <1>3, <2>1, <2>3, <2>4, <2>7
<1> QED
  BY <1>5, <1>6, <1>7 DEF WorkflowStep, MarkRunning, MarkSucceeded, MarkFailed, MarkException,
                          MarkStages

\* The reconciler fails only rows nobody is about to take from queued.
LEMMA DocReconcile ==
  ASSUME OneAtATime, TypeOK, DocInv, NEW S \in SUBSET Keys, FailStaleQueuedJobs(S)
  PROVE  DocInv' /\ \A j \in Keys : DocStep(j)
<1>1. /\ S \subseteq StaleQueued /\ UNCHANGED <<api, stage, late>>
      /\ \A j \in Keys : row'[j] = IF j \in S THEN Fresh("failed", "dispatch_timeout") ELSE row[j]
  BY DEF FailStaleQueuedJobs, wfVars
<1>2. ASSUME NEW j \in Keys
      PROVE  DocStep(j) /\ KeyInv(j)'
  <2>1. CASE j \in S
    <3>1. /\ row[j].status = "queued" /\ row[j].old /\ KeyInv(j)
          /\ row'[j] = Fresh("failed", "dispatch_timeout")
      BY <1>1, <2>1 DEF StaleQueued, DocInv
    <3>2. DocStep(j) /\ RetryableFailure(j)'
      BY <3>1, UndispatchedShown DEF RETRYABLE_DISPATCH_FAILURE_REASONS
    <3>3. AtRest(j)
      BY <3>1 DEF KeyInv, Moved, Awaited
    <3> QED
      BY <1>1, <3>2, <3>3 DEF KeyInv, AtRest, RetryableFailure
  <2>2. CASE j \notin S
    BY <1>1, <2>2, SameShown DEF DocInv, KeyInv, AtRest, Moved, Awaited, RetryableFailure
  <2> QED
    BY <2>1, <2>2
<1>3. \A c \in Clients : RequestInv(c)'
  BY <1>1 DEF DocInv, RequestInv, TypeOK, AtRest, Awaited, StaleQueued, RetryableFailure
<1> QED
  BY <1>1, <1>2, <1>3 DEF DocInv

LEMMA DocStale ==
  ASSUME OneAtATime, TypeOK, DocInv, NEW k \in Keys, BecomeStale(k)
  PROVE  DocInv' /\ \A j \in Keys : DocStep(j)
<1>1. /\ ~Dispatching(k) /\ UNCHANGED <<api, stage, late>>
      /\ row' = [row EXCEPT ![k].old = TRUE]
  BY NoFault DEF BecomeStale, wfVars
<1>2. /\ \A j \in Keys : j # k => row'[j] = row[j]
      /\ row'[k].status = row[k].status /\ row'[k].reason = row[k].reason
  BY <1>1 DEF TypeOK, Row
<1>3. \A j \in Keys : DocStep(j)
  BY <1>2, SameShown
<1>4. /\ stage[k] # "mark_running"
      /\ \A c \in Clients : api[c].pc # "idle" => api[c].key \in Keys \ {k}
  BY <1>1 DEF Dispatching, TypeOK
<1>5. \A j \in Keys : KeyInv(j)'
  BY <1>1, <1>2, <1>4 DEF DocInv, KeyInv, AtRest, Moved, Awaited, RetryableFailure
<1>6. \A c \in Clients : RequestInv(c)'
  BY <1>1, <1>2, <1>4 DEF DocInv, RequestInv, AtRest, Awaited, RetryableFailure
<1> QED
  BY <1>1, <1>3, <1>5, <1>6 DEF DocInv

LEMMA DocNext ==
  ASSUME OneAtATime, TypeOK, DocInv, [Next]_vars
  PROVE  DocInv' /\ \A k \in Keys : DocStep(k)
<1>1. ASSUME UNCHANGED <<row, stage, late>>, \A c \in Clients : RequestInv(c)'
      PROVE  DocInv' /\ \A k \in Keys : DocStep(k)
  BY <1>1, SameShown DEF DocInv, KeyInv, AtRest, Moved, Awaited, RetryableFailure
<1>2. ASSUME NEW c \in Clients, NEW k \in Keys, LookupActive(c, k)
      PROVE  DocInv' /\ \A j \in Keys : DocStep(j)
  <2>1. /\ UNCHANGED <<row, stage, late>> /\ api'[c].pc \in {"idle", "no_active"}
        /\ \A d \in Clients : d # c => api'[d] = api[d]
    BY <1>2 DEF LookupActive, wfVars, TypeOK
  <2>2. \A d \in Clients : RequestInv(d)'
    BY <2>1 DEF DocInv, RequestInv, AtRest, Awaited, RetryableFailure
  <2> QED
    BY <1>1, <2>1, <2>2
<1>3. ASSUME NEW k \in Keys, StartProcessWorkflow(k)
      PROVE  FALSE
  BY <1>3 DEF StartProcessWorkflow, OneAtATime
<1>4. ASSUME NEW m \in late, LateArrival(m)
      PROVE  FALSE
  BY DEF DocInv
<1>5. CASE UNCHANGED vars
  <2>1. \A c \in Clients : RequestInv(c)'
    BY <1>5 DEF DocInv, RequestInv, AtRest, Awaited, RetryableFailure, vars
  <2> QED
    BY <1>1, <1>5, <2>1 DEF vars
<1> QED
  BY <1>2, <1>3, <1>4, <1>5, DocRequest, DocWorkflow, DocReconcile, DocStale DEF Next

LEMMA DocAlways == ASSUME OneAtATime PROVE Spec => []DocInv
<1>1. Init => DocInv
  <2> SUFFICES ASSUME Init PROVE DocInv
    OBVIOUS
  <2>1. \A k \in Keys : row[k].status = "absent" /\ stage[k] = "none"
    BY DEF Init, Fresh
  <2>2. late = {} /\ \A c \in Clients : api[c].pc = "idle"
    BY DEF Init
  <2> QED
    BY <2>1, <2>2 DEF DocInv, KeyInv, RequestInv, AtRest
<1>2. TypeOK /\ DocInv /\ [Next]_vars => DocInv'
  BY DocNext
<1> QED
  BY <1>1, <1>2, TypeCorrect, PTL DEF Spec

(***************************************************************************)
(* With one request at a time and every start answered, rows move along    *)
(* the documented edges only, whatever requests are abandoned, dispatches  *)
(* refused, attempts failed and completions lost.                          *)
(***************************************************************************)
THEOREM DocumentedStatusMachine == OneAtATime => (Spec => FollowsStatusMachine)
<1> SUFFICES ASSUME OneAtATime
             PROVE  Spec => FollowsStatusMachine
  OBVIOUS
<1>1. Init => StatusMachine!Init
  <2> SUFFICES ASSUME Init PROVE StatusMachine!Init
    OBVIOUS
  <2>1. \A k \in Keys : row[k].status = "absent"
    BY DEF Init, Fresh
  <2>2. \A k \in Keys : ~RetryableFailure(k)
    BY <2>1 DEF RetryableFailure
  <2>3. DocState = [k \in Keys |-> "absent"]
    BY <2>1, <2>2 DEF DocState
  <2> QED
    BY <2>3 DEF StatusMachine!Init
<1>2. TypeOK /\ DocInv /\ [Next]_vars => [StatusMachine!Next]_DocState
  <2> SUFFICES ASSUME TypeOK, DocInv, [Next]_vars
               PROVE  StatusMachine!Next
    OBVIOUS
  <2>1. \A k \in Keys : DocStep(k)
    BY DocNext
  <2>2. DOMAIN DocState' = Keys
    BY DEF DocState
  <2> QED
    BY <2>1, <2>2 DEF DocStep, StatusMachine!Next
<1> QED
  BY <1>1, <1>2, TypeCorrect, DocAlways, PTL DEF Spec, FollowsStatusMachine, StatusMachine!Spec

(***************************************************************************)
(* In the same circumstances no edge leaves succeeded, as the documents    *)
(* say of every job.                                                       *)
(***************************************************************************)
THEOREM SucceededStays == OneAtATime => (Spec => SucceededIsFinal)
<1> SUFFICES ASSUME OneAtATime
             PROVE  Spec => SucceededIsFinal
  OBVIOUS
<1>1. TypeOK /\ DocInv /\ [Next]_vars =>
        [\A k \in Keys : row[k].status = "succeeded" => row'[k].status = "succeeded"]_vars
  <2> SUFFICES ASSUME TypeOK, DocInv, [Next]_vars, NEW k \in Keys, row[k].status = "succeeded"
               PROVE  row'[k].status = "succeeded"
    OBVIOUS
  <2>1. DocStep(k) /\ DocState[k] = "succeeded"
    BY DocNext, DocStateOf DEF RetryableFailure
  <2>2. DocState'[k] = "succeeded"
    BY <2>1 DEF DocStep, StatusMachine!Edges
  <2> QED
    BY <2>2, DocStateOf
<1> QED
  BY <1>1, TypeCorrect, DocAlways, PTL DEF Spec, SucceededIsFinal
=============================================================================
