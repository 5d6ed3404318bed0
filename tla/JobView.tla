------------------------------ MODULE JobView -------------------------------
(***************************************************************************)
(* GET /api/v1/jobs/{id} while the job is at work.  The answer is put      *)
(* together from three stores, one read after the other: the job's row in  *)
(* Postgres, its step rows in SQLite, and the files of its artifacts.  The *)
(* worker writes them one after the other too, and a dispatch that timed   *)
(* out although its workflow started lets a second run of the job in,      *)
(* whose attempt adds rows of its own and writes the same files.           *)
(***************************************************************************)
EXTENDS Naturals, Sequences, FiniteSets

CONSTANTS
    Runs,           \* bound: runs of the job, 1..n; the later ones by a requeue
    LlmStepNames    \* a sequence: llm_outline and llm_digest

ASSUME LlmStepNamesAssumption == LlmStepNames \in Seq(STRING)

VARIABLES
    jobRow,    \* the row of jobs
    stepRows,  \* attempt -> step -> status of the row of step_runs
    files,     \* the artifact directory
    run,       \* run -> what it is doing
    view       \* the request

jobViewVars == <<jobRow, stepRows, files, run, view>>

StepNames == LlmStepNames \o <<"write_artifacts">>
Named == {StepNames[i] : i \in DOMAIN StepNames}
NoSteps == [s \in Named |-> "none"]
Idling == [pc |-> "none", step |-> 1, hard |-> TRUE, degraded |-> FALSE, final |-> "none", gate |-> "none"]
NoView ==
    [pc |-> "idle", row |-> "none", steps |-> "none", degradations |-> "none",
     final |-> "none", gate |-> "none", index |-> {}]

JobViewInit ==
    /\ jobRow = [status |-> "queued", final |-> "none", gate |-> "none", reason |-> "none",
                 root |-> FALSE]
    /\ stepRows = [a \in Runs |-> NoSteps]
    /\ files = [degradations |-> "none", digest |-> FALSE]
    /\ run = [r \in Runs |-> [Idling EXCEPT !.pc = IF r = 1 THEN "mark_running" ELSE "none"]]
    /\ view = NoView

-----------------------------------------------------------------------------
(***************************************************************************)
(* The worker's side.  Each commit is a step of its own.                   *)
(***************************************************************************)
Done == [Idling EXCEPT !.pc = "done"]

MarkRunning(r) ==
    /\ run[r].pc = "mark_running"
    /\ IF jobRow.status = "queued"
         THEN /\ jobRow' = [jobRow EXCEPT !.status = "running"]
              /\ \E hard \in BOOLEAN :
                    run' = [run EXCEPT ![r].pc = "begin", ![r].hard = hard]
         ELSE /\ run' = [run EXCEPT ![r] = Done]
              /\ UNCHANGED jobRow
    /\ UNCHANGED <<stepRows, files, view>>

StepOf(r) == StepNames[run[r].step]

BeginStep(r) ==
    /\ run[r].pc = "begin"
    /\ stepRows' = [stepRows EXCEPT ![r][StepOf(r)] = "running"]
    /\ run' = [run EXCEPT ![r].pc = IF StepOf(r) = "write_artifacts" THEN "write" ELSE "work"]
    /\ UNCHANGED <<jobRow, files, view>>

Finish(r, final, gate) == [run[r] EXCEPT !.pc = "mark", !.final = final, !.gate = gate]
Failed(r, gate) == Finish(r, "failed", gate)

\* A step of the LLM: a failure ends a run whose gate is hard and degrades another one.
LlmStepEnds(r) ==
    /\ run[r].pc = "work"
    /\ \E status \in {"succeeded", "skipped", "failed"} :
          /\ stepRows' = [stepRows EXCEPT ![r][StepOf(r)] = status]
          /\ run' = [run EXCEPT ![r] =
                IF status = "failed" /\ run[r].hard THEN Failed(r, "fail")
                ELSE [run[r] EXCEPT !.pc = "begin", !.step = @ + 1,
                                    !.degraded = @ \/ status = "failed"]]
    /\ UNCHANGED <<jobRow, files, view>>

WriteFiles(r) ==
    /\ run[r].pc = "write"
    /\ \/ /\ files' = [degradations |-> IF run[r].degraded THEN "some" ELSE "empty", digest |-> TRUE]
          /\ run' = [run EXCEPT ![r].pc = "written"]
          /\ UNCHANGED stepRows
       \/ /\ stepRows' = [stepRows EXCEPT ![r]["write_artifacts"] = "failed"]
          /\ run' = [run EXCEPT ![r] = Failed(r, "pass")]
          /\ UNCHANGED files
    /\ UNCHANGED <<jobRow, view>>

ArtifactsWritten(r) ==
    /\ run[r].pc = "written"
    /\ stepRows' = [stepRows EXCEPT ![r]["write_artifacts"] = "succeeded"]
    /\ run' = [run EXCEPT ![r] = Finish(r, IF run[r].degraded THEN "degraded" ELSE "succeeded", "pass")]
    /\ UNCHANGED <<jobRow, files, view>>

\* The pipeline's activity raises or times out: the job is marked failed with what is known.
PipelineLost(r) ==
    /\ run[r].pc \in {"begin", "work", "write", "written"}
    /\ run' = [run EXCEPT ![r] = Failed(r, "fail")]
    /\ UNCHANGED <<jobRow, stepRows, files, view>>

\* _mark_job_status: the artifacts' place is kept when there is no new one.
MarkStatus(r) ==
    /\ run[r].pc = "mark"
    /\ jobRow' = IF jobRow.status \notin {"queued", "running"} THEN jobRow
                 ELSE [status |-> IF run[r].final = "failed" THEN "failed" ELSE "succeeded",
                       final |-> run[r].final, gate |-> run[r].gate,
                       reason |-> IF run[r].final = "failed" THEN "pipeline" ELSE "none",
                       root |-> jobRow.root \/ run[r].final # "failed"]
    /\ run' = [run EXCEPT ![r] = Done]
    /\ UNCHANGED <<stepRows, files, view>>

(***************************************************************************)
(* The API's dispatch of run r timed out although the workflow started;    *)
(* the next request for the video queues the job again, with another run.  *)
(***************************************************************************)
DispatchTimesOut(r) ==
    /\ run[r].pc # "none" /\ r + 1 \in Runs /\ run[r + 1].pc = "none"
    /\ jobRow.reason # "dispatch_timeout"
    /\ jobRow' = [jobRow EXCEPT !.status = "failed", !.final = "failed", !.reason = "dispatch_timeout"]
    /\ UNCHANGED <<stepRows, files, run, view>>

Requeue(r) ==
    /\ run[r].pc = "none" /\ jobRow.status = "failed" /\ jobRow.reason = "dispatch_timeout"
    /\ jobRow' = [jobRow EXCEPT !.status = "queued", !.final = "none", !.gate = "none",
                                !.reason = "none"]
    /\ run' = [run EXCEPT ![r].pc = "mark_running"]
    /\ UNCHANGED <<stepRows, files, view>>

-----------------------------------------------------------------------------
(***************************************************************************)
(* get_job.                                                                *)
(***************************************************************************)
ReadRow ==
    /\ view.pc = "idle"
    /\ view' = [view EXCEPT !.pc = "steps", !.row = jobRow]
    /\ UNCHANGED <<jobRow, stepRows, files, run>>

\* What the answer is made of: the statuses of each step, over all attempts.
Statuses(s) == {stepRows[a][s] : a \in Runs} \ {"none"}
Seen ==
    [llm |-> UNION {Statuses(LlmStepNames[i]) : i \in DOMAIN LlmStepNames},
     written |-> Statuses("write_artifacts")]

\* A database that cannot be read has no steps.
ReadSteps ==
    /\ view.pc = "steps"
    /\ \E rows \in {Seen, [llm |-> {}, written |-> {}]} :
          view' = [view EXCEPT !.pc = "degradations", !.steps = rows]
    /\ UNCHANGED <<jobRow, stepRows, files, run>>

\* meta.json's list, and without that file the steps that failed, of any attempt.
ReadDegradations ==
    /\ view.pc = "degradations"
    /\ view' = [view EXCEPT !.pc = "final",
          !.degradations = IF view.row.root /\ files.degradations # "none" THEN files.degradations
                           ELSE IF (view.steps.llm \union view.steps.written) \intersect {"failed", "skipped"} # {}
                             THEN "some" ELSE "empty"]
    /\ UNCHANGED <<jobRow, stepRows, files, run>>

\* The final status is read again, from a row that may have moved on.
get_pipeline_final_status ==
    IF jobRow.final # "none" THEN jobRow.final
    ELSE IF view.row.status \in {"succeeded", "failed"} THEN view.row.status ELSE "none"

ReadFinal ==
    /\ view.pc = "final"
    /\ view' = [view EXCEPT !.pc = "index", !.final = get_pipeline_final_status]
    /\ UNCHANGED <<jobRow, stepRows, files, run>>

\* resolve_llm_gate_fields: the row's, or what the rows of the LLM's steps say together.
resolve_llm_gate_fields ==
    IF view.row.gate # "none" THEN view.row.gate
    ELSE IF "failed" \in view.steps.llm THEN "fail"
    ELSE IF view.steps.llm # {} /\ view.steps.llm \subseteq {"succeeded", "skipped"} THEN "pass"
    ELSE "none"

\* _artifacts_from_steps: the latest write_artifacts that has a list of files.
ArtifactsFromSteps == IF "succeeded" \in view.steps.written THEN {"meta", "digest"} ELSE {}

ArtifactsOnDisk == IF view.row.root /\ files.digest THEN {"meta", "digest"} ELSE {}

\* Mutant: the row's columns are read when the answer is made, after all the rest.
RowShown_Now == jobRow

RowShown == view.row

ReadIndex ==
    /\ view.pc = "index"
    /\ view' = [view EXCEPT !.pc = "done", !.row = RowShown, !.gate = resolve_llm_gate_fields,
          !.index = IF ArtifactsFromSteps # {} THEN ArtifactsFromSteps ELSE ArtifactsOnDisk]
    /\ UNCHANGED <<jobRow, stepRows, files, run>>

JobViewNext ==
    \/ \E r \in Runs :
          \/ MarkRunning(r) \/ BeginStep(r) \/ LlmStepEnds(r) \/ WriteFiles(r)
          \/ ArtifactsWritten(r) \/ PipelineLost(r) \/ MarkStatus(r)
          \/ DispatchTimesOut(r) \/ Requeue(r)
    \/ ReadRow \/ ReadSteps \/ ReadDegradations \/ ReadFinal \/ ReadIndex

JobViewSpec == JobViewInit /\ [][JobViewNext]_jobViewVars

-----------------------------------------------------------------------------
(***************************************************************************)
(* Although it is read in pieces, a job shown as succeeded is shown whole: *)
(* its artifacts are listed, the LLM gate is passed and no reason is given *)
(* for a failure, the artifacts' step is finished unless the steps could   *)
(* not be read, and, unless a dispatch was taken for lost, the final       *)
(* status is the one that the listed degradations make.                    *)
(***************************************************************************)
Undisputed ==
    jobRow.reason # "dispatch_timeout" /\ \A r \in Runs : r # 1 => run[r].pc = "none"

SucceededViewIsWhole ==
    view.pc = "done" /\ view.row.status = "succeeded" =>
        /\ "digest" \in view.index
        /\ view.gate = "pass" /\ view.row.reason = "none"
        /\ "succeeded" \in view.steps.written \/ view.steps.written = {}
        /\ Undisputed => view.final = IF view.degradations = "some" THEN "degraded" ELSE "succeeded"

(***************************************************************************)
(* A final status of success is told of a job whose row was read as        *)
(* succeeded.  It is not so: the final status is read after the row.       *)
(***************************************************************************)
FinalAgreesWithStatus ==
    view.pc = "done" /\ view.final \in {"succeeded", "degraded"} => view.row.status = "succeeded"

=============================================================================
