------------------------------ MODULE Pipeline ------------------------------
(***************************************************************************)
(* One job's pipeline: run_pipeline goes through the steps of its content  *)
(* type, execute_step recovers, runs, retries and records each of them,    *)
(* and at the end two resolvers say how it went.  The job's workspace (the *)
(* step caches, the media, the frames), its ledger in SQLite (step_runs    *)
(* and checkpoints), its artifacts and its embedding rows outlive a run; a *)
(* run may crash, be cancelled, or meet the workspace cleanup.             *)
(*                                                                         *)
(* What a step produces is known by the run that produced it: an outline   *)
(* is the number of its run, 0 when there is none, because generated_at    *)
(* and fetched_at make the products of two runs differ.                    *)
(***************************************************************************)
EXTENDS Naturals, Sequences

CONSTANTS
    MaxRuns,          \* bound: runs of run_pipeline for the job
    MaxTroubles,      \* bound: steps that go wrong, crashes, cancellations, cleanups
    Callers,          \* who calls run_pipeline, a subset of AllCallers
    Modes,            \* a subset of AllModes
    Policies,         \* revisions of the overrides a run is given, numbered from 1
    HardPolicies,     \* those under which llm_policy.hard_required holds
    ContentTypes,     \* a subset of {"video", "article"}
    Platforms,        \* the job's platform; only Supported ones have comments
    TransientRetries, \* pipeline_retry_transient_attempts
    RateLimitRetries, \* pipeline_retry_rate_limit_attempts
    LlmMaxRetries,    \* {n} when llm_policy.max_retries is n, {} when it is unset
    Faults            \* the faults this environment shows, a subset of AllFaults

(***************************************************************************)
(* no_url   the job may have no source_url                                 *)
(* step     a handler fails, degrades or raises                            *)
(* crash    the worker process dies                                        *)
(* cancel   the activity is cancelled while a handler is awaited           *)
(* cleanup  CleanupWorkspaceWorkflow comes by                              *)
(***************************************************************************)
AllFaults == {"no_url", "step", "crash", "cancel", "cleanup"}

\* activity: after mark_running_activity; direct: nothing between two runs.
AllCallers == {"activity", "direct"}
AllModes == {"full", "text_only", "refresh_comments", "refresh_llm"}
Supported == {"youtube", "bilibili"}

ASSUME BoundsAssumption == MaxRuns \in Nat /\ MaxTroubles \in Nat
ASSUME RetriesAssumption ==
    /\ TransientRetries \in Nat /\ RateLimitRetries \in Nat
    /\ LlmMaxRetries \subseteq Nat
ASSUME InputsAssumption ==
    /\ Callers \subseteq AllCallers /\ Modes \subseteq AllModes
    /\ ContentTypes \subseteq {"video", "article"}
    /\ HardPolicies \subseteq Policies /\ Policies \subseteq Nat \ {0}
ASSUME FaultsAssumption == Faults \subseteq AllFaults

-----------------------------------------------------------------------------
(***************************************************************************)
(* The steps.                                                              *)
(***************************************************************************)
PIPELINE_STEPS ==
    <<"fetch_metadata", "download_media", "collect_subtitles", "collect_comments",
      "extract_frames", "llm_outline", "llm_digest", "build_embeddings", "write_artifacts">>
ARTICLE_PIPELINE_STEPS ==
    <<"fetch_article_content", "llm_outline", "llm_digest", "build_embeddings",
      "write_artifacts">>

Steps == {PIPELINE_STEPS[i] : i \in 1..9} \union {"fetch_article_content"}
LlmSteps == {"llm_outline", "llm_digest"}

\* Steps still at version v1, which also read <step>.json whatever its signature.
V1Steps == {"fetch_metadata", "extract_frames", "build_embeddings", "fetch_article_content"}

PIPELINE_MODE_SKIP_STEPS(mode) ==
    IF mode = "text_only" THEN {"download_media", "collect_subtitles", "extract_frames"} ELSE {}

PIPELINE_MODE_FORCE_STEPS(mode) ==
    LET rest == {"llm_outline", "llm_digest", "build_embeddings", "write_artifacts"}
    IN  CASE mode = "refresh_comments" -> rest \union {"collect_comments"}
          [] mode = "refresh_llm" -> rest
          [] OTHER -> {}

\* Mutant: the digest's signature forgets the outline.
DigestKeys_NoOutline == {"meta", "text", "comments", "frames", "media", "policy"}

DigestKeys == {"meta", "outline", "text", "comments", "frames", "media", "policy"}

ArtifactKeys == {"meta", "digest", "outline", "comments", "text", "degr", "frames"}

\* What a step's signature is computed from; settings and the job do not change.
STEP_INPUT_KEYS(step) ==
    CASE step = "collect_subtitles" -> {"media"}
      [] step \in {"collect_comments", "fetch_article_content"} -> {"policy"}
      [] step = "extract_frames" -> {"media", "policy"}
      [] step = "llm_outline" -> {"meta", "text", "comments", "frames", "media", "policy"}
      [] step = "llm_digest" -> DigestKeys
      [] step = "build_embeddings" -> {"text", "outline"}
      [] step = "write_artifacts" -> ArtifactKeys
      [] OTHER -> {}

VARIABLES
    job,        \* the jobs row: content type, platform, whether it has a URL
    rows,       \* step_runs: by step and attempt
    checkpoint, \* checkpoints.last_completed_step of the job
    cache,      \* cache/<step>/<version>_<signature>.json
    legacy,     \* cache/<step>.json
    dirs,       \* directories that exist: cache/<step> by its step, and "frames"
    disk,       \* the run that wrote the media file and the frame files, 0: no file
    run,        \* the call of run_pipeline and the step it is at
    data,       \* its `state`: the products of the steps
    steps,      \* state["steps"]: the status of each step gone through
    degr,       \* state["degradations"]: the steps named there
    result,     \* what it returned
    basis,      \* what the digest of each run was written from (history)
    troubles

store == <<rows, checkpoint>>
workspace == <<cache, legacy, dirs, disk>>
local == <<data, steps, degr, result, basis>>
vars == <<job, store, workspace, run, local, troubles>>

StepsList == IF job.content = "article" THEN ARTICLE_PIPELINE_STEPS ELSE PIPELINE_STEPS
Step == StepsList[run.idx]
IsHard == run.policy \in HardPolicies

-----------------------------------------------------------------------------
(***************************************************************************)
(* Records.                                                                *)
(***************************************************************************)
Statuses == {"succeeded", "failed", "skipped"}
Categories == {"transient", "rate_limit", "auth", "fatal"}
Reasons == {"own", "cache_hit", "legacy_cache_hit", "checkpoint_recovered", "mode_matrix_skip"}
NON_DEGRADING_SKIP_REASONS ==
    {"cache_hit", "legacy_cache_hit", "checkpoint_recovered", "mode_matrix_skip"}

\* StepExecution: cat is its error_kind, once classified; updates its state_updates.
Exec(status, reason, cat, updates, degraded) ==
    [status |-> status, reason |-> reason, cat |-> cat, updates |-> updates,
     degraded |-> degraded]

Nothing == [x \in {} |-> 0]
NoExec == Exec("failed", "own", "none", Nothing, FALSE)
One(key, value) == [x \in {key} |-> value]

Done(updates) == Exec("succeeded", "own", "none", updates, FALSE)
Degraded(updates) == Exec("succeeded", "own", "none", updates, TRUE)
Skipped(updates) == Exec("skipped", "own", "none", updates, TRUE)
Failed(cat, updates, degraded) == Exec("failed", "own", cat, updates, degraded)

\* apply_state_updates.
Updated(updates) ==
    [k \in DOMAIN data |-> IF k \in DOMAIN updates THEN updates[k] ELSE data[k]]

\* The product of a run: metadata and comments bear the time they were fetched.
Of(kind, n) == [kind |-> kind, run |-> n]

Row(status, key, exec) == [status |-> status, key |-> key, exec |-> exec]
NoRow == Row("none", Nothing, NoExec)

\* The products a run starts from; policy is the overrides and what is built of them.
EmptyState(policy, n) ==
    [meta |-> Of("none", 0), media |-> FALSE, text |-> "empty", comments |-> Of("empty", n),
     frames |-> 0, outline |-> 0, digest |-> 0, policy |-> policy]

Places == {"idle", "begin", "try", "sleep", "finish", "checkpoint", "write", "resolve",
           "returned", "raised", "cancelled", "dead"}
Ended == {"idle", "returned", "raised", "cancelled", "dead"}

Run(pc, n, mode, policy, upto, idx) ==
    [pc |-> pc, n |-> n, mode |-> mode, policy |-> policy, upto |-> upto, idx |-> idx,
     failed |-> 0, key |-> Nothing, exec |-> NoExec]

Init ==
    /\ job \in [content : ContentTypes, platform : Platforms, url : BOOLEAN]
    /\ job.url \/ "no_url" \in Faults
    /\ rows = [s \in Steps |-> [n \in 1..MaxRuns |-> NoRow]]
    /\ checkpoint = "none"
    /\ cache = [s \in Steps |-> {}]
    /\ legacy = [s \in Steps |-> NoExec]
    /\ dirs = {}
    /\ disk = [media |-> 0, frames |-> 0]
    /\ run = Run("idle", 0, "full", 0, 0, 1)
    /\ data = EmptyState(0, 0)
    /\ steps = [s \in Steps |-> "none"]
    /\ degr = {}
    /\ result = [final |-> "none", gate |-> FALSE, fatal |-> FALSE]
    /\ basis = [n \in 1..MaxRuns |-> 0]
    /\ troubles = 0

Fault(f) == f \in Faults /\ troubles < MaxTroubles
Goto(pc) == run' = [run EXCEPT !.pc = pc]

-----------------------------------------------------------------------------
(***************************************************************************)
(* run_pipeline.                                                           *)
(***************************************************************************)
\* steps_list.index(checkpoint_step), and 0 (-1 there) for a name it does not hold.
ResumeUpto(name) ==
    IF \E i \in DOMAIN StepsList : StepsList[i] = name
      THEN CHOOSE i \in DOMAIN StepsList : StepsList[i] = name
      ELSE 0

(***************************************************************************)
(* build_context makes the directories, then the checkpoint is read.  The  *)
(* activity before has left its own name there.  next_attempt numbers the  *)
(* runs from 1.                                                            *)
(***************************************************************************)
Start(caller, mode, policy) ==
    LET name == IF caller = "activity" THEN "mark_running" ELSE checkpoint
        n == run.n + 1
    IN  /\ run.pc \in Ended /\ run.n < MaxRuns
        /\ checkpoint' = name
        /\ dirs' = dirs \union {"frames"}
        /\ run' = Run("begin", n, mode, policy, ResumeUpto(name), 1)
        /\ data' = EmptyState(policy, n)
        /\ steps' = [s \in Steps |-> "none"]
        /\ degr' = {}
        /\ result' = [final |-> "none", gate |-> FALSE, fatal |-> FALSE]
        /\ UNCHANGED <<job, rows, cache, legacy, disk, basis, troubles>>

ModeSkipped == Step \in PIPELINE_MODE_SKIP_STEPS(run.mode)

ForceRun == Step \in PIPELINE_MODE_FORCE_STEPS(run.mode) \/ ModeSkipped

\* Mutant: the step the checkpoint names is not among those it covers.
ResumeHint_Before == run.idx < run.upto /\ ~ForceRun

ResumeHint == run.idx <= run.upto /\ ~ForceRun

(***************************************************************************)
(* build_step_cache_info: the inputs of the signature.  A degradation is   *)
(* stamped with its time, so that two runs never list the same ones.       *)
(***************************************************************************)
InputValue(k) ==
    IF k = "degr" THEN <<degr, IF degr = {} THEN 0 ELSE run.n>> ELSE data[k]
Key == [k \in STEP_INPUT_KEYS(Step) |-> InputValue(k)]

-----------------------------------------------------------------------------
(***************************************************************************)
(* execute_step: a recovered execution, or none.                           *)
(***************************************************************************)
\* A torn file does not parse and counts as no file.
Readable(exec) == exec.status = "succeeded"

Recovered(exec, reason) == Exec("skipped", reason, exec.cat, exec.updates, exec.degraded)

CacheFiles == {e \in cache[Step] : e.key = Key /\ Readable(e.exec)}
LegacyRead == Step \in V1Steps /\ Readable(legacy[Step])

\* get_latest_step_run(status="succeeded", cache_key=...): the last attempt's.
SucceededRows == {n \in 1..MaxRuns : rows[Step][n].status = "succeeded" /\ rows[Step][n].key = Key}
LatestRow == CHOOSE n \in SucceededRows : \A m \in SucceededRows : m <= n

HitReason(reason) == IF ResumeHint THEN "checkpoint_recovered" ELSE reason

\* _load_step_execution_from_cache, then with resume_hint the row of an earlier attempt.
Lookup ==
    IF ForceRun THEN NoExec
    ELSE IF CacheFiles # {}
      THEN Recovered((CHOOSE e \in CacheFiles : TRUE).exec, HitReason("cache_hit"))
    ELSE IF LegacyRead
      THEN Recovered(legacy[Step], HitReason("legacy_cache_hit"))
    ELSE IF ResumeHint /\ SucceededRows # {}
      THEN Recovered(rows[Step][LatestRow].exec, "checkpoint_recovered")
    ELSE NoExec

\* Mutant: a step numbers its rows from 1 in every run.
RowIndex_First == 1

RowIndex == run.n

SetRow(row) == rows' = [rows EXCEPT ![Step][RowIndex] = row]

(***************************************************************************)
(* The directory of the step's cache is made, the row marked running, and  *)
(* the cache looked at.                                                    *)
(***************************************************************************)
Begin ==
    LET found == Lookup
    IN  /\ run.pc = "begin"
        /\ dirs' = dirs \union {Step}
        /\ SetRow(Row("running", Key, NoExec))
        /\ run' = [run EXCEPT !.pc = IF found = NoExec THEN "try" ELSE "finish",
                              !.key = Key, !.exec = found, !.failed = 0]
        /\ UNCHANGED <<job, checkpoint, cache, legacy, disk, local, troubles>>

-----------------------------------------------------------------------------
(***************************************************************************)
(* The handlers: what each may return.                                     *)
(***************************************************************************)
\* build_mode_skip_step.
PIPELINE_MODE_SKIP_UPDATES ==
    CASE Step = "download_media" -> One("media", FALSE)
      [] Step = "collect_subtitles" -> One("text", "empty")
      [] Step = "extract_frames" -> One("frames", 0)
ModeSkip == Exec("skipped", "mode_matrix_skip", "none", PIPELINE_MODE_SKIP_UPDATES, FALSE)

\* yt-dlp tells the metadata, or the row's own do.
FetchMetadata ==
    IF job.url
      THEN {Done(One("meta", Of("full", run.n))), Degraded(One("meta", Of("fallback", run.n)))}
      ELSE {Failed("fatal", One("meta", Of("base", run.n)), TRUE)}

(***************************************************************************)
(* The providers of the chain are tried in turn.  What remains when all    *)
(* fail is the last one's reason: no file after a success (fatal), a       *)
(* timeout (transient), or an exit code and what it wrote to stderr, which *)
(* is classified like any error; or no binary was there at all.            *)
(***************************************************************************)
DownloadMedia ==
    IF job.url
      THEN {Done(One("media", TRUE)), Skipped(One("media", FALSE))}
               \union {Failed(c, One("media", FALSE), TRUE) : c \in Categories}
      ELSE {Skipped(One("media", FALSE))}

\* The files of this or an earlier download, YouTube's transcript, speech recognition.
CollectSubtitles == {Done(One("text", "full")), Degraded(One("text", "empty"))}

CollectComments ==
    LET got(kind) == One("comments", Of(kind, run.n))
    IN  IF job.platform \in Supported THEN {Done(got("some")), Degraded(got("empty"))}
                                      ELSE {Skipped(got("empty"))}

\* ffmpeg needs the media file and the directory it writes to.
ExtractFrames ==
    LET none == One("frames", 0)
        broken == {Failed("transient", none, TRUE)}
    IN  IF ~data.media THEN {Skipped(none)}
        ELSE IF disk.media = 0 \/ "frames" \notin dirs THEN broken
        ELSE {Done(One("frames", data.policy)), Skipped(none), Failed("fatal", none, TRUE)}
                 \union broken

(***************************************************************************)
(* An article's text, or its feed entry's; the link alone is text enough,  *)
(* so that only a job without URL has none.                                *)
(***************************************************************************)
FetchArticleContent ==
    LET got(kind, text) ==
            [meta |-> Of(kind, run.n), text |-> text, frames |-> 0, comments |-> Of("none", 0)]
    IN  IF job.url
          THEN {Done(got("full", "full")), Degraded(got("fallback", "fallback"))}
          ELSE {Failed("fatal", got("base", "empty"), FALSE)}

\* step_llm_outline and step_llm_digest fail closed, and are not degraded when they fail.
Llm(key) ==
    {Done(One(key, run.n))} \union {Failed(c, Nothing, FALSE) : c \in Categories}

\* Provider, store or video row missing: degraded, the rows stay.
BuildEmbeddings == {Done(Nothing), Degraded(Nothing)}

WriteArtifacts == {Done(Nothing), Failed("fatal", Nothing, TRUE)}

\* A handler that raises is caught: unhandled_exception.
Unhandled == Failed("fatal", Nothing, TRUE)

StepHandler ==
    CASE Step = "fetch_metadata" -> FetchMetadata
      [] Step = "download_media" -> DownloadMedia
      [] Step = "collect_subtitles" -> CollectSubtitles
      [] Step = "collect_comments" -> CollectComments
      [] Step = "extract_frames" -> ExtractFrames
      [] Step = "fetch_article_content" -> FetchArticleContent
      [] Step = "llm_outline" -> Llm("outline")
      [] Step = "llm_digest" -> Llm("digest")
      [] Step = "build_embeddings" -> BuildEmbeddings
      [] Step = "write_artifacts" -> WriteArtifacts

\* run_pipeline takes build_mode_skip_step in place of the step's own.
Handler == IF ModeSkipped THEN {ModeSkip} ELSE StepHandler

Outcomes == Handler \union (IF ModeSkipped THEN {} ELSE {Unhandled})

\* The outcomes a run without troubles has: the best there is.
Smooth(o) ==
    /\ o \in Handler
    /\ \/ o.status = "succeeded" /\ ~o.degraded
       \/ \A p \in Handler : p.status # "succeeded"

\* Mutant: the counter starts anew at each failure.
FailedAttempts_Anew == 1

\* failed_attempts, with the one at hand; retries_used is one less.
FailedAttempts == run.failed + 1

\* build_retry_policy: an LLM step's max_retries replaces every category's number.
Budget(cat) ==
    IF Step \in LlmSteps /\ LlmMaxRetries # {} THEN CHOOSE n \in LlmMaxRetries : TRUE
    ELSE CASE cat = "transient" -> TransientRetries
           [] cat = "rate_limit" -> RateLimitRetries
           [] OTHER -> 0

\* What a handler leaves behind, however it ends.
SideEffects(o) ==
    /\ disk' = IF ModeSkipped \/ o.status # "succeeded" THEN disk
               ELSE CASE Step = "download_media" -> [disk EXCEPT !.media = run.n]
                      [] Step = "extract_frames" -> [disk EXCEPT !.frames = run.n]
                      [] OTHER -> disk
    /\ basis' = IF Step = "llm_digest" /\ o.status = "succeeded"
                  THEN [basis EXCEPT ![run.n] = data.outline]
                  ELSE basis

(***************************************************************************)
(* A try of the handler.  One trouble is counted for a step however often  *)
(* it then fails.                                                          *)
(***************************************************************************)
Try ==
    /\ run.pc = "try"
    /\ \E o \in Outcomes :
          /\ \/ Smooth(o) /\ UNCHANGED troubles
             \/ ~Smooth(o) /\ run.failed > 0 /\ UNCHANGED troubles
             \/ ~Smooth(o) /\ run.failed = 0 /\ Fault("step") /\ troubles' = troubles + 1
          /\ SideEffects(o)
          /\ run' = IF o.status = "failed" /\ run.failed < Budget(o.cat)
                      THEN [run EXCEPT !.pc = "sleep", !.failed = FailedAttempts]
                      ELSE [run EXCEPT !.pc = "finish", !.exec = o]
    /\ UNCHANGED <<job, store, cache, legacy, dirs, data, steps, degr, result>>

\* asyncio.sleep(retry_delay_seconds(...)) before the handler is tried again.
Sleep ==
    /\ run.pc = "sleep"
    /\ Goto("try")
    /\ UNCHANGED <<job, store, workspace, local, troubles>>

-----------------------------------------------------------------------------
(***************************************************************************)
(* execute_step, once there is an execution.                               *)
(***************************************************************************)
\* The updates are applied and the row is marked finished, one transaction.
Finish ==
    /\ run.pc = "finish"
    /\ data' = Updated(run.exec.updates)
    /\ SetRow(Row(run.exec.status, run.key, run.exec))
    /\ Goto(IF run.exec.status = "failed" THEN "write" ELSE "checkpoint")
    /\ UNCHANGED <<job, checkpoint, workspace, steps, degr, result, basis, troubles>>

\* Mutant: the checkpoint names the step to go on with.
CheckpointName_Next == IF run.idx < Len(StepsList) THEN StepsList[run.idx + 1] ELSE Step

CheckpointName == Step

Checkpoint ==
    /\ run.pc = "checkpoint"
    /\ checkpoint' = CheckpointName
    /\ Goto("write")
    /\ UNCHANGED <<job, rows, workspace, local, troubles>>

LlmHardFailed == Step \in LlmSteps /\ run.exec.status = "failed" /\ IsHard

\* Mutant: what a recovered execution had degraded is not looked at again.
Degrades_Fresh ==
    /\ run.exec.reason \notin NON_DEGRADING_SKIP_REASONS
    /\ \/ run.exec.status = "failed" /\ ~LlmHardFailed
       \/ run.exec.degraded

\* Whether append_degradation is called.
Degrades ==
    \/ run.exec.status = "failed" /\ ~LlmHardFailed
    \/ run.exec.degraded
    \/ run.exec.status = "skipped" /\ run.exec.reason \notin NON_DEGRADING_SKIP_REASONS

\* The step's record; the loop stops after a hard-required LLM failure.
Record ==
    /\ steps' = [steps EXCEPT ![Step] = run.exec.status]
    /\ run' = IF LlmHardFailed \/ run.idx = Len(StepsList)
                THEN [run EXCEPT !.pc = "resolve"]
                ELSE [run EXCEPT !.pc = "begin", !.idx = @ + 1]

Fatal ==
    run.exec.status = "failed" /\ (Step = "write_artifacts" \/ LlmHardFailed)

File(exec) == [key |-> run.key, exec |-> exec]
Others == {e \in cache[Step] : e.key # run.key}

(***************************************************************************)
(* The degradation, the cache files of a success, and the record.  The     *)
(* directory made in Begin is not made again.                              *)
(***************************************************************************)
Write ==
    /\ run.pc = "write"
    /\ degr' = IF Degrades THEN degr \union {Step} ELSE degr
    /\ result' = [result EXCEPT !.fatal = @ \/ Fatal]
    /\ IF run.exec.status # "succeeded"
         THEN Record /\ UNCHANGED <<cache, legacy>>
         ELSE IF Step \in dirs
         THEN /\ cache' = [cache EXCEPT ![Step] = Others \union {File(run.exec)}]
              /\ legacy' = [legacy EXCEPT ![Step] = run.exec]
              /\ Record
         ELSE Goto("raised") /\ UNCHANGED <<steps, cache, legacy>>
    /\ UNCHANGED <<job, store, dirs, disk, data, basis, troubles>>

-----------------------------------------------------------------------------
(***************************************************************************)
(* The verdict.                                                            *)
(***************************************************************************)
Passed == {"succeeded", "skipped"}
Gone == {s \in Steps : steps[s] # "none"}

\* Mutant: the status of the last step is taken for the pipeline's.
resolve_pipeline_status_Last == IF Gone = {} THEN "failed" ELSE steps[Step]

\* Mutant: a required LLM step that failed does not decide the status.
resolve_pipeline_status_Soft ==
    IF \E s \in Gone \ LlmSteps : steps[s] = "failed" THEN "failed"
    ELSE IF degr # {} \/ \E s \in LlmSteps : steps[s] = "failed" THEN "degraded"
    ELSE "succeeded"

resolve_pipeline_status ==
    IF Gone = {} \/ \E s \in Gone : steps[s] = "failed" /\ (s \notin LlmSteps \/ IsHard)
      THEN "failed"
    ELSE IF degr # {} \/ \E s \in LlmSteps : steps[s] = "failed" THEN "degraded"
    ELSE "succeeded"

resolve_llm_gate == ~IsHard \/ \A s \in LlmSteps : steps[s] \in Passed

Return ==
    /\ run.pc = "resolve"
    /\ result' = [result EXCEPT !.final = resolve_pipeline_status, !.gate = resolve_llm_gate]
    /\ Goto("returned")
    /\ UNCHANGED <<job, store, workspace, data, steps, degr, basis, troubles>>

-----------------------------------------------------------------------------
(***************************************************************************)
(* Faults.                                                                 *)
(***************************************************************************)
Cancelled == Failed("fatal", Nothing, TRUE)

\* Mutant: the cancellation is not written in the ledger.
CancelRow_Kept == rows[Step][run.n]

CancelRow == Row("failed", run.key, Cancelled)

\* CancelledError while the handler, or the sleep before a retry, is awaited.
Cancel ==
    /\ Fault("cancel") /\ run.pc \in {"try", "sleep"}
    /\ SetRow(CancelRow)
    /\ steps' = [steps EXCEPT ![Step] = "failed"]
    /\ degr' = degr \union {Step}
    /\ Goto("cancelled")
    /\ troubles' = troubles + 1
    /\ UNCHANGED <<job, checkpoint, workspace, data, result, basis>>

(***************************************************************************)
(* The process dies.  While the cache is written, that leaves the first    *)
(* file torn, the second not written, or the second torn.                  *)
(***************************************************************************)
Torn ==
    /\ run.pc = "write" /\ run.exec.status = "succeeded" /\ Step \in dirs
    /\ \/ /\ cache' = [cache EXCEPT ![Step] = Others \union {File(NoExec)}]
          /\ UNCHANGED legacy
       \/ /\ cache' = [cache EXCEPT ![Step] = Others \union {File(run.exec)}]
          /\ legacy' \in {legacy, [legacy EXCEPT ![Step] = NoExec]}

Crash ==
    /\ Fault("crash") /\ run.pc \notin Ended
    /\ Torn \/ UNCHANGED <<cache, legacy>>
    /\ Goto("dead")
    /\ troubles' = troubles + 1
    /\ UNCHANGED <<job, store, dirs, disk, local>>

(***************************************************************************)
(* cleanup_workspace_media_files: media and frames older than 24 hours,    *)
(* which are those of earlier runs, then prune_empty_dirs, whatever their  *)
(* age.                                                                    *)
(***************************************************************************)
Current(n) == run.pc \notin Ended /\ n = run.n

HasFiles(d) == IF d = "frames" THEN disk'.frames # 0 ELSE cache[d] # {}

Cleanup ==
    /\ Fault("cleanup")
    /\ \/ UNCHANGED disk
       \/ disk' = [f \in DOMAIN disk |-> IF Current(disk[f]) THEN disk[f] ELSE 0]
    /\ dirs' = {d \in dirs : HasFiles(d)}
    /\ <<disk, dirs>>' # <<disk, dirs>>
    /\ troubles' = troubles + 1
    /\ UNCHANGED <<job, store, cache, legacy, run, local>>

Advance == Begin \/ Try \/ Sleep \/ Finish \/ Checkpoint \/ Write \/ Return

Next ==
    \/ \E c \in Callers, m \in Modes, p \in Policies : Start(c, m, p)
    \/ Advance
    \/ Cancel
    \/ Crash
    \/ Cleanup

Spec == Init /\ [][Next]_vars /\ WF_vars(Advance)

-----------------------------------------------------------------------------
Texts == {"empty", "full", "fallback"}
Runs == 1..MaxRuns
Products == 0..MaxRuns
Kinds == {"none", "base", "fallback", "full", "empty", "some"}

TypeOK ==
    /\ job \in [content : ContentTypes, platform : Platforms, url : BOOLEAN]
    /\ \A s \in Steps, n \in Runs : rows[s][n].status \in Statuses \union {"none", "running"}
    /\ checkpoint \in Steps \union {"none", "mark_running"}
    /\ \A s \in Steps : \A e \in cache[s] : e.exec = NoExec \/ e.exec.status = "succeeded"
    /\ \A s \in Steps : legacy[s] = NoExec \/ legacy[s].status = "succeeded"
    /\ dirs \subseteq Steps \union {"frames"}
    /\ disk \in [media : Products, frames : Products]
    /\ run.pc \in Places /\ run.n \in Products /\ run.idx \in 1..9 /\ run.upto \in 0..9
    /\ data \in [meta : [kind : Kinds, run : Products], media : BOOLEAN, text : Texts,
                 comments : [kind : Kinds, run : Products], frames : Nat,
                 outline : Products, digest : Products, policy : Nat]
    /\ steps \in [Steps -> Statuses \union {"none"}]
    /\ degr \subseteq Steps
    /\ result \in [final : {"none", "succeeded", "degraded", "failed"},
                   gate : BOOLEAN, fatal : BOOLEAN]
    /\ basis \in [Runs -> Products]
    /\ troubles \in 0..MaxTroubles

(***************************************************************************)
(* The two resolvers and the loop's break agree: a run whose status is not *)
(* failed has passed the LLM gate, met no fatal error, gone through every  *)
(* step and written its artifacts.  mark_succeeded relies on this.         *)
(***************************************************************************)
GateAgreesWithStatus ==
    run.pc = "returned" /\ result.final # "failed" =>
        /\ result.gate /\ ~result.fatal
        /\ Gone = {StepsList[i] : i \in DOMAIN StepsList}
        /\ steps["write_artifacts"] \in Passed

(***************************************************************************)
(* A run that reports succeeded hides nothing: whatever its mode did not   *)
(* skip it has in full, even when a step was recovered from the cache of   *)
(* a run in which that step had been degraded.                             *)
(***************************************************************************)
SucceededIsComplete ==
    run.pc = "returned" /\ result.final = "succeeded" =>
        /\ data.meta.kind = "full"
        /\ data.outline # 0 /\ data.digest # 0
        /\ job.content = "article" \/ data.comments.kind = "some"
        /\ run.mode # "text_only" \/ job.content = "article" =>
               data.text = "full" /\ (job.content = "video" => data.media /\ data.frames # 0)

(***************************************************************************)
(* The digest a run delivers was written from the outline it delivers,     *)
(* whichever of the two came from the cache and whichever was refreshed.   *)
(***************************************************************************)
DigestMatchesOutline ==
    run.pc = "returned" /\ data.digest # 0 => basis[data.digest] = data.outline

(***************************************************************************)
(* Only a dead process leaves a row behind that says running: a run that   *)
(* returns, raises or is cancelled has finished every row it opened.       *)
(***************************************************************************)
NoRowLeftRunning ==
    run.pc \in {"returned", "raised", "cancelled"} =>
        \A s \in Steps : rows[s][run.n].status # "running"

(***************************************************************************)
(* The checkpoint never runs ahead of the ledger: the step it names has a  *)
(* row that says it was done.  A resumed run trusts it that far.           *)
(***************************************************************************)
CheckpointBacked ==
    checkpoint \in Steps => \E n \in Runs : rows[checkpoint][n].status \in Passed

(***************************************************************************)
(* What a run wrote in the ledger, later runs do not rewrite.              *)
(***************************************************************************)
LedgerIsKept ==
    [][\A s \in Steps, n \in Runs : rows[s][n].status \in Statuses => rows'[s][n] = rows[s][n]]_rows

(***************************************************************************)
(* A resumed run does not do again what the crashed one had done and put   *)
(* on record for the same inputs, up to the checkpoint and unless the mode *)
(* forces the step.                                                        *)
(***************************************************************************)
RecordedWorkIsKept ==
    [][run.pc = "begin" /\ run'.pc = "try" /\ run.idx <= run.upto =>
           ForceRun \/ \A n \in Runs : rows[Step][n].status = "succeeded" => rows[Step][n].key # Key]_run

\* The retries of a step are bounded, and so every run comes to an end.
RunEnds == run.pc \notin Ended ~> run.pc \in Ended

-----------------------------------------------------------------------------
(***************************************************************************)
(* docs/architecture.md, Failure Model: only a failure on the critical     *)
(* path, such as artifacts that cannot be written, makes the status failed.*)
(***************************************************************************)
DegradableStepIsNotFatal ==
    run.pc = "returned" /\ result.final = "failed" =>
        steps["write_artifacts"] = "failed" \/ ~result.gate

(***************************************************************************)
(* docs/reference/cache.md, Cleanup Strategy: the cleanup removes outdated *)
(* media files and cache files.  A run at work has neither.                *)
(***************************************************************************)
CleanupIsHarmless == run.pc # "raised"

=============================================================================
