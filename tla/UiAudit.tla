------------------------------ MODULE UiAudit -------------------------------
(***************************************************************************)
(* The services of the API that ask a model: the UI audit, the planner of  *)
(* computer use and the query embedding of the retrieval.  Each gives the  *)
(* call to an executor of one thread, waits for it up to its time limit,   *)
(* and on the limit waits for it again: leaving the executor's block joins *)
(* its thread.  An audit keeps its run in the process's memory and in a    *)
(* file, and the process may restart at any moment; the files it looks at  *)
(* belong to others and may go away.                                       *)
(***************************************************************************)
EXTENDS Naturals, FiniteSets

CONSTANTS
    Requests,      \* one request each; an audit's request is its run_id
    AuditFiles,    \* subset of {"trace.json", "shot.png", "notes.txt"}
    ModelRetries,  \* *_MODEL_MAX_RETRIES
    Restarts       \* bound: restarts of the API

VARIABLES
    present,     \* files now in the artifact root
    request,     \* what each request is doing
    calls,       \* calls of each request the provider is working on
    run_store,   \* UiAuditService._run_store
    run_files,   \* the run store's directory
    answered,    \* what the client of each run was told
    restarts

auditVars == <<present, request, calls, run_store, run_files, answered, restarts>>

Services == {"audit", "plan", "semantic", "hybrid"}
NoRun == [status |-> "none", artifacts |-> {}, findings |-> {}]
Audit(status, artifacts, findings) ==
    [status |-> status, artifacts |-> artifacts, findings |-> findings]
NoRequest ==
    [pc |-> "idle", service |-> "audit", run |-> NoRun, attempt |-> 0, asked |-> 0,
     overdue |-> FALSE, used |-> "none"]

AuditInit ==
    /\ present = AuditFiles
    /\ request = [r \in Requests |-> NoRequest]
    /\ calls = [r \in Requests |-> 0]
    /\ run_store = [r \in Requests |-> NoRun]
    /\ run_files = run_store /\ answered = run_store
    /\ restarts = 0

Was(r, pc) == request[r].pc = pc
To(r, pc) == request' = [request EXCEPT ![r].pc = pc]
Collected(r, run) == request' = [request EXCEPT ![r].run = run, ![r].pc = "review"]
Reviewed(r, status, findings) ==
    request' = [request EXCEPT ![r].run = Audit(status, @.artifacts, @.findings \union findings),
                               ![r].pc = "save"]
UNCHANGED_store == UNCHANGED <<run_store, run_files, answered, restarts>>

-----------------------------------------------------------------------------
(***************************************************************************)
(* UiAuditService.run up to the review: the root is resolved, its files    *)
(* are listed, and those of findings are read if they are still there.  A  *)
(* file that is no JSON gives none; one that is no text ends the request.  *)
(***************************************************************************)
StartAudit(r) ==
    /\ Was(r, "idle")
    /\ \/ /\ present # {}
          /\ request' = [request EXCEPT ![r].pc = "findings",
                                        ![r].run = Audit("none", present, {})]
       \/ request' = [request EXCEPT ![r].pc = "save", ![r].run = Audit("not_found", {}, {})]
    /\ UNCHANGED <<present, calls>> /\ UNCHANGED_store

Read(r) ==
    IF "trace.json" \in request[r].run.artifacts \intersect present
    THEN {"high", "none", "raises"} ELSE {"none"}

CollectFindings(r) ==
    /\ Was(r, "findings")
    /\ \E found \in Read(r) :
          IF found = "raises" THEN To(r, "failed")
          ELSE Collected(r, [request[r].run EXCEPT !.findings =
                  IF found = "high" THEN {"high"}
                  ELSE IF "trace.json" \in request[r].run.artifacts THEN {"evidence-collected"}
                  ELSE {}])
    /\ UNCHANGED <<present, calls>> /\ UNCHANGED_store

(***************************************************************************)
(* _run_gemini_review's early returns, and what it selects: images as they *)
(* were listed, texts that can be read now.                                *)
(***************************************************************************)
Selected(r) ==
    (request[r].run.artifacts \intersect {"shot.png"})
        \union ((request[r].run.artifacts \intersect present) \ {"shot.png"})

Review(r) ==
    /\ Was(r, "review")
    /\ \/ Reviewed(r, "completed_with_gemini_skipped", {})   \* disabled, or no key
       \/ Reviewed(r, "completed_with_gemini_failure", {"sdk-unavailable"})
       \/ IF Selected(r) = {} THEN Reviewed(r, "completed_with_gemini_skipped", {})
          ELSE To(r, "call")
    /\ UNCHANGED <<present, calls>> /\ UNCHANGED_store

\* The planner refuses what it cannot send; the retrieval answers without an embedding.
StartOther(r, service) ==
    /\ Was(r, "idle") /\ service # "audit"
    /\ \E ready \in BOOLEAN :
          request' = [request EXCEPT ![r].service = service,
             ![r].pc = IF ready THEN "call" ELSE IF service = "plan" THEN "failed" ELSE "done"]
    /\ UNCHANGED <<present, calls>> /\ UNCHANGED_store

-----------------------------------------------------------------------------
(***************************************************************************)
(* _generate_with_timeout_and_retry.                                       *)
(***************************************************************************)
Attempts(r) == IF request[r].service \in {"audit", "plan"} THEN ModelRetries + 1 ELSE 1

Submit(r) ==
    /\ Was(r, "call")
    /\ request' = [request EXCEPT ![r].pc = "wait", ![r].attempt = @ + 1, ![r].asked = @ + 1,
                                  ![r].overdue = FALSE]
    /\ calls' = [calls EXCEPT ![r] = @ + 1]
    /\ UNCHANGED present /\ UNCHANGED_store

\* future.result(timeout) raises; the executor's __exit__ comes next.
TimesOut(r) ==
    /\ Was(r, "wait") /\ ~request[r].overdue
    /\ request' = [request EXCEPT ![r].overdue = TRUE]
    /\ UNCHANGED <<present, calls>> /\ UNCHANGED_store

Joined_Not(r) == TRUE

Joined(r) == calls[r] = 0

NextAttempt(r) == IF request[r].attempt < Attempts(r) THEN "call" ELSE "gave_up"

\* The thread is joined after the limit: what it returned is dropped.
Retry(r) ==
    /\ Was(r, "wait") /\ request[r].overdue /\ Joined(r)
    /\ To(r, NextAttempt(r))
    /\ UNCHANGED <<present, calls>> /\ UNCHANGED_store

Replies == {"ok", "empty", "invalid", "error"}

CallEnds(r) ==
    /\ calls[r] > 0
    /\ calls' = [calls EXCEPT ![r] = @ - 1]
    /\ \E reply \in Replies :
          request' = IF ~Was(r, "wait") \/ request[r].overdue THEN request
                     ELSE [request EXCEPT ![r].used = reply,
                             ![r].pc = IF reply = "error" THEN NextAttempt(r) ELSE "judge"]
    /\ UNCHANGED present /\ UNCHANGED_store

-----------------------------------------------------------------------------
(***************************************************************************)
(* What each service makes of the reply, or of none.                       *)
(***************************************************************************)
JudgeAudit(r) ==
    /\ request[r].service = "audit"
    /\ \/ Was(r, "gave_up") /\ Reviewed(r, "completed_with_gemini_failure", {"provider-error"})
       \/ /\ Was(r, "judge") /\ request[r].used = "ok"
          /\ \E found \in SUBSET {"gemini", "overall"} : Reviewed(r, "completed", found)
       \/ /\ Was(r, "judge") /\ request[r].used # "ok"
          /\ Reviewed(r, "completed_with_gemini_failure", {request[r].used})
    /\ UNCHANGED <<present, calls>> /\ UNCHANGED_store

\* A plan without calls is the action "observe"; a hybrid search goes on with its keywords.
JudgeOther(r) ==
    /\ request[r].service # "audit" /\ request[r].pc \in {"gave_up", "judge"}
    /\ To(r, IF \/ request[r].service = "hybrid"
                \/ Was(r, "judge") /\ (request[r].service = "plan" \/ request[r].used = "ok")
             THEN "done" ELSE "failed")
    /\ UNCHANGED <<present, calls>> /\ UNCHANGED_store

-----------------------------------------------------------------------------
(***************************************************************************)
(* _save_run: memory first, then a temporary file that replaces the run's  *)
(* file, or nothing when the disk refuses either.                          *)
(***************************************************************************)
SaveRun(r) ==
    /\ Was(r, "save")
    /\ run_store' = [run_store EXCEPT ![r] = request[r].run]
    /\ To(r, "persist")
    /\ UNCHANGED <<present, calls, run_files, answered, restarts>>

PersistRun(r) ==
    /\ Was(r, "persist")
    /\ \/ run_files' = [run_files EXCEPT ![r] = request[r].run]
       \/ UNCHANGED run_files
    /\ To(r, "answer")
    /\ UNCHANGED <<present, calls, run_store, answered, restarts>>

AnswerRun(r) ==
    /\ Was(r, "answer")
    /\ answered' = [answered EXCEPT ![r] = request[r].run]
    /\ To(r, "done")
    /\ UNCHANGED <<present, calls, run_store, run_files, restarts>>

load_run_from_disk_Not(r) == NoRun

load_run_from_disk(r) == run_files[r]

LoadRun(r) == IF run_store[r] # NoRun THEN run_store[r] ELSE load_run_from_disk(r)

\* get, list_findings, list_artifacts and autofix: each reads the run, and keeps it.
ReadRun(r) ==
    /\ LoadRun(r) # run_store[r]
    /\ run_store' = [run_store EXCEPT ![r] = LoadRun(r)]
    /\ UNCHANGED <<present, request, calls, run_files, answered, restarts>>

\* Files of the root are of the jobs, which the workspace's cleanup removes.
FileGoes(f) ==
    /\ f \in present
    /\ present' = present \ {f}
    /\ UNCHANGED <<request, calls>> /\ UNCHANGED_store

\* The process stops with its memory; the provider finishes what it was sent.
Restart ==
    /\ restarts < Restarts
    /\ restarts' = restarts + 1
    /\ run_store' = [r \in Requests |-> NoRun]
    /\ request' = [r \in Requests |->
                      IF request[r].pc \in {"idle", "done", "failed"} THEN request[r]
                      ELSE [request[r] EXCEPT !.pc = "failed"]]
    /\ UNCHANGED <<present, calls, run_files, answered>>

AuditNext ==
    \/ \E r \in Requests :
          \/ StartAudit(r) \/ CollectFindings(r) \/ Review(r)
          \/ \E service \in Services : StartOther(r, service)
          \/ Submit(r) \/ TimesOut(r) \/ Retry(r) \/ CallEnds(r)
          \/ JudgeAudit(r) \/ JudgeOther(r)
          \/ SaveRun(r) \/ PersistRun(r) \/ AnswerRun(r) \/ ReadRun(r)
    \/ \E f \in AuditFiles : FileGoes(f)
    \/ Restart

AuditSpec == AuditInit /\ [][AuditNext]_auditVars

-----------------------------------------------------------------------------
(***************************************************************************)
(* A run that was answered reads the same ever after, as long as the       *)
(* process lives, and in a later process too unless the disk refused it;   *)
(* what a run says of the review is what the reply that arrived in time    *)
(* was worth, so a late or failed one lends it no finding.                 *)
(***************************************************************************)
AnsweredRunIsKept ==
    \A r \in Requests :
        /\ answered[r] # NoRun =>
              LoadRun(r) = answered[r] \/ (restarts > 0 /\ run_files[r] = NoRun)
        /\ LoadRun(r).status = "completed" <=>
              LoadRun(r) # NoRun /\ request[r].used = "ok" /\ ~request[r].overdue
        /\ LoadRun(r).findings \intersect {"gemini", "overall"} # {} => request[r].used = "ok"

(***************************************************************************)
(* A request has one call at the provider at most, and spends no more      *)
(* calls than its retries allow: a retry follows the end of the call that  *)
(* was too slow, even when its time is long over.                          *)
(***************************************************************************)
OneCallAtATime ==
    \A r \in Requests : calls[r] <= 1 /\ request[r].asked <= Attempts(r)

=============================================================================
