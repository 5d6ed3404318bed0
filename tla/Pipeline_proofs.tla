--------------------------- MODULE Pipeline_proofs ---------------------------
(***************************************************************************)
(* Theorems about Pipeline for any number of runs, modes, policies,        *)
(* retries and faults: what the ledger says, and what the verdict.         *)
(***************************************************************************)
EXTENDS Pipeline, Integers, TLAPS, WellFoundedInduction

-----------------------------------------------------------------------------
(***************************************************************************)
(* The lists of steps: no step occurs twice.                               *)
(***************************************************************************)
LEMMA StepsListFacts ==
  /\ Len(StepsList) \in 1..9 /\ DOMAIN StepsList = 1..Len(StepsList)
  /\ \A i \in 1..Len(StepsList) : StepsList[i] \in Steps
  /\ \A i, j \in 1..Len(StepsList) : StepsList[i] = StepsList[j] => i = j
<1>1. CASE job.content = "article"
  <2>1. StepsList = <<"fetch_article_content", "llm_outline", "llm_digest", "build_embeddings",
                      "write_artifacts">>
    BY <1>1 DEF StepsList, ARTICLE_PIPELINE_STEPS
  <2>2. {"fetch_article_content", "llm_outline", "llm_digest", "build_embeddings",
         "write_artifacts"} \subseteq Steps
    BY DEF Steps, PIPELINE_STEPS
  <2> QED
    BY <2>1, <2>2
<1>2. CASE job.content # "article"
  <2>1. StepsList =
          <<"fetch_metadata", "download_media", "collect_subtitles", "collect_comments",
            "extract_frames", "llm_outline", "llm_digest", "build_embeddings", "write_artifacts">>
    BY <1>2 DEF StepsList, PIPELINE_STEPS
  <2>2. {"fetch_metadata", "download_media", "collect_subtitles", "collect_comments",
         "extract_frames", "llm_outline", "llm_digest", "build_embeddings", "write_artifacts"}
          \subseteq Steps
    BY DEF Steps, PIPELINE_STEPS
  <2> QED
    BY <2>1, <2>2
<1> QED
  BY <1>1, <1>2

LEMMA StepNames ==
  Steps = {"fetch_metadata", "download_media", "collect_subtitles", "collect_comments",
           "extract_frames", "llm_outline", "llm_digest", "build_embeddings", "write_artifacts",
           "fetch_article_content"}
  BY DEF Steps, PIPELINE_STEPS

-----------------------------------------------------------------------------
(***************************************************************************)
(* What a handler returns has one of the three statuses.                   *)
(***************************************************************************)
LEMMA ExecStatus ==
  ASSUME NEW status, NEW reason, NEW cat, NEW updates, NEW degraded
  PROVE  Exec(status, reason, cat, updates, degraded).status = status
BY DEF Exec

LEMMA ShorthandStatus ==
  /\ \A u : Done(u).status \in Statuses /\ Degraded(u).status \in Statuses
  /\ \A u : Skipped(u).status \in Statuses
  /\ \A c, u, d : Failed(c, u, d).status \in Statuses
BY DEF Done, Degraded, Skipped, Failed, Exec, Statuses

LEMMA OutcomeStatus ==
  ASSUME Step \in Steps, NEW o \in Outcomes
  PROVE  o.status \in Statuses
<1>1. Unhandled.status \in Statuses
  BY DEF Unhandled, Failed, Exec, Statuses
<1>2. ASSUME o \in Handler
      PROVE  o.status \in Statuses
  <2>1. CASE ModeSkipped
    <3>1. o = ModeSkip
      BY <1>2, <2>1 DEF Handler
    <3>2. ModeSkip.status = "skipped"
      BY DEF ModeSkip, Exec
    <3> QED
      BY <3>1, <3>2 DEF Statuses
  <2>2. CASE ~ModeSkipped
    <3>1. CASE Step = "fetch_metadata"
      <4>1. o \in FetchMetadata
        BY <1>2, <2>2, <3>1 DEF Handler, StepHandler
      <4> QED
        BY <4>1 DEF FetchMetadata, Done, Degraded, Failed, Exec, Statuses
    <3>2. CASE Step = "download_media"
      <4>1. o \in DownloadMedia
        BY <1>2, <2>2, <3>2 DEF Handler, StepHandler
      <4> QED
        <5>1. CASE job.url
          <6>1. \/ o = Done(One("media", TRUE)) \/ o = Skipped(One("media", FALSE))
                \/ \E c \in Categories : o = Failed(c, One("media", FALSE), TRUE)
            BY <4>1, <5>1, Zenon DEF DownloadMedia
          <6> QED
            BY <6>1, ShorthandStatus, Zenon
        <5>2. CASE ~job.url
          <6>1. o = Skipped(One("media", FALSE))
            BY <4>1, <5>2, Zenon DEF DownloadMedia
          <6> QED
            BY <6>1, ShorthandStatus, Zenon
        <5> QED
          BY <5>1, <5>2
    <3>3. CASE Step = "collect_subtitles"
      <4>1. o \in CollectSubtitles
        BY <1>2, <2>2, <3>3 DEF Handler, StepHandler
      <4> QED
        BY <4>1 DEF CollectSubtitles, Done, Degraded, Exec, Statuses
    <3>4. CASE Step = "collect_comments"
      <4>1. o \in CollectComments
        BY <1>2, <2>2, <3>4 DEF Handler, StepHandler
      <4> QED
        BY <4>1 DEF CollectComments, Done, Degraded, Skipped, Exec, Statuses
    <3>5. CASE Step = "extract_frames"
      <4>1. o \in ExtractFrames
        BY <1>2, <2>2, <3>5 DEF Handler, StepHandler
      <4> QED
        BY <4>1 DEF ExtractFrames, Done, Skipped, Failed, Exec, Statuses
    <3>6. CASE Step = "fetch_article_content"
      <4>1. o \in FetchArticleContent
        BY <1>2, <2>2, <3>6 DEF Handler, StepHandler
      <4> QED
        BY <4>1 DEF FetchArticleContent, Done, Degraded, Failed, Exec, Statuses
    <3>7. CASE Step \in LlmSteps
      <4>1. o \in Llm("outline") \/ o \in Llm("digest")
        BY <1>2, <2>2, <3>7 DEF Handler, StepHandler, LlmSteps
      <4> QED
        BY <4>1 DEF Llm, Done, Failed, Exec, Statuses
    <3>8. CASE Step = "build_embeddings" \/ Step = "write_artifacts"
      <4>1. o \in BuildEmbeddings \union WriteArtifacts
        BY <1>2, <2>2, <3>8 DEF Handler, StepHandler
      <4> QED
        BY <4>1 DEF BuildEmbeddings, WriteArtifacts, Done, Degraded, Failed, Exec, Statuses
    <3> QED
      BY <3>1, <3>2, <3>3, <3>4, <3>5, <3>6, <3>7, <3>8, StepNames DEF LlmSteps
  <2> QED
    BY <2>1, <2>2
<1> QED
  BY <1>1, <1>2 DEF Outcomes

LEMMA LookupStatus == Lookup.status \in Statuses
<1>1. NoExec.status \in Statuses
  BY DEF NoExec, Exec, Statuses
<1>2. \A e, r : Recovered(e, r).status \in Statuses
  BY DEF Recovered, Exec, Statuses
<1> QED
  BY <1>1, <1>2 DEF Lookup

-----------------------------------------------------------------------------
(***************************************************************************)
(* What the run is at, and the shape of the ledger.                        *)
(***************************************************************************)
RunShape ==
    /\ run = [pc |-> run.pc, n |-> run.n, mode |-> run.mode, policy |-> run.policy,
              upto |-> run.upto, idx |-> run.idx, failed |-> run.failed, key |-> run.key,
              exec |-> run.exec]
    /\ run.pc \in Places /\ run.n \in Products /\ run.idx \in 1..Len(StepsList)
    /\ run.pc # "idle" => run.n \in Runs

RowsShape == rows = [s \in Steps |-> [n \in Runs |-> rows[s][n]]]

(***************************************************************************)
(* The rows of a run at work: none yet for the steps to come, running for  *)
(* the one it is at, and no other one running.  No run later than the last *)
(* has a row.                                                              *)
(***************************************************************************)
Ahead == \A s \in Steps, n \in Runs : n > run.n => rows[s][n].status = "none"

ToCome ==
    run.pc \notin Ended =>
        \A i \in 1..Len(StepsList) :
            i > run.idx \/ (i = run.idx /\ run.pc = "begin") =>
                rows[StepsList[i]][run.n].status = "none"

AtStep == run.pc \in {"try", "sleep", "finish"} => rows[Step][run.n].status = "running"

OneRunning ==
    run.pc \notin {"idle", "dead"} =>
        \A s \in Steps : rows[s][run.n].status = "running" =>
            run.pc \in {"try", "sleep", "finish"} /\ s = Step

HasExec ==
    /\ run.pc \in {"finish", "checkpoint", "write"} => run.exec.status \in Statuses
    /\ run.pc = "checkpoint" => rows[Step][run.n].status \in Passed

LedgerInv ==
    /\ RunShape /\ RowsShape
    /\ Ahead /\ ToCome /\ AtStep /\ OneRunning /\ HasExec
    /\ CheckpointBacked

KeepsLedger ==
    \A s \in Steps, n \in Runs : rows[s][n].status \in Statuses => rows'[s][n] = rows[s][n]

-----------------------------------------------------------------------------
LEMMA StepIsOne == RunShape => Step \in Steps
BY StepsListFacts DEF RunShape, Step

\* What a step that only moves the run on leaves as it is.
LEMMA GotoFacts ==
  ASSUME RunShape, UNCHANGED job, NEW pc \in Places, pc # "idle", run.pc # "idle",
         run' = [run EXCEPT !.pc = pc]
  PROVE  /\ RunShape' /\ Step' = Step
         /\ run'.pc = pc /\ run'.n = run.n /\ run'.idx = run.idx /\ run'.exec = run.exec
         /\ run'.policy = run.policy /\ run'.key = run.key
<1>1. /\ run'.pc = pc /\ run'.n = run.n /\ run'.idx = run.idx /\ run'.exec = run.exec
      /\ run'.policy = run.policy /\ run'.key = run.key
      /\ run'.mode = run.mode /\ run'.upto = run.upto /\ run'.failed = run.failed
      /\ run' = [pc |-> pc, n |-> run.n, mode |-> run.mode, policy |-> run.policy,
                 upto |-> run.upto, idx |-> run.idx, failed |-> run.failed, key |-> run.key,
                 exec |-> run.exec]
  BY DEF RunShape
<1>2. StepsList' = StepsList
  BY DEF StepsList
<1> QED
  BY <1>1, <1>2 DEF RunShape, Step

LEMMA SetRowFacts ==
  ASSUME RowsShape, Step \in Steps, run.n \in Runs, NEW row, SetRow(row)
  PROVE  /\ RowsShape'
         /\ rows'[Step][run.n] = row
         /\ \A s \in Steps, n \in Runs :
                s # Step \/ n # run.n => rows'[s][n] = rows[s][n]
BY DEF RowsShape, SetRow, RowIndex

LEMMA RowStatus ==
  ASSUME NEW status, NEW key, NEW exec
  PROVE  Row(status, key, exec).status = status
BY DEF Row

\* A step that leaves the ledger alone and stays at the same step of the list.
LEMMA LedgerUnmoved ==
  ASSUME LedgerInv, UNCHANGED <<job, rows, checkpoint>>, run.pc # "idle",
         NEW pc \in Places, pc # "idle", run' = [run EXCEPT !.pc = pc],
         pc \in Ended \/ (run.pc \notin Ended /\ pc # "begin"),
         pc \in {"try", "sleep", "finish"} => rows[Step][run.n].status = "running",
         rows[Step][run.n].status = "running" => pc \in {"try", "sleep", "finish", "dead"},
         pc = "finish" => run.exec.status \in Statuses,
         pc \in {"checkpoint", "write"} => run.pc \in {"checkpoint", "write"},
         pc = "checkpoint" => run.pc = "checkpoint",
         run.pc # "dead"
  PROVE  LedgerInv'
<1>1. /\ RunShape' /\ Step' = Step
      /\ run'.pc = pc /\ run'.n = run.n /\ run'.idx = run.idx /\ run'.exec = run.exec
  BY GotoFacts DEF LedgerInv
<1>2. StepsList' = StepsList
  BY DEF StepsList
<1>3. RowsShape' /\ Ahead' /\ CheckpointBacked'
  BY <1>1 DEF LedgerInv, RowsShape, Ahead, CheckpointBacked, Steps
<1>4. ToCome'
  BY <1>1, <1>2 DEF LedgerInv, ToCome, Ended
<1>5. AtStep'
  BY <1>1 DEF AtStep
<1>6. OneRunning'
  BY <1>1 DEF LedgerInv, OneRunning, Ended
<1>7. HasExec'
  BY <1>1 DEF LedgerInv, HasExec
<1> QED
  BY <1>1, <1>3, <1>4, <1>5, <1>6, <1>7 DEF LedgerInv

-----------------------------------------------------------------------------
LEMMA LedgerInit == Init => LedgerInv
<1>1. SUFFICES ASSUME Init PROVE LedgerInv
  OBVIOUS
<1>2. /\ run = [pc |-> "idle", n |-> 0, mode |-> "full", policy |-> 0, upto |-> 0, idx |-> 1,
                failed |-> 0, key |-> Nothing, exec |-> NoExec]
      /\ run.pc = "idle" /\ run.n = 0 /\ run.idx = 1
  BY <1>1 DEF Init, Run
<1>3. RunShape
  BY <1>2, StepsListFacts, BoundsAssumption DEF RunShape, Places, Products
<1>4. /\ RowsShape
      /\ \A s \in Steps, n \in Runs : rows[s][n].status = "none"
  BY <1>1, RowStatus DEF Init, RowsShape, NoRow, Runs
<1>5. Ahead /\ ToCome /\ AtStep /\ OneRunning /\ HasExec
  BY <1>2, <1>4 DEF Ahead, ToCome, AtStep, OneRunning, HasExec, Ended
<1>6. CheckpointBacked
  BY <1>1, StepNames DEF Init, CheckpointBacked
<1> QED
  BY <1>3, <1>4, <1>5, <1>6 DEF LedgerInv

LEMMA LedgerStart ==
  ASSUME LedgerInv, NEW c \in Callers, NEW m \in Modes, NEW p \in Policies, Start(c, m, p)
  PROVE  LedgerInv' /\ KeepsLedger
<1>1. /\ run.n + 1 \in Runs /\ run.n \in Products
      /\ rows' = rows /\ job' = job
  BY BoundsAssumption DEF LedgerInv, RunShape, Start, Products, Runs
<1>2. /\ run' = [pc |-> "begin", n |-> run.n + 1, mode |-> m, policy |-> p,
                 upto |-> run'.upto, idx |-> 1, failed |-> 0, key |-> Nothing, exec |-> NoExec]
      /\ run'.pc = "begin" /\ run'.n = run.n + 1 /\ run'.idx = 1
  BY DEF Start, Run
<1>3. StepsList' = StepsList
  BY <1>1 DEF StepsList
<1>4. RunShape'
  <2>1. /\ run'.mode = m /\ run'.policy = p /\ run'.failed = 0 /\ run'.key = Nothing
        /\ run'.exec = NoExec
    BY <1>2
  <2> QED
    BY <1>1, <1>2, <1>3, <2>1, StepsListFacts DEF RunShape, Places, Products, Runs
<1>5. RowsShape' /\ Ahead'
  BY <1>1, <1>2 DEF LedgerInv, RowsShape, Ahead, Runs, Products
<1>6. \A s \in Steps : rows[s][run.n + 1].status = "none"
  BY <1>1, BoundsAssumption DEF LedgerInv, Ahead, Runs, Products
<1>7. ToCome'
  BY <1>1, <1>2, <1>3, <1>6, StepsListFacts DEF ToCome
<1>8. AtStep' /\ OneRunning' /\ HasExec'
  BY <1>1, <1>2, <1>6 DEF AtStep, OneRunning, HasExec
<1>9. CheckpointBacked'
  <2>1. checkpoint' = checkpoint \/ checkpoint' = "mark_running"
    BY DEF Start
  <2> QED
    BY <1>1, <2>1, StepNames DEF LedgerInv, CheckpointBacked
<1>10. KeepsLedger
  BY <1>1 DEF KeepsLedger
<1> QED
  BY <1>4, <1>5, <1>7, <1>8, <1>9, <1>10 DEF LedgerInv

\* A write to the row of the step the run is at, when the row was none or running.
LEMMA LedgerRow ==
  ASSUME LedgerInv, run.n \in Runs, NEW row, SetRow(row),
         rows[Step][run.n].status \in {"none", "running"}
  PROVE  /\ KeepsLedger
         /\ RowsShape'
         /\ rows'[Step][run.n] = row
         /\ \A s \in Steps, n \in Runs :
                s # Step \/ n # run.n => rows'[s][n] = rows[s][n]
<1>1. Step \in Steps
  BY StepIsOne DEF LedgerInv
<1>2. /\ RowsShape'
      /\ rows'[Step][run.n] = row
      /\ \A s \in Steps, n \in Runs :
             s # Step \/ n # run.n => rows'[s][n] = rows[s][n]
  BY <1>1, SetRowFacts DEF LedgerInv
<1> QED
  BY <1>2 DEF KeepsLedger, Statuses

\* What follows from it for the run, which stays at its step or leaves.
LEMMA LedgerRowStep ==
  ASSUME LedgerInv, UNCHANGED <<job, checkpoint>>, run.n \in Runs,
         NEW row, SetRow(row), rows[Step][run.n].status \in {"none", "running"},
         run.pc \notin Ended,
         RunShape', Step' = Step, run'.n = run.n, run'.idx = run.idx,
         run'.pc \notin {"idle", "begin", "dead"},
         run'.pc \in {"try", "sleep", "finish"} <=> row.status = "running",
         run'.pc \in {"finish", "checkpoint", "write"} => run'.exec.status \in Statuses,
         run'.pc = "checkpoint" => row.status \in Passed
  PROVE  LedgerInv' /\ KeepsLedger
<1>1. /\ KeepsLedger
      /\ RowsShape'
      /\ rows'[Step][run.n] = row
      /\ \A s \in Steps, n \in Runs :
             s # Step \/ n # run.n => rows'[s][n] = rows[s][n]
  BY LedgerRow
<1>2. StepsList' = StepsList /\ Step \in Steps
  BY StepIsOne DEF StepsList, LedgerInv
<1>3. Ahead'
  BY <1>1, <1>2, BoundsAssumption DEF LedgerInv, Ahead, Runs
<1>4. ToCome'
  <2>1. ASSUME NEW i \in 1..Len(StepsList), i > run.idx
        PROVE  rows'[StepsList[i]][run.n].status = "none"
    <3>1. rows[StepsList[i]][run.n].status = "none"
      BY <2>1 DEF LedgerInv, ToCome
    <3>2. StepsList[i] # Step /\ StepsList[i] \in Steps
      BY <2>1, StepsListFacts DEF LedgerInv, RunShape, Step
    <3> QED
      BY <1>1, <3>1, <3>2
  <2> QED
    BY <1>2, <2>1 DEF ToCome
<1>5. AtStep'
  BY <1>1 DEF AtStep
<1>6. OneRunning'
  BY <1>1, <1>2 DEF LedgerInv, OneRunning, Ended
<1>7. HasExec'
  BY <1>1 DEF HasExec
<1>8. CheckpointBacked'
  BY <1>1 DEF LedgerInv, CheckpointBacked, KeepsLedger, Statuses, Passed
<1> QED
  BY <1>1, <1>3, <1>4, <1>5, <1>6, <1>7, <1>8 DEF LedgerInv

-----------------------------------------------------------------------------
LEMMA LedgerBegin == LedgerInv /\ Begin => LedgerInv' /\ KeepsLedger
<1>1. SUFFICES ASSUME LedgerInv, Begin PROVE LedgerInv' /\ KeepsLedger
  OBVIOUS
<1>2. /\ run.pc = "begin" /\ UNCHANGED <<job, checkpoint>> /\ run.n \in Runs
      /\ SetRow(Row("running", Key, NoExec))
  BY <1>1 DEF Begin, LedgerInv, RunShape
<1>3. rows[Step][run.n].status = "none"
  BY <1>1, <1>2 DEF LedgerInv, RunShape, ToCome, Ended, Step
<1>4. Row("running", Key, NoExec).status = "running"
  BY RowStatus
<1>5. PICK pc \in {"try", "finish"} :
        run' = [run EXCEPT !.pc = pc, !.key = Key, !.exec = Lookup, !.failed = 0]
  BY <1>1 DEF Begin
<1>6. /\ run'.pc = pc /\ run'.n = run.n /\ run'.idx = run.idx /\ run'.exec = Lookup
      /\ run' = [pc |-> pc, n |-> run.n, mode |-> run.mode, policy |-> run.policy,
                 upto |-> run.upto, idx |-> run.idx, failed |-> 0, key |-> Key,
                 exec |-> Lookup]
  BY <1>1, <1>5 DEF LedgerInv, RunShape
<1>7. StepsList' = StepsList
  BY <1>2 DEF StepsList
<1>8. RunShape' /\ Step' = Step
  <2>1. /\ run'.mode = run.mode /\ run'.policy = run.policy /\ run'.upto = run.upto
        /\ run'.failed = 0 /\ run'.key = Key
    BY <1>6
  <2> QED
    <3>1. /\ run' = [pc |-> run'.pc, n |-> run'.n, mode |-> run'.mode, policy |-> run'.policy,
                    upto |-> run'.upto, idx |-> run'.idx, failed |-> run'.failed,
                    key |-> run'.key, exec |-> run'.exec]
      BY <1>6, <2>1
    <3>2. run'.pc \in Places /\ run'.n \in Products /\ run'.n \in Runs
          /\ run'.idx \in 1..Len(StepsList')
      BY <1>1, <1>2, <1>6, <1>7 DEF LedgerInv, RunShape, Places
    <3> QED
      BY <1>6, <1>7, <3>1, <3>2 DEF RunShape, Step
<1>9. run'.pc \in {"try", "sleep", "finish"} /\ run'.pc \notin {"idle", "begin", "dead"}
  BY <1>6
<1>10. run'.exec.status \in Statuses /\ run'.pc # "checkpoint" /\ run.pc \notin Ended
  BY <1>2, <1>6, LookupStatus DEF Ended
<1> QED
  BY <1>1, <1>2, <1>3, <1>4, <1>6, <1>8, <1>9, <1>10, LedgerRowStep

LEMMA LedgerTry == LedgerInv /\ Try => LedgerInv' /\ KeepsLedger
<1>1. SUFFICES ASSUME LedgerInv, Try PROVE LedgerInv' /\ KeepsLedger
  OBVIOUS
<1>2. /\ run.pc = "try" /\ UNCHANGED <<job, rows, checkpoint>>
      /\ rows[Step][run.n].status = "running" /\ run.n \in Runs
  BY <1>1 DEF Try, store, LedgerInv, AtStep, RunShape
<1>3. KeepsLedger
  BY <1>2 DEF KeepsLedger
<1>4. PICK o \in Outcomes :
        \/ run' = [run EXCEPT !.pc = "sleep", !.failed = FailedAttempts]
        \/ run' = [run EXCEPT !.pc = "finish", !.exec = o]
  BY <1>1 DEF Try
<1>5. o.status \in Statuses
  BY <1>1, OutcomeStatus, StepIsOne DEF LedgerInv
<1>6. /\ run'.pc \in {"sleep", "finish"} /\ run'.n = run.n /\ run'.idx = run.idx
      /\ run'.pc = "finish" => run'.exec.status \in Statuses
      /\ run' = [pc |-> run'.pc, n |-> run'.n, mode |-> run'.mode, policy |-> run'.policy,
                 upto |-> run'.upto, idx |-> run'.idx, failed |-> run'.failed,
                 key |-> run'.key, exec |-> run'.exec]
  <2>1. ASSUME NEW pc, NEW failed, NEW exec,
               run' = [run EXCEPT !.pc = pc, !.failed = failed, !.exec = exec]
        PROVE  /\ run'.pc = pc /\ run'.n = run.n /\ run'.idx = run.idx /\ run'.exec = exec
               /\ run' = [pc |-> run'.pc, n |-> run'.n, mode |-> run'.mode,
                          policy |-> run'.policy, upto |-> run'.upto, idx |-> run'.idx,
                          failed |-> run'.failed, key |-> run'.key, exec |-> run'.exec]
    BY <1>1, <2>1 DEF LedgerInv, RunShape
  <2>2. CASE run' = [run EXCEPT !.pc = "sleep", !.failed = FailedAttempts]
    <3>1. run' = [run EXCEPT !.pc = "sleep", !.failed = FailedAttempts, !.exec = run.exec]
      BY <1>1, <2>2 DEF LedgerInv, RunShape, FailedAttempts
    <3> QED
      BY <2>1, <3>1
  <2>3. CASE run' = [run EXCEPT !.pc = "finish", !.exec = o]
    <3>1. run' = [run EXCEPT !.pc = "finish", !.failed = run.failed, !.exec = o]
      BY <1>1, <2>3 DEF LedgerInv, RunShape
    <3>2. /\ run'.pc = "finish" /\ run'.n = run.n /\ run'.idx = run.idx /\ run'.exec = o
          /\ run' = [pc |-> run'.pc, n |-> run'.n, mode |-> run'.mode,
                     policy |-> run'.policy, upto |-> run'.upto, idx |-> run'.idx,
                     failed |-> run'.failed, key |-> run'.key, exec |-> run'.exec]
      BY <2>1, <3>1, Zenon
    <3> QED
      BY <1>5, <3>2
  <2> QED
    BY <1>4, <2>2, <2>3
<1>7. StepsList' = StepsList /\ Step' = Step
  BY <1>2, <1>6 DEF StepsList, Step
<1>8. RunShape'
  BY <1>1, <1>2, <1>6, <1>7 DEF LedgerInv, RunShape, Places
<1>9. RowsShape' /\ Ahead' /\ CheckpointBacked'
  BY <1>1, <1>2, <1>6 DEF LedgerInv, RowsShape, Ahead, CheckpointBacked, Steps
<1>10. ToCome'
  BY <1>1, <1>2, <1>6, <1>7 DEF LedgerInv, ToCome, Ended
<1>11. AtStep' /\ OneRunning' /\ HasExec'
  BY <1>1, <1>2, <1>6, <1>7 DEF LedgerInv, AtStep, OneRunning, HasExec
<1> QED
  BY <1>3, <1>8, <1>9, <1>10, <1>11 DEF LedgerInv

LEMMA LedgerSleep == LedgerInv /\ Sleep => LedgerInv' /\ KeepsLedger
<1>1. SUFFICES ASSUME LedgerInv, Sleep PROVE LedgerInv' /\ KeepsLedger
  OBVIOUS
<1>2. /\ run.pc = "sleep" /\ UNCHANGED <<job, rows, checkpoint>>
      /\ run' = [run EXCEPT !.pc = "try"] /\ rows[Step][run.n].status = "running"
  BY <1>1 DEF Sleep, Goto, store, LedgerInv, AtStep
<1>3. LedgerInv'
  BY <1>1, <1>2, LedgerUnmoved DEF Places, Ended
<1> QED
  BY <1>2, <1>3 DEF KeepsLedger

LEMMA LedgerFinish == LedgerInv /\ Finish => LedgerInv' /\ KeepsLedger
<1>1. SUFFICES ASSUME LedgerInv, Finish PROVE LedgerInv' /\ KeepsLedger
  OBVIOUS
<1> DEFINE row == Row(run.exec.status, run.key, run.exec)
           pc == IF run.exec.status = "failed" THEN "write" ELSE "checkpoint"
<1>2. /\ run.pc = "finish" /\ UNCHANGED <<job, checkpoint>> /\ run.n \in Runs
      /\ rows[Step][run.n].status = "running" /\ run.exec.status \in Statuses
      /\ SetRow(row) /\ run' = [run EXCEPT !.pc = pc]
  BY <1>1 DEF Finish, Goto, LedgerInv, AtStep, RunShape, HasExec
<1>3. row.status = run.exec.status
  BY RowStatus
<1>4. pc \in {"write", "checkpoint"} /\ (pc = "checkpoint" => row.status \in Passed)
  BY <1>2, <1>3 DEF Statuses, Passed
<1> HIDE DEF row, pc
<1>5. /\ RunShape' /\ Step' = Step
      /\ run'.pc = pc /\ run'.n = run.n /\ run'.idx = run.idx /\ run'.exec = run.exec
  BY <1>1, <1>2, <1>4, GotoFacts DEF LedgerInv, Places
<1>6. /\ run'.pc \notin {"try", "sleep", "finish"} /\ row.status # "running"
      /\ run'.pc \notin {"idle", "begin", "dead"} /\ run.pc \notin Ended
  BY <1>2, <1>3, <1>4, <1>5 DEF Statuses, Ended
<1> QED
  BY <1>1, <1>2, <1>3, <1>4, <1>5, <1>6, LedgerRowStep

LEMMA LedgerCheckpoint == LedgerInv /\ Checkpoint => LedgerInv' /\ KeepsLedger
<1>1. SUFFICES ASSUME LedgerInv, Checkpoint PROVE LedgerInv' /\ KeepsLedger
  OBVIOUS
<1>2. /\ run.pc = "checkpoint" /\ UNCHANGED <<job, rows>> /\ run.n \in Runs
      /\ checkpoint' = Step /\ run' = [run EXCEPT !.pc = "write"]
      /\ rows[Step][run.n].status \in Passed
  BY <1>1 DEF Checkpoint, CheckpointName, Goto, LedgerInv, RunShape, HasExec
<1>3. /\ RunShape' /\ Step' = Step
      /\ run'.pc = "write" /\ run'.n = run.n /\ run'.idx = run.idx /\ run'.exec = run.exec
  BY <1>1, <1>2, GotoFacts DEF LedgerInv, Places
<1>4. StepsList' = StepsList
  BY <1>2 DEF StepsList
<1>5. RowsShape' /\ Ahead' /\ CheckpointBacked'
  BY <1>1, <1>2, <1>3 DEF LedgerInv, RowsShape, Ahead, CheckpointBacked, Steps
<1>6. ToCome'
  BY <1>1, <1>2, <1>3, <1>4 DEF LedgerInv, ToCome, Ended
<1>7. AtStep' /\ OneRunning' /\ HasExec'
  BY <1>1, <1>2, <1>3 DEF LedgerInv, AtStep, OneRunning, HasExec, Passed
<1> QED
  BY <1>2, <1>3, <1>5, <1>6, <1>7 DEF LedgerInv, KeepsLedger

\* Where Write goes: out with an exception, to the verdict, or on to the next step.
LEMMA WriteGoes ==
  ASSUME RunShape, Write
  PROVE  \/ run' = [run EXCEPT !.pc = "raised"] /\ steps' = steps
         \/ /\ run' = [run EXCEPT !.pc = "resolve"]
            /\ LlmHardFailed \/ run.idx = Len(StepsList)
            /\ steps' = [steps EXCEPT ![Step] = run.exec.status]
         \/ /\ run' = [run EXCEPT !.pc = "begin", !.idx = run.idx + 1]
            /\ ~LlmHardFailed /\ run.idx + 1 \in 1..Len(StepsList)
            /\ steps' = [steps EXCEPT ![Step] = run.exec.status]
<1>1. (Goto("raised") /\ steps' = steps) \/ Record
  BY DEF Write
<1>2. CASE Goto("raised") /\ steps' = steps
  BY <1>2 DEF Goto
<1>3. CASE Record
  <2>1. CASE LlmHardFailed \/ run.idx = Len(StepsList)
    BY <1>3, <2>1 DEF Record
  <2>2. CASE ~(LlmHardFailed \/ run.idx = Len(StepsList))
    <3>1. run.idx + 1 \in 1..Len(StepsList)
      BY <2>2, StepsListFacts DEF RunShape
    <3>2. run' = [run EXCEPT !.pc = "begin", !.idx = run.idx + 1]
      BY <1>3, <2>2 DEF Record
    <3> QED
      BY <1>3, <2>2, <3>1, <3>2 DEF Record
  <2> QED
    BY <2>1, <2>2
<1> QED
  BY <1>1, <1>2, <1>3

LEMMA LedgerWrite == LedgerInv /\ Write => LedgerInv' /\ KeepsLedger
<1>1. SUFFICES ASSUME LedgerInv, Write PROVE LedgerInv' /\ KeepsLedger
  OBVIOUS
<1>2. /\ run.pc = "write" /\ UNCHANGED <<job, rows, checkpoint>> /\ run.n \in Runs
  BY <1>1 DEF Write, store, LedgerInv, RunShape
<1>3. KeepsLedger
  BY <1>2 DEF KeepsLedger
<1>4. rows[Step][run.n].status # "running"
  BY <1>1, <1>2, StepIsOne DEF LedgerInv, OneRunning
<1>5. CASE run' = [run EXCEPT !.pc = "raised"]
  BY <1>1, <1>2, <1>3, <1>4, <1>5, LedgerUnmoved DEF Places, Ended
<1>6. CASE run' = [run EXCEPT !.pc = "resolve"]
  BY <1>1, <1>2, <1>3, <1>4, <1>6, LedgerUnmoved DEF Places, Ended
<1>7. CASE /\ run.idx + 1 \in 1..Len(StepsList)
           /\ run' = [run EXCEPT !.pc = "begin", !.idx = run.idx + 1]
  <2>1. /\ run'.pc = "begin" /\ run'.n = run.n /\ run'.idx = run.idx + 1
        /\ run' = [pc |-> run'.pc, n |-> run'.n, mode |-> run'.mode, policy |-> run'.policy,
                   upto |-> run'.upto, idx |-> run'.idx, failed |-> run'.failed,
                   key |-> run'.key, exec |-> run'.exec]
    BY <1>1, <1>7 DEF LedgerInv, RunShape
  <2>2. StepsList' = StepsList
    BY <1>2 DEF StepsList
  <2>3. RunShape'
    BY <1>1, <1>2, <1>7, <2>1, <2>2 DEF LedgerInv, RunShape, Places
  <2>4. RowsShape' /\ Ahead' /\ CheckpointBacked'
    BY <1>1, <1>2, <2>1 DEF LedgerInv, RowsShape, Ahead, CheckpointBacked, Steps
  <2>5. ToCome'
    <3>1. ASSUME NEW i \in 1..Len(StepsList), i > run.idx
          PROVE  rows[StepsList[i]][run.n].status = "none"
      BY <1>1, <1>2, <3>1 DEF LedgerInv, ToCome, Ended
    <3>2. ASSUME NEW i \in 1..Len(StepsList), i > run.idx + 1 \/ i = run.idx + 1
          PROVE  i > run.idx
      BY <1>1, <3>2, StepsListFacts DEF LedgerInv, RunShape
    <3> QED
      BY <1>2, <2>1, <2>2, <3>1, <3>2 DEF ToCome
  <2>6. AtStep' /\ OneRunning' /\ HasExec'
    <3>1. \A s \in Steps : rows[s][run.n].status # "running"
      BY <1>1, <1>2 DEF LedgerInv, OneRunning
    <3> QED
      BY <1>2, <2>1, <3>1 DEF AtStep, OneRunning, HasExec, Steps
  <2> QED
    BY <1>3, <2>3, <2>4, <2>5, <2>6 DEF LedgerInv
<1> QED
  BY <1>1, <1>5, <1>6, <1>7, WriteGoes DEF LedgerInv

LEMMA LedgerReturn == LedgerInv /\ Return => LedgerInv' /\ KeepsLedger
<1>1. SUFFICES ASSUME LedgerInv, Return PROVE LedgerInv' /\ KeepsLedger
  OBVIOUS
<1>2. /\ run.pc = "resolve" /\ UNCHANGED <<job, rows, checkpoint>>
      /\ run' = [run EXCEPT !.pc = "returned"]
  BY <1>1 DEF Return, Goto, store
<1>3. rows[Step][run.n].status # "running"
  BY <1>1, <1>2, StepIsOne DEF LedgerInv, OneRunning
<1>4. LedgerInv'
  BY <1>1, <1>2, <1>3, LedgerUnmoved DEF Places, Ended
<1> QED
  BY <1>2, <1>4 DEF KeepsLedger

LEMMA LedgerCancel == LedgerInv /\ Cancel => LedgerInv' /\ KeepsLedger
<1>1. SUFFICES ASSUME LedgerInv, Cancel PROVE LedgerInv' /\ KeepsLedger
  OBVIOUS
<1>2. /\ run.pc \in {"try", "sleep"} /\ UNCHANGED <<job, checkpoint>> /\ run.n \in Runs
      /\ rows[Step][run.n].status = "running"
      /\ SetRow(CancelRow) /\ run' = [run EXCEPT !.pc = "cancelled"]
  BY <1>1 DEF Cancel, Goto, LedgerInv, AtStep, RunShape
<1>3. CancelRow.status = "failed"
  BY RowStatus DEF CancelRow
<1>4. RunShape' /\ Step' = Step
      /\ run'.pc = "cancelled" /\ run'.n = run.n /\ run'.idx = run.idx
  BY <1>1, <1>2, GotoFacts DEF LedgerInv, Places
<1>5. run.pc \notin Ended
  BY <1>2 DEF Ended
<1>6. /\ run'.pc \notin {"try", "sleep", "finish"} /\ CancelRow.status # "running"
      /\ run'.pc \notin {"idle", "begin", "dead"}
      /\ run'.pc \notin {"finish", "checkpoint", "write"}
  BY <1>3, <1>4
<1> QED
  BY <1>1, <1>2, <1>4, <1>5, <1>6, LedgerRowStep

LEMMA LedgerCrash == LedgerInv /\ Crash => LedgerInv' /\ KeepsLedger
<1>1. SUFFICES ASSUME LedgerInv, Crash PROVE LedgerInv' /\ KeepsLedger
  OBVIOUS
<1>2. /\ run.pc \notin Ended /\ UNCHANGED <<job, rows, checkpoint>>
      /\ run' = [run EXCEPT !.pc = "dead"]
  BY <1>1 DEF Crash, Goto, store
<1>3. run.pc # "idle" /\ run.pc # "dead"
  BY <1>2 DEF Ended
<1>4. LedgerInv'
  BY <1>1, <1>2, <1>3, LedgerUnmoved DEF Places, Ended
<1> QED
  BY <1>2, <1>4 DEF KeepsLedger

LEMMA LedgerKept ==
  LedgerInv /\ UNCHANGED <<job, store, run>> => LedgerInv' /\ KeepsLedger
<1>1. SUFFICES ASSUME LedgerInv, UNCHANGED <<job, rows, checkpoint, run>>
               PROVE  LedgerInv' /\ KeepsLedger
  BY DEF store
<1>2. StepsList' = StepsList
  BY <1>1 DEF StepsList
<1>3. Step' = Step
  BY <1>1, <1>2 DEF Step
<1>4. RunShape' /\ RowsShape' /\ KeepsLedger
  BY <1>1, <1>2 DEF LedgerInv, RunShape, RowsShape, KeepsLedger
<1>5. Ahead' /\ ToCome' /\ AtStep'
  BY <1>1, <1>2, <1>3 DEF LedgerInv, Ahead, ToCome, AtStep
<1>6. OneRunning' /\ HasExec' /\ CheckpointBacked'
  BY <1>1, <1>3 DEF LedgerInv, OneRunning, HasExec, CheckpointBacked
<1> QED
  BY <1>4, <1>5, <1>6 DEF LedgerInv

LEMMA LedgerStep == LedgerInv /\ [Next]_vars => LedgerInv' /\ KeepsLedger
<1>1. SUFFICES ASSUME LedgerInv, [Next]_vars PROVE LedgerInv' /\ KeepsLedger
  OBVIOUS
<1>2. ASSUME NEW c \in Callers, NEW m \in Modes, NEW p \in Policies, Start(c, m, p)
      PROVE  LedgerInv' /\ KeepsLedger
  BY <1>1, <1>2, LedgerStart
<1>3. CASE Advance
  BY <1>1, <1>3, LedgerBegin, LedgerTry, LedgerSleep, LedgerFinish, LedgerCheckpoint,
     LedgerWrite, LedgerReturn DEF Advance
<1>4. CASE Cancel
  BY <1>1, <1>4, LedgerCancel
<1>5. CASE Crash
  BY <1>1, <1>5, LedgerCrash
<1>6. CASE Cleanup
  BY <1>1, <1>6, LedgerKept DEF Cleanup
<1>7. CASE UNCHANGED vars
  BY <1>1, <1>7, LedgerKept DEF vars
<1> QED
  BY <1>1, <1>2, <1>3, <1>4, <1>5, <1>6, <1>7 DEF Next

LEMMA LedgerAlways == Spec => []LedgerInv
BY LedgerInit, LedgerStep, PTL DEF Spec

(***************************************************************************)
(* Only a dead process leaves a row that says running, whatever the faults *)
(* and however often a step is retried.                                    *)
(***************************************************************************)
THEOREM RowsAreFinished == Spec => []NoRowLeftRunning
<1>1. LedgerInv => NoRowLeftRunning
  BY DEF LedgerInv, OneRunning, NoRowLeftRunning
<1> QED
  BY <1>1, LedgerAlways, PTL

(***************************************************************************)
(* The checkpoint names a step some run has a row of that says it was      *)
(* done: it is written after the row, and no later run rewrites that row.  *)
(***************************************************************************)
THEOREM CheckpointIsBacked == Spec => []CheckpointBacked
<1>1. LedgerInv => CheckpointBacked
  BY DEF LedgerInv
<1> QED
  BY <1>1, LedgerAlways, PTL

(***************************************************************************)
(* A row that says how a step ended is never written again: next_attempt   *)
(* gives every run rows of its own.                                        *)
(***************************************************************************)
THEOREM LedgerIsNotRewritten == Spec => LedgerIsKept
<1>1. LedgerInv /\ [Next]_vars =>
        [\A s \in Steps, n \in Runs :
            rows[s][n].status \in Statuses => rows'[s][n] = rows[s][n]]_rows
  BY LedgerStep DEF KeepsLedger
<1> QED
  BY <1>1, LedgerAlways, PTL DEF Spec, LedgerIsKept

-----------------------------------------------------------------------------
(***************************************************************************)
(* The verdict.  While a run is at work the steps behind it have a status, *)
(* and nothing fatal was met: what is fatal ends the loop.  It arrives at  *)
(* the resolvers with every step gone through, or with a required LLM step *)
(* that failed.                                                            *)
(***************************************************************************)
Listed == {StepsList[i] : i \in 1..Len(StepsList)}

HardFailed == IsHard /\ \E s \in LlmSteps : steps[s] = "failed"

VerdictType ==
    /\ steps \in [Steps -> Statuses \union {"none"}]
    /\ result = [final |-> result.final, gate |-> result.gate, fatal |-> result.fatal]
    /\ result.fatal \in BOOLEAN

Behind ==
    run.pc \notin Ended =>
        /\ Gone \subseteq Listed
        /\ run.pc # "resolve" =>
               /\ ~result.fatal
               /\ \A i \in 1..Len(StepsList) : i < run.idx => steps[StepsList[i]] \in Statuses

AtVerdict ==
    run.pc = "resolve" =>
        /\ HardFailed \/ \A s \in Listed : steps[s] \in Statuses
        /\ result.fatal => HardFailed \/ steps["write_artifacts"] = "failed"

VerdictInv == VerdictType /\ Behind /\ AtVerdict /\ GateAgreesWithStatus

LEMMA StepsListEnds ==
  /\ \A i \in 1..Len(StepsList) : StepsList[i] = "write_artifacts" <=> i = Len(StepsList)
  /\ LlmSteps \subseteq Listed /\ "write_artifacts" \in Listed
<1>1. CASE job.content = "article"
  <2>1. StepsList = <<"fetch_article_content", "llm_outline", "llm_digest", "build_embeddings",
                      "write_artifacts">>
    BY <1>1 DEF StepsList, ARTICLE_PIPELINE_STEPS
  <2>2. /\ Len(StepsList) = 5
        /\ StepsList[1] # "write_artifacts" /\ StepsList[2] = "llm_outline"
        /\ StepsList[3] = "llm_digest" /\ StepsList[4] # "write_artifacts"
        /\ StepsList[5] = "write_artifacts"
    BY <2>1
  <2> QED
    BY <2>2 DEF Listed, LlmSteps
<1>2. CASE job.content # "article"
  <2>1. StepsList =
          <<"fetch_metadata", "download_media", "collect_subtitles", "collect_comments",
            "extract_frames", "llm_outline", "llm_digest", "build_embeddings", "write_artifacts">>
    BY <1>2 DEF StepsList, PIPELINE_STEPS
  <2>2. /\ Len(StepsList) = 9
        /\ StepsList[1] # "write_artifacts" /\ StepsList[2] # "write_artifacts"
        /\ StepsList[3] # "write_artifacts" /\ StepsList[4] # "write_artifacts"
        /\ StepsList[5] # "write_artifacts" /\ StepsList[6] = "llm_outline"
        /\ StepsList[7] = "llm_digest" /\ StepsList[8] # "write_artifacts"
        /\ StepsList[9] = "write_artifacts"
    BY <2>1
  <2> QED
    BY <2>2 DEF Listed, LlmSteps
<1> QED
  BY <1>1, <1>2

LEMMA VerdictInit == Init => VerdictInv
<1>1. SUFFICES ASSUME Init PROVE VerdictInv
  OBVIOUS
<1>2. run.pc = "idle"
  BY <1>1 DEF Init, Run
<1>3. VerdictType
  BY <1>1 DEF Init, VerdictType
<1> QED
  BY <1>2, <1>3 DEF VerdictInv, Behind, AtVerdict, GateAgreesWithStatus, Ended

\* Outside the verdict, and with the run ended otherwise, the type is all there is.
LEMMA VerdictOut ==
  ASSUME VerdictType', run'.pc \in Ended, run'.pc # "returned"
  PROVE  VerdictInv'
BY DEF VerdictInv, Behind, AtVerdict, GateAgreesWithStatus, Ended

\* A step of the run that records nothing and does not end it.
LEMMA VerdictOn ==
  ASSUME VerdictInv, run.pc \notin Ended \union {"resolve"}, UNCHANGED <<job, steps, result>>,
         run'.pc \notin Ended \union {"resolve"}, run'.idx = run.idx
  PROVE  VerdictInv'
<1>1. StepsList' = StepsList
  BY DEF StepsList
<1>2. Listed' = Listed /\ Gone' = Gone
  BY <1>1 DEF Listed, Gone
<1>3. VerdictType'
  BY DEF VerdictInv, VerdictType
<1>4. Behind'
  BY <1>1, <1>2 DEF VerdictInv, Behind
<1> QED
  BY <1>3, <1>4 DEF VerdictInv, AtVerdict, GateAgreesWithStatus, Ended

LEMMA VerdictStart ==
  ASSUME VerdictInv, LedgerInv, NEW c \in Callers, NEW m \in Modes, NEW p \in Policies,
         Start(c, m, p)
  PROVE  VerdictInv'
<1>1. run'.pc = "begin" /\ run'.idx = 1
  BY DEF Start, Run
<1>2. /\ steps' = [s \in Steps |-> "none"]
      /\ result' = [final |-> "none", gate |-> FALSE, fatal |-> FALSE]
      /\ result'.fatal = FALSE /\ result'.final = "none" /\ result'.gate = FALSE
  BY DEF Start
<1>3. VerdictType'
  BY <1>2 DEF VerdictType
<1>4. Behind'
  <2>1. Gone' = {}
    BY <1>2 DEF Gone
  <2>2. \A i \in 1..Len(StepsList') : ~(i < run'.idx)
    BY <1>1
  <2> QED
    BY <1>1, <1>2, <2>1, <2>2 DEF Behind
<1> QED
  BY <1>1, <1>3, <1>4 DEF VerdictInv, AtVerdict, GateAgreesWithStatus, Ended

LEMMA VerdictWrite ==
  ASSUME VerdictInv, LedgerInv, Write
  PROVE  VerdictInv'
<1>1. /\ run.pc = "write" /\ UNCHANGED job /\ run.exec.status \in Statuses
      /\ result' = [result EXCEPT !.fatal = @ \/ Fatal]
      /\ Step \in Steps /\ Step \in Listed /\ run.idx \in 1..Len(StepsList)
      /\ RunShape
  BY StepIsOne DEF Write, LedgerInv, HasExec, RunShape, Listed, Step
<1>2. StepsList' = StepsList /\ Listed' = Listed
  BY <1>1 DEF StepsList, Listed
<1>3. /\ result'.fatal = Fatal /\ result'.fatal \in BOOLEAN
      /\ result' = [final |-> result'.final, gate |-> result'.gate, fatal |-> result'.fatal]
  BY <1>1 DEF VerdictInv, VerdictType, Behind, Ended, Fatal, LlmHardFailed, IsHard
<1>4. CASE run' = [run EXCEPT !.pc = "raised"] /\ steps' = steps
  <2>1. VerdictType'
    BY <1>3, <1>4 DEF VerdictInv, VerdictType
  <2>2. run'.pc = "raised"
    BY <1>1, <1>4 DEF RunShape
  <2> QED
    BY <2>1, <2>2, VerdictOut DEF Ended
<1>5. CASE steps' = [steps EXCEPT ![Step] = run.exec.status]
  <2>1. VerdictType'
    BY <1>1, <1>3, <1>5 DEF VerdictInv, VerdictType
  <2>2. /\ steps'[Step] = run.exec.status
        /\ \A s \in Steps : s # Step => steps'[s] = steps[s]
    BY <1>1, <1>5 DEF VerdictInv, VerdictType
  <2>3. Gone' \subseteq Listed'
    BY <1>1, <1>2, <2>2 DEF VerdictInv, Behind, Gone, Ended
  <2>4. \A i \in 1..Len(StepsList) : i <= run.idx => steps'[StepsList[i]] \in Statuses
    <3>1. ASSUME NEW i \in 1..Len(StepsList), i <= run.idx
          PROVE  steps'[StepsList[i]] \in Statuses
      <4>1. CASE i = run.idx
        BY <1>1, <2>2, <4>1 DEF Step
      <4>2. CASE i # run.idx
        <5>1. i < run.idx
          BY <1>1, <3>1, <4>2, StepsListFacts
        <5>2. steps[StepsList[i]] \in Statuses /\ StepsList[i] \in Steps
          BY <1>1, <5>1, StepsListFacts DEF VerdictInv, Behind, Ended
        <5> QED
          BY <1>1, <2>2, <5>2
      <4> QED
        BY <4>1, <4>2
    <3> QED
      BY <3>1
  <2>5. CASE /\ run' = [run EXCEPT !.pc = "resolve"]
             /\ LlmHardFailed \/ run.idx = Len(StepsList)
    <3>1. run'.pc = "resolve" /\ run'.policy = run.policy
      BY <1>1, <2>5 DEF RunShape
    <3>2. LlmHardFailed => HardFailed'
      BY <2>2, <3>1 DEF LlmHardFailed, HardFailed, IsHard
    <3>3. run.idx = Len(StepsList) => \A s \in Listed' : steps'[s] \in Statuses
      BY <1>2, <2>4 DEF Listed
    <3>4. result'.fatal => HardFailed' \/ steps'["write_artifacts"] = "failed"
      BY <1>3, <2>2, <3>2 DEF Fatal
    <3>5. AtVerdict'
      BY <2>5, <3>2, <3>3, <3>4 DEF AtVerdict
    <3> QED
      BY <2>1, <2>3, <3>1, <3>5 DEF VerdictInv, Behind, GateAgreesWithStatus
  <2>6. CASE /\ run' = [run EXCEPT !.pc = "begin", !.idx = run.idx + 1]
             /\ ~LlmHardFailed /\ run.idx + 1 \in 1..Len(StepsList)
    <3>1. run'.pc = "begin" /\ run'.idx = run.idx + 1
      BY <1>1, <2>6 DEF RunShape
    <3>2. Step # "write_artifacts"
      BY <1>1, <2>6, StepsListEnds, StepsListFacts DEF Step
    <3>3. ~result'.fatal
      BY <1>3, <2>6, <3>2 DEF Fatal
    <3>4. \A i \in 1..Len(StepsList') : i < run'.idx => steps'[StepsList'[i]] \in Statuses
      BY <1>1, <1>2, <2>4, <3>1, StepsListFacts
    <3> QED
      BY <2>1, <2>3, <3>1, <3>3, <3>4
         DEF VerdictInv, Behind, AtVerdict, GateAgreesWithStatus
  <2> QED
    BY <1>1, <1>4, <2>5, <2>6, WriteGoes
<1> QED
  BY <1>1, <1>4, <1>5, WriteGoes

LEMMA VerdictReturn ==
  ASSUME VerdictInv, LedgerInv, Return
  PROVE  VerdictInv'
<1>1. /\ run.pc = "resolve" /\ UNCHANGED <<job, steps, degr>>
      /\ run' = [run EXCEPT !.pc = "returned"]
      /\ result' = [result EXCEPT !.final = resolve_pipeline_status, !.gate = resolve_llm_gate]
  BY DEF Return, Goto
<1>2. /\ run'.pc = "returned"
      /\ result'.final = resolve_pipeline_status /\ result'.gate = resolve_llm_gate
      /\ result'.fatal = result.fatal
      /\ VerdictType'
  BY <1>1 DEF LedgerInv, RunShape, VerdictInv, VerdictType
<1>3. StepsList' = StepsList /\ Gone' = Gone
  BY <1>1 DEF StepsList, Gone
<1>4. ASSUME resolve_pipeline_status # "failed"
      PROVE  /\ resolve_llm_gate /\ ~result.fatal /\ Gone = Listed
             /\ steps["write_artifacts"] \in Passed
  <2>1. \A s \in Gone : steps[s] = "failed" => s \in LlmSteps /\ ~IsHard
    BY <1>4 DEF resolve_pipeline_status
  <2>2. Listed \subseteq Steps
    BY StepsListFacts DEF Listed
  <2>3. ~HardFailed
    BY <2>1, <2>2, StepsListEnds DEF HardFailed, Gone
  <2>4. \A s \in Listed : steps[s] \in Statuses
    BY <1>1, <2>3 DEF VerdictInv, AtVerdict
  <2>5. Gone = Listed
    BY <1>1, <2>2, <2>4 DEF VerdictInv, Behind, Gone, Ended, Statuses
  <2>6. "write_artifacts" \notin LlmSteps
    BY DEF LlmSteps
  <2>7. steps["write_artifacts"] \in Passed
    BY <2>1, <2>4, <2>5, <2>6, StepsListEnds DEF Statuses, Passed
  <2>8. resolve_llm_gate
    BY <2>1, <2>4, <2>5, StepsListEnds DEF resolve_llm_gate, Statuses, Passed
  <2>9. ~result.fatal
    BY <1>1, <2>3, <2>7 DEF VerdictInv, AtVerdict, Passed
  <2> QED
    BY <2>5, <2>7, <2>8, <2>9
<1>5. DOMAIN StepsList = 1..Len(StepsList)
  BY StepsListFacts
<1>6. GateAgreesWithStatus'
  BY <1>1, <1>2, <1>3, <1>4, <1>5 DEF GateAgreesWithStatus, Listed
<1> QED
  BY <1>2, <1>6 DEF VerdictInv, Behind, AtVerdict, Ended

\* Where the actions that record nothing leave the run.
LEMMA OnTheWay ==
  ASSUME LedgerInv, Begin \/ Try \/ Sleep \/ Finish \/ Checkpoint
  PROVE  /\ run.pc \notin Ended \union {"resolve"} /\ UNCHANGED <<job, steps, result>>
         /\ run'.pc \notin Ended \union {"resolve"} /\ run'.idx = run.idx
<1>1. CASE Begin
  BY <1>1 DEF Begin, LedgerInv, RunShape, Ended, local
<1>2. CASE Try
  <2>1. /\ run.pc = "try" /\ UNCHANGED <<job, steps, result>>
        /\ \E o \in Outcomes :
               \/ run' = [run EXCEPT !.pc = "sleep", !.failed = FailedAttempts]
               \/ run' = [run EXCEPT !.pc = "finish", !.exec = o]
    BY <1>2 DEF Try
  <2> QED
    BY <2>1 DEF LedgerInv, RunShape, Ended
<1>3. CASE Sleep
  BY <1>3 DEF Sleep, Goto, LedgerInv, RunShape, Ended, local
<1>4. CASE Finish
  BY <1>4 DEF Finish, Goto, LedgerInv, RunShape, Ended
<1>5. CASE Checkpoint
  BY <1>5 DEF Checkpoint, Goto, LedgerInv, RunShape, Ended, local
<1> QED
  BY <1>1, <1>2, <1>3, <1>4, <1>5

LEMMA VerdictStep == VerdictInv /\ LedgerInv /\ [Next]_vars => VerdictInv'
<1>1. SUFFICES ASSUME VerdictInv, LedgerInv, [Next]_vars PROVE VerdictInv'
  OBVIOUS
<1>2. ASSUME NEW c \in Callers, NEW m \in Modes, NEW p \in Policies, Start(c, m, p)
      PROVE  VerdictInv'
  BY <1>1, <1>2, VerdictStart
<1>3. CASE Begin \/ Try \/ Sleep \/ Finish \/ Checkpoint
  BY <1>1, <1>3, OnTheWay, VerdictOn
<1>4. CASE Write
  BY <1>1, <1>4, VerdictWrite
<1>5. CASE Return
  BY <1>1, <1>5, VerdictReturn
<1>6. CASE Cancel
  <2>1. run'.pc = "cancelled"
    BY <1>1, <1>6 DEF Cancel, Goto, LedgerInv, RunShape
  <2>2. VerdictType'
    BY <1>1, <1>6, StepIsOne DEF Cancel, VerdictInv, VerdictType, Statuses
  <2> QED
    BY <2>1, <2>2, VerdictOut DEF Ended
<1>7. CASE Crash
  <2>1. run'.pc = "dead" /\ UNCHANGED <<steps, result>>
    BY <1>1, <1>7 DEF Crash, Goto, LedgerInv, RunShape, local
  <2>2. VerdictType'
    BY <1>1, <2>1 DEF VerdictInv, VerdictType
  <2> QED
    BY <2>1, <2>2, VerdictOut DEF Ended
<1>8. CASE Cleanup \/ UNCHANGED vars
  <2>1. UNCHANGED <<job, run, steps, result>>
    BY <1>8 DEF Cleanup, vars, local
  <2>2. /\ StepsList' = StepsList /\ Listed' = Listed /\ Gone' = Gone
        /\ HardFailed' = HardFailed
    BY <2>1 DEF StepsList, Listed, Gone, HardFailed, IsHard
  <2>3. VerdictType' /\ Behind'
    BY <1>1, <2>1, <2>2 DEF VerdictInv, VerdictType, Behind
  <2>4. AtVerdict' /\ GateAgreesWithStatus'
    BY <1>1, <2>1, <2>2 DEF VerdictInv, AtVerdict, GateAgreesWithStatus
  <2> QED
    BY <2>3, <2>4 DEF VerdictInv
<1> QED
  BY <1>1, <1>2, <1>3, <1>4, <1>5, <1>6, <1>7, <1>8 DEF Next, Advance

(***************************************************************************)
(* A run whose status is not failed passed the LLM gate, met nothing fatal *)
(* and went through every step: the two resolvers and the loop's break     *)
(* agree, for every policy, mode and way of failing.                       *)
(***************************************************************************)
THEOREM VerdictsAgree == Spec => []GateAgreesWithStatus
<1>1. VerdictInv => GateAgreesWithStatus
  BY DEF VerdictInv
<1> QED
  BY <1>1, VerdictInit, VerdictStep, LedgerAlways, PTL DEF Spec

-----------------------------------------------------------------------------
(***************************************************************************)
(* The digest and its outline.  A row of llm_digest that says succeeded    *)
(* holds the digest its run wrote, under the outline it was written from;  *)
(* a cache file holds one of those digests under that same outline; and    *)
(* while llm_digest is at work the outline does not change.                *)
(***************************************************************************)
OwnKeys(s) ==
    IF s = "llm_outline" THEN {"outline"} ELSE IF s = "llm_digest" THEN {"digest"} ELSE {}

\* Of the two products a step changes at most its own.
Own(s, exec) == (DOMAIN exec.updates) \intersect {"outline", "digest"} \subseteq OwnKeys(s)

\* d is the digest of a finished llm_digest, written from this outline.
Written(d, outline) ==
    d \in Runs /\ rows["llm_digest"][d].status = "succeeded" /\ basis[d] = outline

Gives(exec, outline) ==
    "digest" \in DOMAIN exec.updates /\ Written(exec.updates["digest"], outline)

Stored ==
    /\ cache = [s \in Steps |-> cache[s]] /\ legacy = [s \in Steps |-> legacy[s]]
    /\ basis = [n \in Runs |-> basis[n]]
    /\ \A s \in Steps : \A e \in cache[s] : Own(s, e.exec)
    /\ \A s \in Steps : Own(s, legacy[s])
    /\ \A s \in Steps, n \in Runs : Own(s, rows[s][n].exec)
    /\ \A e \in cache["llm_digest"] :
           e.exec.status = "succeeded" => Gives(e.exec, e.key["outline"])
    /\ \A n \in Runs : rows["llm_digest"][n].status = "succeeded" =>
           Gives(rows["llm_digest"][n].exec, rows["llm_digest"][n].key["outline"])

InHand ==
    /\ run.pc \in {"finish", "checkpoint", "write"} => Own(Step, run.exec)
    /\ Step = "llm_digest" =>
           /\ run.pc \in {"try", "sleep", "finish"} => run.key["outline"] = data.outline
           /\ run.pc = "finish" /\ run.exec.status = "succeeded" =>
                  run.exec.updates = One("digest", run.n) /\ basis[run.n] = run.key["outline"]
           /\ run.pc = "finish" /\ run.exec.status = "skipped" =>
                  Gives(run.exec, run.key["outline"])
           /\ run.pc = "finish" /\ run.exec.status = "failed" =>
                  "digest" \notin DOMAIN run.exec.updates
           /\ run.pc \in {"checkpoint", "write"} /\ run.exec.status = "succeeded" =>
                  Gives(run.exec, run.key["outline"])

Held ==
    /\ {"outline", "digest"} \subseteq DOMAIN data
    /\ data.digest # 0 => Written(data.digest, data.outline)
    /\ run.pc \notin Ended =>
           \A i \in 1..Len(StepsList) :
               StepsList[i] = "llm_outline" /\ run.idx <= i => data.digest = 0

DigestInv == Stored /\ InHand /\ Held

LEMMA LargestOne ==
  ASSUME NEW m \in Nat, NEW T, T \subseteq 1..m, T # {}
  PROVE  \E x \in T : \A y \in T : y <= x
<1> DEFINE D == {m - x : x \in T}
<1>1. \A x \in T : x \in 1..m /\ m - x \in Nat
  OBVIOUS
<1>2. D \subseteq Nat /\ D # {}
  BY <1>1
<1>3. \E x \in D : \A y \in D : ~(<<y, x>> \in OpToRel(<, Nat))
  <2> HIDE DEF D
  <2> QED
    BY <1>2, NatLessThanWellFounded, WFMin
<1>4. \A x, y \in Nat : <<x, y>> \in OpToRel(<, Nat) <=> x < y
  BY DEF OpToRel
<1>5. \E x \in D : \A y \in D : ~(y < x)
  BY <1>2, <1>3, <1>4
<1>6. PICK x \in T : \A y \in T : ~(m - y < m - x)
  BY <1>5
<1> QED
  BY <1>1, <1>6

LEMMA OutlineBeforeDigest ==
  \A i, j \in 1..Len(StepsList) :
      StepsList[i] = "llm_outline" /\ StepsList[j] = "llm_digest" => i < j
<1>1. \E k \in {2, 6} : /\ k \in 1..Len(StepsList) /\ k + 1 \in 1..Len(StepsList)
                       /\ StepsList[k] = "llm_outline" /\ StepsList[k + 1] = "llm_digest"
  <2>1. CASE job.content = "article"
    <3>1. StepsList = <<"fetch_article_content", "llm_outline", "llm_digest",
                        "build_embeddings", "write_artifacts">>
      BY <2>1 DEF StepsList, ARTICLE_PIPELINE_STEPS
    <3> QED
      BY <3>1
  <2>2. CASE job.content # "article"
    <3>1. StepsList =
            <<"fetch_metadata", "download_media", "collect_subtitles", "collect_comments",
              "extract_frames", "llm_outline", "llm_digest", "build_embeddings",
              "write_artifacts">>
      BY <2>2 DEF StepsList, PIPELINE_STEPS
    <3> QED
      BY <3>1
  <2> QED
    BY <2>1, <2>2
<1> QED
  BY <1>1, StepsListFacts

LEMMA OwnShorthand ==
  /\ \A s : Own(s, NoExec) /\ Own(s, Cancelled) /\ Own(s, Unhandled)
  /\ \A s, u : DOMAIN u \intersect {"outline", "digest"} \subseteq OwnKeys(s) =>
         /\ Own(s, Done(u)) /\ Own(s, Degraded(u)) /\ Own(s, Skipped(u))
         /\ \A c, d : Own(s, Failed(c, u, d))
BY DEF Own, NoExec, Cancelled, Unhandled, Done, Degraded, Skipped, Failed, Exec, Nothing

LEMMA OneDomain == \A k, v : DOMAIN One(k, v) = {k} /\ One(k, v)[k] = v
BY DEF One

\* An execution with one update, or with none.
LEMMA OneOwn ==
  ASSUME NEW s, NEW k, k \in {"outline", "digest"} => k \in OwnKeys(s), NEW v
  PROVE  /\ Own(s, Done(One(k, v))) /\ Own(s, Degraded(One(k, v)))
         /\ Own(s, Skipped(One(k, v))) /\ \A c, d : Own(s, Failed(c, One(k, v), d))
<1>1. DOMAIN One(k, v) = {k}
  BY OneDomain
<1>2. (DOMAIN One(k, v)) \intersect {"outline", "digest"} \subseteq OwnKeys(s)
  BY <1>1
<1> QED
  BY <1>2, OwnShorthand

LEMMA NothingOwn == \A s, c, d : Own(s, Failed(c, Nothing, d))
<1>1. DOMAIN Nothing = {}
  BY DEF Nothing
<1> QED
  BY <1>1, OwnShorthand

\* What a handler returns changes none of the two products but its own.
LEMMA OwnOutcomes ==
  ASSUME Step \in Steps, NEW o \in Outcomes
  PROVE  Own(Step, o)
<1>1. Own(Step, Unhandled)
  BY OwnShorthand
<1>2. ASSUME o \in Handler
      PROVE  Own(Step, o)
  <2>1. CASE ModeSkipped
    <3>1. o = ModeSkip
      BY <1>2, <2>1 DEF Handler
    <3>2. o.updates = PIPELINE_MODE_SKIP_UPDATES
      BY <3>1 DEF ModeSkip, Exec
    <3>3. Step \in {"download_media", "collect_subtitles", "extract_frames"}
      BY <2>1 DEF ModeSkipped, PIPELINE_MODE_SKIP_STEPS
    <3>4. PIPELINE_MODE_SKIP_UPDATES \in
            {One("media", FALSE), One("text", "empty"), One("frames", 0)}
      BY <3>3 DEF PIPELINE_MODE_SKIP_UPDATES
    <3>5. DOMAIN o.updates \subseteq {"media", "text", "frames"}
      <4>1. CASE PIPELINE_MODE_SKIP_UPDATES = One("media", FALSE)
        <5>1. DOMAIN One("media", FALSE) = {"media"}
          BY OneDomain
        <5>2. DOMAIN o.updates = {"media"}
          BY <3>2, <4>1, <5>1, Zenon
        <5> QED
          BY <5>2
      <4>2. CASE PIPELINE_MODE_SKIP_UPDATES = One("text", "empty")
        <5>1. DOMAIN One("text", "empty") = {"text"}
          BY OneDomain
        <5>2. DOMAIN o.updates = {"text"}
          BY <3>2, <4>2, <5>1, Zenon
        <5> QED
          BY <5>2
      <4>3. CASE PIPELINE_MODE_SKIP_UPDATES = One("frames", 0)
        <5>1. DOMAIN One("frames", 0) = {"frames"}
          BY OneDomain
        <5>2. DOMAIN o.updates = {"frames"}
          BY <3>2, <4>3, <5>1, Zenon
        <5> QED
          BY <5>2
      <4> QED
        BY <3>4, <4>1, <4>2, <4>3
    <3> QED
      BY <3>5 DEF Own
  <2>2. CASE ~ModeSkipped
    <3>1. CASE Step = "fetch_metadata"
      <4>1. o \in FetchMetadata
        BY <1>2, <2>2, <3>1 DEF Handler, StepHandler
      <4>2. \A v : /\ Own(Step, Done(One("meta", v))) /\ Own(Step, Degraded(One("meta", v)))
                   /\ Own(Step, Skipped(One("meta", v)))
                   /\ \A c, d : Own(Step, Failed(c, One("meta", v), d))
        BY OneOwn
      <4> QED
        BY <4>1, <4>2 DEF FetchMetadata
    <3>2. CASE Step = "download_media"
      <4>1. o \in DownloadMedia
        BY <1>2, <2>2, <3>2 DEF Handler, StepHandler
      <4>2. DOMAIN One("media", TRUE) = {"media"} /\ DOMAIN One("media", FALSE) = {"media"}
        BY OneDomain
      <4>3. /\ Own(Step, Done(One("media", TRUE))) /\ Own(Step, Skipped(One("media", FALSE)))
            /\ \A c : Own(Step, Failed(c, One("media", FALSE), TRUE))
        BY <4>2, OwnShorthand
      <4>4. \/ o = Done(One("media", TRUE)) \/ o = Skipped(One("media", FALSE))
            \/ \E c \in Categories : o = Failed(c, One("media", FALSE), TRUE)
        BY <4>1, Zenon DEF DownloadMedia
      <4> QED
        BY <4>3, <4>4, Zenon
    <3>3. CASE Step = "collect_subtitles"
      <4>1. o \in CollectSubtitles
        BY <1>2, <2>2, <3>3 DEF Handler, StepHandler
      <4>2. \A v : /\ Own(Step, Done(One("text", v))) /\ Own(Step, Degraded(One("text", v)))
                   /\ Own(Step, Skipped(One("text", v)))
                   /\ \A c, d : Own(Step, Failed(c, One("text", v), d))
        BY OneOwn
      <4> QED
        BY <4>1, <4>2 DEF CollectSubtitles
    <3>4. CASE Step = "collect_comments"
      <4>1. o \in CollectComments
        BY <1>2, <2>2, <3>4 DEF Handler, StepHandler
      <4>2. \A v : /\ Own(Step, Done(One("comments", v))) /\ Own(Step, Degraded(One("comments", v)))
                   /\ Own(Step, Skipped(One("comments", v)))
                   /\ \A c, d : Own(Step, Failed(c, One("comments", v), d))
        BY OneOwn
      <4> QED
        BY <4>1, <4>2 DEF CollectComments
    <3>5. CASE Step = "extract_frames"
      <4>1. o \in ExtractFrames
        BY <1>2, <2>2, <3>5 DEF Handler, StepHandler
      <4>2. \A v : DOMAIN One("frames", v) = {"frames"}
        BY OneDomain
      <4>3. \A v : /\ Own(Step, Done(One("frames", v))) /\ Own(Step, Skipped(One("frames", v)))
                   /\ \A c, d : Own(Step, Failed(c, One("frames", v), d))
        BY <4>2, OwnShorthand
      <4> QED
        BY <4>1, <4>3 DEF ExtractFrames
    <3>6. CASE Step = "fetch_article_content"
      <4>1. o \in FetchArticleContent
        BY <1>2, <2>2, <3>6 DEF Handler, StepHandler
      <4> QED
        BY <4>1, OwnShorthand DEF FetchArticleContent
    <3>7. CASE Step = "llm_outline"
      <4>1. o \in Llm("outline")
        BY <1>2, <2>2, <3>7 DEF Handler, StepHandler
      <4>2. "outline" \in OwnKeys(Step)
        BY <3>7 DEF OwnKeys
      <4>3. Own(Step, Done(One("outline", run.n)))
        BY <4>2, OneOwn
      <4> QED
        BY <4>1, <4>3, NothingOwn DEF Llm
    <3>8. CASE Step = "llm_digest"
      <4>1. o \in Llm("digest")
        BY <1>2, <2>2, <3>8 DEF Handler, StepHandler
      <4>2. "digest" \in OwnKeys(Step)
        BY <3>8 DEF OwnKeys
      <4>3. Own(Step, Done(One("digest", run.n)))
        BY <4>2, OneOwn
      <4> QED
        BY <4>1, <4>3, NothingOwn DEF Llm
    <3>9. CASE Step = "build_embeddings" \/ Step = "write_artifacts"
      <4>1. o \in BuildEmbeddings \union WriteArtifacts
        BY <1>2, <2>2, <3>9 DEF Handler, StepHandler
      <4> QED
        BY <4>1, OwnShorthand DEF BuildEmbeddings, WriteArtifacts, Nothing
    <3> QED
      BY <3>1, <3>2, <3>3, <3>4, <3>5, <3>6, <3>7, <3>8, <3>9, StepNames
  <2> QED
    BY <2>1, <2>2
<1> QED
  BY <1>1, <1>2 DEF Outcomes

\* llm_digest writes the digest of its run, or fails and changes nothing.
LEMMA DigestOutcomes ==
  ASSUME Step = "llm_digest", NEW o \in Outcomes
  PROVE  \/ o.status = "succeeded" /\ o.updates = One("digest", run.n)
         \/ o.status = "failed" /\ "digest" \notin DOMAIN o.updates
<1>1. ~ModeSkipped
  BY DEF ModeSkipped, PIPELINE_MODE_SKIP_STEPS
<1>2. o \in Llm("digest") \/ o = Unhandled
  BY <1>1 DEF Outcomes, Handler, StepHandler
<1>3. CASE o = Unhandled
  BY <1>3 DEF Unhandled, Failed, Exec, Nothing
<1>4. CASE o \in Llm("digest")
  BY <1>4 DEF Llm, Done, Failed, Exec, Nothing
<1> QED
  BY <1>2, <1>3, <1>4

LEMMA RecoveredFacts ==
  \A e, r : /\ Recovered(e, r).status = "skipped" /\ Recovered(e, r).updates = e.updates
            /\ \A s : Own(s, e) => Own(s, Recovered(e, r))
            /\ \A x : Gives(e, x) => Gives(Recovered(e, r), x)
BY DEF Recovered, Exec, Own, Gives

\* What is recovered for llm_digest was written from the outline at hand.
LEMMA LookupFacts ==
  ASSUME Stored, Step \in Steps
  PROVE  /\ Own(Step, Lookup)
         /\ Lookup # NoExec => Lookup.status = "skipped"
         /\ Lookup # NoExec /\ Step = "llm_digest" => Gives(Lookup, Key["outline"])
<1>1. CASE Lookup = NoExec
  BY <1>1, OwnShorthand
<1>2. CASE CacheFiles # {} /\ ~ForceRun
  <2> DEFINE e == CHOOSE e \in CacheFiles : TRUE
  <2>1. e \in CacheFiles
    BY <1>2
  <2>2. /\ e \in cache[Step] /\ e.key = Key /\ e.exec.status = "succeeded"
    BY <2>1 DEF CacheFiles, Readable
  <2>3. Lookup = Recovered(e.exec, HitReason("cache_hit"))
    BY <1>2 DEF Lookup
  <2> HIDE DEF e
  <2>4. Own(Step, e.exec)
    BY <2>2 DEF Stored
  <2>5. Step = "llm_digest" => Gives(e.exec, Key["outline"])
    BY <2>2 DEF Stored
  <2> QED
    BY <2>3, <2>4, <2>5, RecoveredFacts
<1>3. CASE LegacyRead /\ CacheFiles = {} /\ ~ForceRun
  <2>1. Lookup = Recovered(legacy[Step], HitReason("legacy_cache_hit"))
    BY <1>3 DEF Lookup
  <2>2. Own(Step, legacy[Step])
    BY DEF Stored
  <2>3. Step # "llm_digest"
    BY <1>3 DEF LegacyRead, V1Steps
  <2> QED
    BY <2>1, <2>2, <2>3, RecoveredFacts
<1>4. CASE SucceededRows # {} /\ ~LegacyRead /\ CacheFiles = {} /\ ResumeHint /\ ~ForceRun
  <2>1. SucceededRows \subseteq 1..MaxRuns /\ SucceededRows # {}
    BY <1>4 DEF SucceededRows
  <2>2. LatestRow \in SucceededRows
    <3> HIDE DEF SucceededRows
    <3>1. \E n \in SucceededRows : \A m \in SucceededRows : m <= n
      BY <2>1, LargestOne, BoundsAssumption
    <3> QED
      BY <3>1 DEF LatestRow
  <2>3. /\ LatestRow \in Runs /\ rows[Step][LatestRow].status = "succeeded"
        /\ rows[Step][LatestRow].key = Key
    BY <2>2 DEF SucceededRows, Runs
  <2>4. Lookup = Recovered(rows[Step][LatestRow].exec, "checkpoint_recovered")
    BY <1>4 DEF Lookup
  <2>5. Own(Step, rows[Step][LatestRow].exec)
    BY <2>3 DEF Stored
  <2>6. Step = "llm_digest" => Gives(rows[Step][LatestRow].exec, Key["outline"])
    BY <2>3 DEF Stored
  <2> QED
    BY <2>4, <2>5, <2>6, RecoveredFacts
<1> QED
  BY <1>1, <1>2, <1>3, <1>4 DEF Lookup

(***************************************************************************)
(* A step leaves the digests there are with what they were written from.   *)
(***************************************************************************)
KeepsDigests ==
    \A d \in Runs : rows["llm_digest"][d].status = "succeeded" =>
        rows'["llm_digest"][d] = rows["llm_digest"][d] /\ basis'[d] = basis[d]

LEMMA DigestsKept == KeepsLedger /\ UNCHANGED basis => KeepsDigests
<1>1. "llm_digest" \in Steps /\ "succeeded" \in Statuses
  BY StepNames DEF Statuses
<1> QED
  BY <1>1 DEF KeepsLedger, KeepsDigests

\* Gives after the step.
GivesNext(exec, outline) ==
    /\ "digest" \in DOMAIN exec.updates /\ exec.updates["digest"] \in Runs
    /\ rows'["llm_digest"][exec.updates["digest"]].status = "succeeded"
    /\ basis'[exec.updates["digest"]] = outline

LEMMA GivesKept ==
  ASSUME KeepsDigests
  PROVE  \A exec, outline : Gives(exec, outline) => GivesNext(exec, outline)
BY DEF Gives, Written, KeepsDigests, GivesNext

\* The store after a step: what it adds is a step's own, and a digest the run's.
LEMMA StoredStep ==
  ASSUME Stored, KeepsDigests,
         (cache = [s \in Steps |-> cache[s]])', (legacy = [s \in Steps |-> legacy[s]])',
         (basis = [n \in Runs |-> basis[n]])',
         \A s \in Steps : \A e \in cache'[s] :
             \/ e \in cache[s]
             \/ /\ Own(s, e.exec)
                /\ s = "llm_digest" /\ e.exec.status = "succeeded" =>
                       GivesNext(e.exec, e.key["outline"]),
         \A s \in Steps : legacy'[s] = legacy[s] \/ Own(s, legacy'[s]),
         \A s \in Steps, n \in Runs :
             \/ rows'[s][n] = rows[s][n]
             \/ /\ Own(s, rows'[s][n].exec)
                /\ s = "llm_digest" /\ rows'[s][n].status = "succeeded" =>
                       GivesNext(rows'[s][n].exec, rows'[s][n].key["outline"])
  PROVE  Stored'
<1>1. "llm_digest" \in Steps
  BY StepNames
<1>2. /\ \A s \in Steps : \A e \in cache'[s] : Own(s, e.exec)
      /\ \A s \in Steps : Own(s, legacy'[s])
      /\ \A s \in Steps, n \in Runs : Own(s, rows'[s][n].exec)
  BY DEF Stored
<1>3. ASSUME NEW e \in cache'["llm_digest"], e.exec.status = "succeeded"
      PROVE  GivesNext(e.exec, e.key["outline"])
  <2>1. CASE e \in cache["llm_digest"]
    <3>1. Gives(e.exec, e.key["outline"])
      BY <1>3, <2>1 DEF Stored
    <3> QED
      BY <3>1, GivesKept
  <2>2. CASE e \notin cache["llm_digest"]
    BY <1>1, <1>3, <2>2
  <2> QED
    BY <2>1, <2>2
<1>4. ASSUME NEW n \in Runs, rows'["llm_digest"][n].status = "succeeded"
      PROVE  GivesNext(rows'["llm_digest"][n].exec, rows'["llm_digest"][n].key["outline"])
  <2>1. CASE rows'["llm_digest"][n] = rows["llm_digest"][n]
    <3>1. Gives(rows["llm_digest"][n].exec, rows["llm_digest"][n].key["outline"])
      BY <1>4, <2>1 DEF Stored
    <3> QED
      BY <2>1, <3>1, GivesKept
  <2>2. CASE rows'["llm_digest"][n] # rows["llm_digest"][n]
    BY <1>1, <1>4, <2>2
  <2> QED
    BY <2>1, <2>2
<1>5. \A e \in cache'["llm_digest"] : e.exec.status = "succeeded" =>
          Gives(e.exec, e.key["outline"])'
  BY <1>3 DEF Gives, Written, GivesNext
<1>6. \A n \in Runs : (rows["llm_digest"][n].status = "succeeded" =>
          Gives(rows["llm_digest"][n].exec, rows["llm_digest"][n].key["outline"]))'
  BY <1>4 DEF Gives, Written, GivesNext
<1> QED
  BY <1>2, <1>5, <1>6 DEF Stored

LEMMA HeldKept ==
  ASSUME Held, KeepsDigests, UNCHANGED <<job, data>>,
         run'.pc \notin Ended =>
             /\ run.pc \notin Ended
             /\ run.idx \in 1..Len(StepsList) /\ run'.idx \in 1..Len(StepsList)
             /\ run.idx <= run'.idx
  PROVE  Held'
<1>1. StepsList' = StepsList
  BY DEF StepsList
<1>2. ASSUME data.digest # 0
      PROVE  Written(data.digest, data.outline)'
  <2>1. Written(data.digest, data.outline)
    BY <1>2 DEF Held
  <2> QED
    BY <2>1 DEF Written, KeepsDigests
<1>3. ASSUME run'.pc \notin Ended, NEW i \in 1..Len(StepsList),
             StepsList[i] = "llm_outline", run'.idx <= i
      PROVE  data.digest = 0
  <2>1. run.idx <= i
    BY <1>3, StepsListFacts
  <2> QED
    BY <1>3, <2>1 DEF Held
<1> QED
  BY <1>1, <1>2, <1>3 DEF Held

LEMMA KeyOutline == Step = "llm_digest" => Key["outline"] = data.outline
BY DEF Key, STEP_INPUT_KEYS, DigestKeys, InputValue, LlmSteps

-----------------------------------------------------------------------------
LEMMA DigestInit == Init => DigestInv
<1>1. SUFFICES ASSUME Init PROVE DigestInv
  OBVIOUS
<1>2. run.pc = "idle" /\ data.digest = 0 /\ {"outline", "digest"} \subseteq DOMAIN data
  BY <1>1 DEF Init, Run, EmptyState
<1>3. "llm_digest" \in Steps /\ Runs = 1..MaxRuns
  BY StepNames DEF Runs
<1>4. /\ cache = [s \in Steps |-> {}] /\ legacy = [s \in Steps |-> NoExec]
      /\ basis = [n \in Runs |-> 0] /\ rows = [s \in Steps |-> [n \in Runs |-> NoRow]]
  BY <1>1, <1>3 DEF Init
<1>5. NoRow.exec = NoExec /\ NoRow.status # "succeeded"
  BY DEF NoRow, Row
<1>6. Stored
  BY <1>3, <1>4, <1>5, OwnShorthand DEF Stored
<1> QED
  BY <1>2, <1>6 DEF DigestInv, InHand, Held, Ended

LEMMA DigestStart ==
  ASSUME DigestInv, LedgerInv, NEW c \in Callers, NEW m \in Modes, NEW p \in Policies,
         Start(c, m, p)
  PROVE  DigestInv'
<1>1. /\ run'.pc = "begin" /\ UNCHANGED <<rows, cache, legacy, basis>>
      /\ data' = EmptyState(p, run.n + 1)
  BY DEF Start, Run
<1>2. KeepsDigests
  BY <1>1 DEF KeepsDigests
<1>3. Stored'
  BY <1>1, <1>2, StoredStep DEF DigestInv, Stored
<1>4. data'.digest = 0 /\ {"outline", "digest"} \subseteq DOMAIN data'
  BY <1>1 DEF EmptyState
<1> QED
  BY <1>1, <1>3, <1>4 DEF DigestInv, InHand, Held

LEMMA DigestBegin ==
  ASSUME DigestInv, LedgerInv, Begin
  PROVE  DigestInv'
<1>1. /\ run.pc = "begin" /\ UNCHANGED <<job, cache, legacy, data, basis>>
      /\ SetRow(Row("running", Key, NoExec))
      /\ Step \in Steps /\ run.n \in Runs /\ RowsShape /\ RunShape
  BY StepIsOne DEF Begin, local, LedgerInv, RunShape
<1>2. KeepsDigests
  BY <1>1, LedgerBegin, DigestsKept
<1>3. /\ rows'[Step][run.n] = Row("running", Key, NoExec)
      /\ \A s \in Steps, n \in Runs : s # Step \/ n # run.n => rows'[s][n] = rows[s][n]
  BY <1>1, SetRowFacts
<1>4. Stored'
  <2>1. /\ Row("running", Key, NoExec).status # "succeeded"
        /\ Row("running", Key, NoExec).exec = NoExec
    BY DEF Row
  <2> QED
    <3>1. \A s \in Steps, n \in Runs :
            \/ rows'[s][n] = rows[s][n]
            \/ Own(s, rows'[s][n].exec) /\ rows'[s][n].status # "succeeded"
      BY <1>3, <2>1, OwnShorthand
    <3>2. /\ (cache = [s \in Steps |-> cache[s]])' /\ (legacy = [s \in Steps |-> legacy[s]])'
          /\ (basis = [n \in Runs |-> basis[n]])' /\ Stored
      BY <1>1 DEF DigestInv, Stored
    <3> QED
      BY <1>1, <1>2, <3>1, <3>2, StoredStep
<1>5. /\ run'.pc = IF Lookup = NoExec THEN "try" ELSE "finish"
      /\ run'.n = run.n /\ run'.idx = run.idx /\ run'.exec = Lookup /\ run'.key = Key
  BY <1>1 DEF Begin, RunShape
<1>6. StepsList' = StepsList /\ Step' = Step
  BY <1>1, <1>5 DEF StepsList, Step
<1>7. InHand'
  <2>1. /\ Own(Step, Lookup)
        /\ Lookup # NoExec => Lookup.status = "skipped"
        /\ Lookup # NoExec /\ Step = "llm_digest" => Gives(Lookup, Key["outline"])
    BY <1>1, LookupFacts DEF DigestInv
  <2>2. Lookup # NoExec /\ Step = "llm_digest" => GivesNext(Lookup, Key["outline"])
    BY <1>2, <2>1, GivesKept
  <2>3. run'.pc = "finish" =>
          /\ run'.exec.status = "skipped"
          /\ Step = "llm_digest" => GivesNext(run'.exec, run'.key["outline"])
    BY <1>5, <2>1, <2>2
  <2>4. Step = "llm_digest" => run'.key["outline"] = data'.outline
    BY <1>1, <1>5, KeyOutline
  <2>5. run'.pc \in {"try", "finish"} /\ Own(Step, run'.exec)
    BY <1>5, <2>1
  <2> QED
    BY <1>6, <2>3, <2>4, <2>5 DEF InHand, Own, Gives, Written, GivesNext
<1>8. Held'
  BY <1>1, <1>2, <1>5, StepsListFacts, HeldKept DEF DigestInv, Ended, RunShape
<1> QED
  BY <1>4, <1>7, <1>8 DEF DigestInv

\* The store when the step writes no row, or one that gives no digest.
LEMMA StoredQuiet ==
  ASSUME Stored, KeepsDigests, UNCHANGED <<cache, legacy>>, (basis = [n \in Runs |-> basis[n]])',
         \A s \in Steps, n \in Runs :
             \/ rows'[s][n] = rows[s][n]
             \/ Own(s, rows'[s][n].exec) /\ rows'[s][n].status # "succeeded"
  PROVE  Stored'
<1>1. (cache = [s \in Steps |-> cache[s]])' /\ (legacy = [s \in Steps |-> legacy[s]])'
  BY DEF Stored
<1> QED
  BY <1>1, StoredStep

LEMMA DigestTry ==
  ASSUME DigestInv, LedgerInv, Try
  PROVE  DigestInv'
<1>1. /\ run.pc = "try" /\ UNCHANGED <<job, rows, cache, legacy, data>>
      /\ rows[Step][run.n].status = "running"
      /\ Step \in Steps /\ run.n \in Runs /\ RunShape
  BY StepIsOne DEF Try, store, LedgerInv, AtStep, RunShape
<1>2. PICK o \in Outcomes :
        /\ SideEffects(o)
        /\ run' = IF o.status = "failed" /\ run.failed < Budget(o.cat)
                    THEN [run EXCEPT !.pc = "sleep", !.failed = FailedAttempts]
                    ELSE [run EXCEPT !.pc = "finish", !.exec = o]
  BY DEF Try
<1>3. Own(Step, o)
  BY <1>1, OwnOutcomes
<1>4. /\ run'.n = run.n /\ run'.idx = run.idx /\ run'.key = run.key
      /\ run'.pc \in {"sleep", "finish"} /\ (run'.pc = "finish" => run'.exec = o)
  <2>1. CASE o.status = "failed" /\ run.failed < Budget(o.cat)
    <3>1. run' = [run EXCEPT !.pc = "sleep", !.failed = FailedAttempts]
      BY <1>2, <2>1
    <3> QED
      BY <1>1, <3>1 DEF RunShape
  <2>2. CASE ~(o.status = "failed" /\ run.failed < Budget(o.cat))
    <3>1. run' = [run EXCEPT !.pc = "finish", !.exec = o]
      BY <1>2, <2>2
    <3> QED
      BY <1>1, <3>1 DEF RunShape
  <2> QED
    BY <2>1, <2>2
<1>5. StepsList' = StepsList /\ Step' = Step
  BY <1>1, <1>4 DEF StepsList, Step
<1>6. /\ \A d \in Runs : d # run.n => basis'[d] = basis[d]
      /\ Step = "llm_digest" /\ o.status = "succeeded" => basis'[run.n] = data.outline
      /\ Step # "llm_digest" => basis' = basis
      /\ (basis = [n \in Runs |-> basis[n]])'
  BY <1>1, <1>2 DEF SideEffects, DigestInv, Stored
<1>7. KeepsDigests
  BY <1>1, <1>6 DEF KeepsDigests
<1>8. Stored'
  BY <1>1, <1>6, <1>7, StoredQuiet DEF DigestInv
<1>9. InHand'
  <2>1. CASE Step = "llm_digest"
    <3>1. run'.key["outline"] = data'.outline
      BY <1>1, <1>4, <2>1 DEF DigestInv, InHand
    <3>2. \/ o.status = "succeeded" /\ o.updates = One("digest", run.n)
          \/ o.status = "failed" /\ "digest" \notin DOMAIN o.updates
      BY <2>1, DigestOutcomes
    <3>3. o.status = "succeeded" =>
            o.updates = One("digest", run.n) /\ basis'[run.n] = run'.key["outline"]
      BY <1>1, <1>6, <2>1, <3>1, <3>2
    <3>4. o.status # "skipped" /\ (o.status = "failed" => "digest" \notin DOMAIN o.updates)
      BY <3>2
    <3>5. (run.exec.updates = One("digest", run.n))' <=> run'.exec.updates = One("digest", run'.n)
      BY DEF One
    <3> QED
      BY <1>3, <1>4, <1>5, <2>1, <3>1, <3>3, <3>4, <3>5 DEF InHand, Own
  <2>2. CASE Step # "llm_digest"
    BY <1>3, <1>4, <1>5, <2>2 DEF InHand, Own
  <2> QED
    BY <2>1, <2>2
<1>10. Held'
  BY <1>1, <1>4, <1>7, StepsListFacts, HeldKept DEF DigestInv, Ended, RunShape
<1> QED
  BY <1>8, <1>9, <1>10 DEF DigestInv

\* A step that only moves the run on, and not to the end of a handler.
LEMMA DigestMoves ==
  ASSUME DigestInv, LedgerInv, KeepsLedger, RunShape,
         UNCHANGED <<job, rows, cache, legacy, data, basis>>,
         NEW pc \in Places, pc # "idle", run.pc # "idle", run' = [run EXCEPT !.pc = pc],
         pc \notin Ended => run.pc \notin Ended,
         pc \in {"try", "sleep"} => run.pc \in {"try", "sleep"},
         pc # "finish", pc \in {"checkpoint", "write"} => run.pc \in {"checkpoint", "write"}
  PROVE  DigestInv'
<1>1. /\ Step' = Step /\ run'.pc = pc /\ run'.n = run.n /\ run'.idx = run.idx
      /\ run'.exec = run.exec /\ run'.key = run.key
  BY GotoFacts
<1>2. KeepsDigests
  BY DigestsKept
<1>3. Stored'
  BY <1>2, StoredQuiet DEF DigestInv, Stored
<1>4. InHand'
  BY <1>1 DEF DigestInv, InHand, Own, Gives, Written
<1>5. Held'
  BY <1>1, <1>2, StepsListFacts, HeldKept DEF DigestInv, RunShape
<1> QED
  BY <1>3, <1>4, <1>5 DEF DigestInv

LEMMA DigestFinish ==
  ASSUME DigestInv, LedgerInv, Finish
  PROVE  DigestInv'
<1> DEFINE row == Row(run.exec.status, run.key, run.exec)
           upd == run.exec.updates
<1>1. /\ run.pc = "finish" /\ UNCHANGED <<job, cache, legacy, basis>>
      /\ SetRow(row) /\ run.exec.status \in Statuses
      /\ rows[Step][run.n].status = "running"
      /\ Step \in Steps /\ run.n \in Runs /\ RunShape /\ RowsShape
  BY StepIsOne DEF Finish, workspace, LedgerInv, AtStep, HasExec, RunShape
<1>2. /\ rows'[Step][run.n] = row
      /\ \A s \in Steps, n \in Runs : s # Step \/ n # run.n => rows'[s][n] = rows[s][n]
  BY <1>1, SetRowFacts
<1>3. row.status = run.exec.status /\ row.key = run.key /\ row.exec = run.exec
  BY DEF Row
<1>4. KeepsDigests
  BY <1>1, LedgerFinish, DigestsKept
<1>5. /\ Own(Step, run.exec)
      /\ Step = "llm_digest" /\ run.exec.status # "failed" =>
             GivesNext(run.exec, run.key["outline"])
  <2>1. Own(Step, run.exec)
    BY <1>1 DEF DigestInv, InHand
  <2>2. CASE Step = "llm_digest" /\ run.exec.status = "succeeded"
    <3>1. upd = One("digest", run.n) /\ basis[run.n] = run.key["outline"]
      BY <1>1, <2>2 DEF DigestInv, InHand
    <3>2. "digest" \in DOMAIN upd /\ upd["digest"] = run.n
      BY <3>1 DEF One
    <3>3. rows'["llm_digest"][run.n].status = "succeeded"
      BY <1>2, <1>3, <2>2
    <3> QED
      BY <1>1, <2>1, <3>1, <3>2, <3>3 DEF GivesNext
  <2>3. CASE Step = "llm_digest" /\ run.exec.status = "skipped"
    <3>1. Gives(run.exec, run.key["outline"])
      BY <1>1, <2>3 DEF DigestInv, InHand
    <3> QED
      BY <1>4, <2>1, <3>1, GivesKept
  <2> QED
    BY <1>1, <2>1, <2>2, <2>3 DEF Statuses
<1>6. Stored'
  <2>1. \A s \in Steps, n \in Runs :
          \/ rows'[s][n] = rows[s][n]
          \/ /\ Own(s, rows'[s][n].exec)
             /\ s = "llm_digest" /\ rows'[s][n].status = "succeeded" =>
                    GivesNext(rows'[s][n].exec, rows'[s][n].key["outline"])
    <3> HIDE DEF row
    <3> QED
      BY <1>2, <1>3, <1>5
  <2>2. /\ (cache = [s \in Steps |-> cache[s]])' /\ (legacy = [s \in Steps |-> legacy[s]])'
        /\ (basis = [n \in Runs |-> basis[n]])' /\ Stored
    BY <1>1 DEF DigestInv, Stored
  <2> QED
    BY <1>1, <1>4, <2>1, <2>2, StoredStep
<1>7. /\ run'.pc = IF run.exec.status = "failed" THEN "write" ELSE "checkpoint"
      /\ run'.n = run.n /\ run'.idx = run.idx /\ run'.exec = run.exec /\ run'.key = run.key
  BY <1>1 DEF Finish, Goto, RunShape
<1>8. StepsList' = StepsList /\ Step' = Step
  BY <1>1, <1>7 DEF StepsList, Step
<1>9. InHand'
  <2>1. run'.pc \in {"write", "checkpoint"}
    BY <1>7
  <2>2. Step = "llm_digest" /\ run'.exec.status = "succeeded" =>
          GivesNext(run'.exec, run'.key["outline"])
    BY <1>5, <1>7
  <2> QED
    BY <1>5, <1>7, <1>8, <2>1, <2>2 DEF InHand, Own, Gives, Written, GivesNext
<1>10. /\ {"outline", "digest"} \subseteq DOMAIN data'
       /\ data'.outline = IF "outline" \in DOMAIN upd THEN upd["outline"] ELSE data.outline
       /\ data'.digest = IF "digest" \in DOMAIN upd THEN upd["digest"] ELSE data.digest
  BY <1>1 DEF Finish, Updated, DigestInv, Held
<1>11. Held'
  <2>1. \A i \in 1..Len(StepsList) :
          StepsList[i] = "llm_outline" /\ run.idx <= i => data.digest = 0
    BY <1>1 DEF DigestInv, Held, Ended
  <2>2. CASE Step = "llm_outline"
    <3>1. data.digest = 0
      BY <1>1, <2>1, <2>2 DEF RunShape, Step
    <3>2. "digest" \notin DOMAIN upd
      BY <1>5, <2>2 DEF Own, OwnKeys
    <3>3. data'.digest = 0
      BY <1>10, <3>1, <3>2
    <3> QED
      BY <1>10, <3>3 DEF Held
  <2>3. CASE Step = "llm_digest"
    <3>1. "outline" \notin DOMAIN upd
      BY <1>5, <2>3 DEF Own, OwnKeys
    <3>2. data'.outline = data.outline /\ run.key["outline"] = data.outline
      BY <1>1, <1>10, <2>3, <3>1 DEF DigestInv, InHand
    <3>3. \A i \in 1..Len(StepsList) : ~(StepsList[i] = "llm_outline" /\ run.idx <= i)
      BY <1>1, <2>3, OutlineBeforeDigest, StepsListFacts DEF RunShape, Step
    <3>4. CASE run.exec.status = "failed"
      <4>1. "digest" \notin DOMAIN upd
        BY <1>1, <2>3, <3>4 DEF DigestInv, InHand
      <4>2. data'.digest = data.digest
        BY <1>10, <4>1
      <4>3. data'.digest # 0 => Written(data.digest, data.outline)
        BY <4>2 DEF DigestInv, Held
      <4> QED
        BY <1>4, <1>7, <1>8, <1>10, <3>2, <3>3, <4>2, <4>3 DEF Held, Written, KeepsDigests
    <3>5. CASE run.exec.status # "failed"
      <4>1. GivesNext(run.exec, data.outline)
        BY <1>5, <2>3, <3>2, <3>5
      <4>2. /\ data'.digest \in Runs /\ rows'["llm_digest"][data'.digest].status = "succeeded"
            /\ basis'[data'.digest] = data'.outline
        BY <1>10, <3>2, <4>1 DEF GivesNext
      <4> QED
        BY <1>7, <1>8, <1>10, <3>3, <4>2 DEF Held, Written
    <3> QED
      BY <3>4, <3>5
  <2>4. CASE Step # "llm_outline" /\ Step # "llm_digest"
    <3>1. "outline" \notin DOMAIN upd /\ "digest" \notin DOMAIN upd
      BY <1>5, <2>4 DEF Own, OwnKeys
    <3>2. data'.outline = data.outline /\ data'.digest = data.digest
      BY <1>10, <3>1
    <3>3. data.digest # 0 => Written(data.digest, data.outline)
      BY DEF DigestInv, Held
    <3> QED
      BY <1>4, <1>7, <1>8, <1>10, <2>1, <3>2, <3>3 DEF Held, Written, KeepsDigests
  <2> QED
    BY <2>2, <2>3, <2>4
<1> QED
  BY <1>6, <1>9, <1>11 DEF DigestInv

\* Cache files of the step at hand: what is written is its execution, or torn.
LEMMA DigestFiles ==
  ASSUME DigestInv, run.pc = "write", run.exec.status = "succeeded", Step \in Steps,
         UNCHANGED <<rows, basis>>, NEW exec \in {NoExec, run.exec},
         cache' = cache \/ cache' = [cache EXCEPT ![Step] = Others \union {File(exec)}],
         \/ legacy' = legacy
         \/ \E e \in {NoExec, run.exec} : legacy' = [legacy EXCEPT ![Step] = e]
  PROVE  Stored'
<1>1. /\ Own(Step, run.exec)
      /\ Step = "llm_digest" => Gives(run.exec, run.key["outline"])
  BY DEF DigestInv, InHand
<1>2. KeepsDigests
  BY DEF KeepsDigests
<1>3. /\ Own(Step, File(exec).exec)
      /\ Step = "llm_digest" /\ File(exec).exec.status = "succeeded" =>
             GivesNext(File(exec).exec, File(exec).key["outline"])
  <2>1. File(exec).exec = exec /\ File(exec).key = run.key
    BY DEF File
  <2>2. NoExec.status # "succeeded"
    BY DEF NoExec, Exec
  <2>3. exec = run.exec \/ exec = NoExec
    OBVIOUS
  <2> QED
    BY <1>1, <1>2, <2>1, <2>2, <2>3, OwnShorthand, GivesKept
<1>4. /\ cache = [s \in Steps |-> cache[s]] /\ legacy = [s \in Steps |-> legacy[s]]
      /\ basis = [n \in Runs |-> basis[n]]
  BY DEF DigestInv, Stored
<1>5. /\ (cache = [s \in Steps |-> cache[s]])'
      /\ \A s \in Steps : \A e \in cache'[s] :
             e \in cache[s] \/ (s = Step /\ e = File(exec))
  BY <1>4 DEF Others
<1>6. /\ (legacy = [s \in Steps |-> legacy[s]])'
      /\ \A s \in Steps : legacy'[s] = legacy[s] \/ Own(s, legacy'[s])
  BY <1>1, <1>4, OwnShorthand
<1>7. \A s \in Steps : \A e \in cache'[s] :
          \/ e \in cache[s]
          \/ /\ Own(s, e.exec)
             /\ s = "llm_digest" /\ e.exec.status = "succeeded" =>
                    GivesNext(e.exec, e.key["outline"])
  BY <1>3, <1>5
<1>8. Stored /\ (basis = [n \in Runs |-> basis[n]])'
  BY <1>4 DEF DigestInv
<1> QED
  BY <1>2, <1>5, <1>6, <1>7, <1>8, StoredStep

LEMMA DigestWrite ==
  ASSUME DigestInv, LedgerInv, Write
  PROVE  DigestInv'
<1>1. /\ run.pc = "write" /\ UNCHANGED <<job, rows, data, basis>>
      /\ Step \in Steps /\ RunShape
  BY StepIsOne DEF Write, store, LedgerInv
<1>2. KeepsDigests
  BY <1>1 DEF KeepsDigests
<1>3. Stored'
  <2>1. CASE UNCHANGED <<cache, legacy>>
    BY <1>1, <1>2, <2>1, StoredQuiet DEF DigestInv, Stored
  <2>2. CASE ~UNCHANGED <<cache, legacy>>
    <3>1. /\ run.exec.status = "succeeded"
          /\ cache' = [cache EXCEPT ![Step] = Others \union {File(run.exec)}]
          /\ legacy' = [legacy EXCEPT ![Step] = run.exec]
      BY <2>2 DEF Write
    <3> QED
      BY <1>1, <3>1, DigestFiles
  <2> QED
    BY <2>1, <2>2
<1>4. /\ run'.pc \in {"raised", "resolve", "begin"} /\ run.idx \in 1..Len(StepsList)
      /\ run'.idx \in 1..Len(StepsList) /\ run.idx <= run'.idx
  <2>1. CASE run' = [run EXCEPT !.pc = "raised"] \/ run' = [run EXCEPT !.pc = "resolve"]
    BY <1>1, <2>1, StepsListFacts DEF RunShape
  <2>2. CASE /\ run' = [run EXCEPT !.pc = "begin", !.idx = run.idx + 1]
             /\ run.idx + 1 \in 1..Len(StepsList)
    BY <1>1, <2>2, StepsListFacts DEF RunShape
  <2> QED
    BY <1>1, <2>1, <2>2, WriteGoes
<1>5. InHand'
  BY <1>4 DEF InHand
<1>6. Held'
  BY <1>1, <1>2, <1>4, HeldKept DEF DigestInv, Ended
<1> QED
  BY <1>3, <1>5, <1>6 DEF DigestInv

LEMMA DigestCancel ==
  ASSUME DigestInv, LedgerInv, Cancel
  PROVE  DigestInv'
<1>1. /\ UNCHANGED <<job, cache, legacy, data, basis>> /\ SetRow(CancelRow)
      /\ Step \in Steps /\ run.pc \in {"try", "sleep"} /\ RunShape /\ RowsShape
      /\ run' = [run EXCEPT !.pc = "cancelled"]
  BY StepIsOne DEF Cancel, workspace, Goto, LedgerInv
<1>2. run.n \in Runs /\ run'.pc = "cancelled"
  BY <1>1 DEF RunShape
<1>3. KeepsDigests
  BY <1>1, LedgerCancel, DigestsKept
<1>4. CancelRow.exec = Cancelled /\ CancelRow.status = "failed"
  BY DEF CancelRow, Row
<1>5. \A s \in Steps, n \in Runs :
          \/ rows'[s][n] = rows[s][n]
          \/ Own(s, rows'[s][n].exec) /\ rows'[s][n].status # "succeeded"
  <2>1. /\ rows'[Step][run.n] = CancelRow
        /\ \A s \in Steps, n \in Runs : s # Step \/ n # run.n => rows'[s][n] = rows[s][n]
    BY <1>1, <1>2, SetRowFacts
  <2> QED
    BY <1>4, <2>1, OwnShorthand
<1>6. Stored'
  BY <1>1, <1>3, <1>5, StoredQuiet DEF DigestInv, Stored
<1>7. InHand'
  BY <1>2 DEF InHand
<1>8. Held'
  BY <1>1, <1>2, <1>3, HeldKept DEF DigestInv, Ended
<1> QED
  BY <1>6, <1>7, <1>8 DEF DigestInv

LEMMA DigestCrash ==
  ASSUME DigestInv, LedgerInv, Crash
  PROVE  DigestInv'
<1>1. /\ UNCHANGED <<job, rows, data, basis>> /\ Step \in Steps /\ RunShape
      /\ run' = [run EXCEPT !.pc = "dead"] /\ (Torn \/ UNCHANGED <<cache, legacy>>)
  BY StepIsOne DEF Crash, store, local, Goto, LedgerInv
<1>2. run'.pc = "dead"
  BY <1>1 DEF RunShape
<1>3. KeepsDigests
  BY <1>1 DEF KeepsDigests
<1>4. Stored'
  <2>1. CASE UNCHANGED <<cache, legacy>>
    BY <1>1, <1>3, <2>1, StoredQuiet DEF DigestInv, Stored
  <2>2. CASE Torn
    <3>1. /\ run.pc = "write" /\ run.exec.status = "succeeded"
          /\ \/ /\ cache' = [cache EXCEPT ![Step] = Others \union {File(NoExec)}]
                /\ legacy' = legacy
             \/ /\ cache' = [cache EXCEPT ![Step] = Others \union {File(run.exec)}]
                /\ \/ legacy' = legacy
                   \/ legacy' = [legacy EXCEPT ![Step] = NoExec]
      BY <2>2 DEF Torn
    <3>2. CASE cache' = [cache EXCEPT ![Step] = Others \union {File(NoExec)}]
      BY <1>1, <3>1, <3>2, DigestFiles
    <3>3. CASE cache' = [cache EXCEPT ![Step] = Others \union {File(run.exec)}]
      BY <1>1, <3>1, <3>3, DigestFiles
    <3> QED
      BY <3>1, <3>2, <3>3
  <2> QED
    BY <1>1, <2>1, <2>2
<1>5. InHand'
  BY <1>2 DEF InHand
<1>6. Held'
  BY <1>1, <1>2, <1>3, HeldKept DEF DigestInv, Ended
<1> QED
  BY <1>4, <1>5, <1>6 DEF DigestInv

LEMMA DigestStep == DigestInv /\ LedgerInv /\ [Next]_vars => DigestInv'
<1>1. SUFFICES ASSUME DigestInv, LedgerInv, [Next]_vars PROVE DigestInv'
  OBVIOUS
<1>2. ASSUME NEW c \in Callers, NEW m \in Modes, NEW p \in Policies, Start(c, m, p)
      PROVE  DigestInv'
  BY <1>1, <1>2, DigestStart
<1>3. KeepsLedger /\ RunShape
  BY <1>1, LedgerStep DEF LedgerInv
<1>4. CASE Begin
  BY <1>1, <1>4, DigestBegin
<1>5. CASE Try
  BY <1>1, <1>5, DigestTry
<1>6. CASE Sleep
  <2>1. /\ run.pc = "sleep" /\ UNCHANGED <<job, rows, cache, legacy, data, basis>>
        /\ run' = [run EXCEPT !.pc = "try"]
    BY <1>6 DEF Sleep, Goto, store, workspace, local
  <2> QED
    BY <1>1, <1>3, <2>1, DigestMoves DEF Places, Ended
<1>7. CASE Finish
  BY <1>1, <1>7, DigestFinish
<1>8. CASE Checkpoint
  <2>1. /\ run.pc = "checkpoint" /\ UNCHANGED <<job, rows, cache, legacy, data, basis>>
        /\ run' = [run EXCEPT !.pc = "write"]
    BY <1>8 DEF Checkpoint, Goto, workspace, local
  <2> QED
    BY <1>1, <1>3, <2>1, DigestMoves DEF Places, Ended
<1>9. CASE Write
  BY <1>1, <1>9, DigestWrite
<1>10. CASE Return
  <2>1. /\ run.pc = "resolve" /\ UNCHANGED <<job, rows, cache, legacy, data, basis>>
        /\ run' = [run EXCEPT !.pc = "returned"]
    BY <1>10 DEF Return, Goto, store, workspace
  <2> QED
    BY <1>1, <1>3, <2>1, DigestMoves DEF Places, Ended
<1>11. CASE Cancel
  BY <1>1, <1>11, DigestCancel
<1>12. CASE Crash
  BY <1>1, <1>12, DigestCrash
<1>13. CASE Cleanup \/ UNCHANGED vars
  <2>1. UNCHANGED <<job, run, rows, cache, legacy, data, basis>>
    BY <1>13 DEF Cleanup, vars, store, workspace, local
  <2>2. KeepsDigests
    BY <2>1 DEF KeepsDigests
  <2>3. Stored'
    BY <1>1, <2>1, <2>2, StoredQuiet DEF DigestInv, Stored
  <2>4. StepsList' = StepsList /\ Step' = Step
    BY <2>1 DEF StepsList, Step
  <2>5. InHand'
    BY <1>1, <2>1, <2>4 DEF DigestInv, InHand, Own, Gives, Written
  <2>6. Held'
    BY <1>1, <1>3, <2>1, <2>2, StepsListFacts, HeldKept DEF DigestInv, RunShape
  <2> QED
    BY <2>3, <2>5, <2>6 DEF DigestInv
<1> QED
  BY <1>1, <1>2, <1>4, <1>5, <1>6, <1>7, <1>8, <1>9, <1>10, <1>11, <1>12, <1>13
     DEF Next, Advance

(***************************************************************************)
(* The digest a run delivers was written from the outline it delivers,     *)
(* through any number of runs, modes, crashes, torn files and cleanups:    *)
(* the signature of llm_digest holds the outline, and so do its rows.      *)
(***************************************************************************)
THEOREM DigestFollowsOutline == Spec => []DigestMatchesOutline
<1>1. DigestInv => DigestMatchesOutline
  BY DEF DigestInv, Held, Written, DigestMatchesOutline
<1> QED
  BY <1>1, DigestInit, DigestStep, LedgerAlways, PTL DEF Spec

-----------------------------------------------------------------------------
\* Nothing is found for a step only when its rows hold no success either.
LEMMA LookupSeesRows ==
  ASSUME Lookup = NoExec, run.idx <= run.upto, ~ForceRun
  PROVE  SucceededRows = {}
<1>1. ResumeHint
  BY DEF ResumeHint
<1>2. \A e, r : Recovered(e, r) # NoExec
  <2>1. \A e, r : Recovered(e, r).status = "skipped" /\ NoExec.status = "failed"
    BY DEF Recovered, NoExec, Exec
  <2> QED
    BY <2>1
<1> QED
  BY <1>1, <1>2 DEF Lookup

\* A step goes from its beginning to the handler by Begin alone, having found nothing.
LEMMA BeginOnly ==
  ASSUME RunShape, [Next]_vars, run.pc = "begin", run'.pc = "try"
  PROVE  Begin /\ Lookup = NoExec
<1>1. CASE Begin
  <2>1. run' = [run EXCEPT !.pc = IF Lookup = NoExec THEN "try" ELSE "finish",
                           !.key = Key, !.exec = Lookup, !.failed = 0]
    BY <1>1 DEF Begin
  <2>2. run'.pc = IF Lookup = NoExec THEN "try" ELSE "finish"
    BY <2>1 DEF RunShape
  <2> QED
    BY <1>1, <2>2
<1>2. CASE Crash
  BY <1>2 DEF Crash, Goto, RunShape
<1>3. ASSUME NEW c \in Callers, NEW m \in Modes, NEW p \in Policies, Start(c, m, p)
      PROVE  FALSE
  BY <1>3 DEF Start, Ended
<1>4. ~Try /\ ~Sleep /\ ~Finish /\ ~Checkpoint /\ ~Write /\ ~Return
  BY DEF Try, Sleep, Finish, Checkpoint, Write, Return
<1>5. ~Cancel /\ ~Cleanup /\ ~UNCHANGED vars
  BY DEF Cancel, Cleanup, vars
<1> QED
  BY <1>1, <1>2, <1>3, <1>4, <1>5 DEF Next, Advance

(***************************************************************************)
(* A resumed run, at a step up to the checkpoint that the mode does not    *)
(* force, goes to the handler only when the ledger holds no success of     *)
(* that step under the same inputs: every reason to look elsewhere comes   *)
(* before that one, and every recovery spares the handler.                 *)
(***************************************************************************)
THEOREM RecordedWorkStays == Spec => RecordedWorkIsKept
<1>1. LedgerInv /\ [Next]_vars =>
        [run.pc = "begin" /\ run'.pc = "try" /\ run.idx <= run.upto =>
           ForceRun \/ \A n \in Runs :
               rows[Step][n].status = "succeeded" => rows[Step][n].key # Key]_run
  <2>1. SUFFICES ASSUME LedgerInv, [Next]_vars, run.pc = "begin", run'.pc = "try",
                        run.idx <= run.upto, ~ForceRun, NEW n \in Runs,
                        rows[Step][n].status = "succeeded", rows[Step][n].key = Key
                 PROVE  FALSE
    OBVIOUS
  <2>2. Lookup = NoExec
    BY <2>1, BeginOnly DEF LedgerInv
  <2>3. SucceededRows = {}
    BY <2>1, <2>2, LookupSeesRows
  <2> QED
    BY <2>1, <2>3 DEF SucceededRows, Runs
<1> QED
  BY <1>1, LedgerAlways, PTL DEF Spec, RecordedWorkIsKept

-----------------------------------------------------------------------------
(***************************************************************************)
(* What a run that reports succeeded has.  Every step has products of its  *)
(* own; an execution that succeeded undegraded bears them in full, in the  *)
(* files, in the ledger and in the run's hand; and a step that passed      *)
(* without a degradation, and was not spared by the mode, has left its     *)
(* products in full among the run's.                                       *)
(***************************************************************************)
ProductsOf(s) ==
    CASE s = "fetch_metadata" -> {"meta"}
      [] s = "download_media" -> {"media"}
      [] s = "collect_subtitles" -> {"text"}
      [] s = "collect_comments" -> {"comments"}
      [] s = "extract_frames" -> {"frames"}
      [] s = "fetch_article_content" -> {"meta", "text", "frames", "comments"}
      [] s = "llm_outline" -> {"outline"}
      [] s = "llm_digest" -> {"digest"}
      [] OTHER -> {}

\* v, a run's products or what an execution updates, has those of the step in full.
InFull(s, v) ==
    /\ s \in {"fetch_metadata", "fetch_article_content"} => v["meta"].kind = "full"
    /\ s \in {"collect_subtitles", "fetch_article_content"} => v["text"] = "full"
    /\ s = "download_media" => v["media"]
    /\ s = "collect_comments" => v["comments"].kind = "some"
    /\ s = "extract_frames" => v["frames"] # 0
    /\ s = "llm_outline" => v["outline"] # 0
    /\ s = "llm_digest" => v["digest"] # 0

Whole(s, updates) == DOMAIN updates = ProductsOf(s) /\ InFull(s, updates)

Earned(s, exec) ==
    /\ DOMAIN exec.updates \subseteq ProductsOf(s)
    /\ exec.status = "succeeded" /\ ~exec.degraded => Whole(s, exec.updates)

\* An execution for which append_degradation is not called.
Undegraded(exec) ==
    /\ exec.status \in Passed /\ ~exec.degraded
    /\ exec.status = "skipped" => exec.reason \in NON_DEGRADING_SKIP_REASONS

Spared(s, mode) == s \in PIPELINE_MODE_SKIP_STEPS(mode)

RowEarned(s, row) ==
    Earned(s, row.exec) /\ (row.status = "succeeded" => row.exec.status = "succeeded")

StoreEarned ==
    /\ \A s \in Steps : \A e \in cache[s] : Earned(s, e.exec)
    /\ \A s \in Steps : Earned(s, legacy[s])
    /\ \A s \in Steps, n \in Runs : RowEarned(s, rows[s][n])

HandEarned ==
    /\ run.pc \in {"finish", "checkpoint", "write"} => Earned(Step, run.exec)
    /\ run.pc = "finish" /\ Undegraded(run.exec) /\ ~Spared(Step, run.mode) =>
           Whole(Step, run.exec.updates)
    /\ run.pc \in {"checkpoint", "write"} /\ Undegraded(run.exec) /\ ~Spared(Step, run.mode) =>
           InFull(Step, data)

DataKeys == {"meta", "media", "text", "comments", "frames", "outline", "digest", "policy"}

DataEarned ==
    /\ DOMAIN data = DataKeys
    /\ run.pc # "idle" => data["policy"] # 0
    /\ run.pc \notin Ended \union {"resolve"} =>
           \A i \in 1..Len(StepsList) : run.idx <= i => steps[StepsList[i]] = "none"
    /\ run.pc # "idle" =>
           \A s \in Listed :
               steps[s] \in Passed /\ s \notin degr /\ ~Spared(s, run.mode) => InFull(s, data)

EarnedInv == StoreEarned /\ HandEarned /\ DataEarned /\ SucceededIsComplete

-----------------------------------------------------------------------------
\* Two steps of one list have no product in common.
LEMMA ApartProducts ==
  \A s, t \in Listed : s # t => ProductsOf(s) \intersect ProductsOf(t) = {}
<1>1. CASE job.content = "article"
  <2>1. StepsList = <<"fetch_article_content", "llm_outline", "llm_digest", "build_embeddings",
                      "write_artifacts">>
    BY <1>1 DEF StepsList, ARTICLE_PIPELINE_STEPS
  <2>2. Listed \subseteq {"fetch_article_content", "llm_outline", "llm_digest",
                          "build_embeddings", "write_artifacts"}
    BY <2>1 DEF Listed
  <2>3. /\ ProductsOf("fetch_article_content") = {"meta", "text", "frames", "comments"}
        /\ ProductsOf("llm_outline") = {"outline"} /\ ProductsOf("llm_digest") = {"digest"}
        /\ ProductsOf("build_embeddings") = {} /\ ProductsOf("write_artifacts") = {}
    BY DEF ProductsOf
  <2> QED
    BY <2>2, <2>3
<1>2. CASE job.content # "article"
  <2>1. StepsList =
          <<"fetch_metadata", "download_media", "collect_subtitles", "collect_comments",
            "extract_frames", "llm_outline", "llm_digest", "build_embeddings", "write_artifacts">>
    BY <1>2 DEF StepsList, PIPELINE_STEPS
  <2>2. Listed \subseteq
          {"fetch_metadata", "download_media", "collect_subtitles", "collect_comments",
           "extract_frames", "llm_outline", "llm_digest", "build_embeddings", "write_artifacts"}
    BY <2>1 DEF Listed
  <2>3. /\ ProductsOf("fetch_metadata") = {"meta"} /\ ProductsOf("download_media") = {"media"}
        /\ ProductsOf("collect_subtitles") = {"text"}
        /\ ProductsOf("collect_comments") = {"comments"}
        /\ ProductsOf("extract_frames") = {"frames"}
        /\ ProductsOf("llm_outline") = {"outline"} /\ ProductsOf("llm_digest") = {"digest"}
        /\ ProductsOf("build_embeddings") = {} /\ ProductsOf("write_artifacts") = {}
    BY DEF ProductsOf
  <2> QED
    BY <2>2, <2>3
<1> QED
  BY <1>1, <1>2

LEMMA ProductNames == \A s \in Steps : ProductsOf(s) \subseteq DataKeys
BY StepNames DEF ProductsOf, DataKeys

\* Whether the products of a step are there in full depends on them alone.
LEMMA FullCarries ==
  ASSUME NEW s \in Steps, NEW v, NEW w, \A k \in ProductsOf(s) : w[k] = v[k], InFull(s, v)
  PROVE  InFull(s, w)
<1>1. /\ s = "fetch_metadata" => "meta" \in ProductsOf(s)
      /\ s = "download_media" => "media" \in ProductsOf(s)
      /\ s = "collect_subtitles" => "text" \in ProductsOf(s)
      /\ s = "collect_comments" => "comments" \in ProductsOf(s)
      /\ s = "extract_frames" => "frames" \in ProductsOf(s)
      /\ s = "fetch_article_content" => "meta" \in ProductsOf(s) /\ "text" \in ProductsOf(s)
      /\ s = "llm_outline" => "outline" \in ProductsOf(s)
      /\ s = "llm_digest" => "digest" \in ProductsOf(s)
  BY DEF ProductsOf
<1> QED
  BY <1>1 DEF InFull

\* apply_state_updates: what it gives, and what it leaves.
LEMMA UpdatedFacts ==
  ASSUME NEW updates
  PROVE  /\ DOMAIN Updated(updates) = DOMAIN data
         /\ \A k \in DOMAIN data :
                Updated(updates)[k] = IF k \in DOMAIN updates THEN updates[k] ELSE data[k]
BY DEF Updated

LEMMA UpdatedGives ==
  ASSUME NEW s \in Steps, NEW updates, Whole(s, updates), DOMAIN data = DataKeys
  PROVE  InFull(s, Updated(updates))
<1>1. \A k \in ProductsOf(s) : Updated(updates)[k] = updates[k]
  BY UpdatedFacts, ProductNames DEF Whole
<1> QED
  BY <1>1, FullCarries DEF Whole

LEMMA UpdatedLeaves ==
  ASSUME NEW s \in Listed, NEW t \in Listed, s # t, NEW updates,
         DOMAIN updates \subseteq ProductsOf(t), InFull(s, data), DOMAIN data = DataKeys
  PROVE  InFull(s, Updated(updates))
<1>1. s \in Steps
  BY StepsListFacts DEF Listed
<1>2. \A k \in ProductsOf(s) : k \notin DOMAIN updates /\ k \in DOMAIN data
  BY <1>1, ApartProducts, ProductNames
<1>3. \A k \in ProductsOf(s) : Updated(updates)[k] = data[k]
  BY <1>2, UpdatedFacts
<1> QED
  BY <1>1, <1>3, FullCarries

-----------------------------------------------------------------------------
LEMMA EarnedShorthand ==
  ASSUME NEW s, NEW u, DOMAIN u \subseteq ProductsOf(s)
  PROVE  /\ Earned(s, Degraded(u)) /\ Earned(s, Skipped(u))
         /\ \A c, d : Earned(s, Failed(c, u, d))
         /\ Whole(s, u) => Earned(s, Done(u))
         /\ ~Undegraded(Skipped(u)) /\ \A c, d : ~Undegraded(Failed(c, u, d))
BY DEF Earned, Degraded, Skipped, Failed, Done, Exec, Undegraded, Passed,
       NON_DEGRADING_SKIP_REASONS

LEMMA NothingEarned ==
  /\ DOMAIN Nothing = {}
  /\ \A s : /\ Earned(s, NoExec) /\ Earned(s, Cancelled) /\ Earned(s, Unhandled)
            /\ \A c, d : Earned(s, Failed(c, Nothing, d))
<1>1. DOMAIN Nothing = {}
  BY DEF Nothing
<1>2. \A s, u : DOMAIN u = {} => DOMAIN u \subseteq ProductsOf(s)
  OBVIOUS
<1>3. \A s, c, d : Earned(s, Failed(c, Nothing, d))
  BY <1>1, <1>2, EarnedShorthand
<1>4. \A s : Earned(s, NoExec)
  BY <1>1 DEF NoExec, Exec, Earned
<1> QED
  BY <1>1, <1>3, <1>4 DEF Cancelled, Unhandled

\* The execution of a step with one product.
LEMMA OneEarned ==
  ASSUME NEW s, NEW k, ProductsOf(s) = {k}, NEW v
  PROVE  /\ Earned(s, Degraded(One(k, v))) /\ Earned(s, Skipped(One(k, v)))
         /\ \A c, d : Earned(s, Failed(c, One(k, v), d))
         /\ InFull(s, One(k, v)) => Earned(s, Done(One(k, v)))
<1>1. DOMAIN One(k, v) = {k}
  BY OneDomain
<1>2. DOMAIN One(k, v) \subseteq ProductsOf(s)
  BY <1>1
<1>3. InFull(s, One(k, v)) => Whole(s, One(k, v))
  BY <1>1 DEF Whole
<1> QED
  BY <1>2, <1>3, EarnedShorthand

LEMMA DoneIsUndegraded ==
  \A u : /\ Done(u).status = "succeeded" /\ Degraded(u).status = "succeeded"
         /\ Skipped(u).degraded /\ \A c, d : Failed(c, u, d).status = "failed"
BY DEF Done, Degraded, Skipped, Failed, Exec

\* What the handlers of the steps return is earned, and what they skip is degraded.
LEMMA EarnedHandler ==
  ASSUME Step \in Steps, ~ModeSkipped, data["policy"] # 0, run.n \in Runs, NEW o \in StepHandler
  PROVE  Earned(Step, o) /\ (o.status = "skipped" => o.degraded)
<1>1. CASE Step = "fetch_metadata"
  <2>1. ProductsOf(Step) = {"meta"}
    BY <1>1 DEF ProductsOf
  <2>2. o \in FetchMetadata
    BY <1>1 DEF StepHandler
  <2>3. \/ o = Done(One("meta", Of("full", run.n)))
        \/ o = Degraded(One("meta", Of("fallback", run.n)))
        \/ o = Failed("fatal", One("meta", Of("base", run.n)), TRUE)
    BY <2>2, Zenon DEF FetchMetadata
  <2>4. InFull(Step, One("meta", Of("full", run.n)))
    <3>1. One("meta", Of("full", run.n))["meta"] = Of("full", run.n)
      BY OneDomain
    <3>2. Of("full", run.n).kind = "full"
      BY DEF Of
    <3> QED
      BY <1>1, <3>1, <3>2 DEF InFull
  <2> QED
    BY <2>1, <2>3, <2>4, OneEarned, DoneIsUndegraded
<1>2. CASE Step = "download_media"
  <2>1. ProductsOf(Step) = {"media"}
    BY <1>2 DEF ProductsOf
  <2>2. o \in DownloadMedia
    BY <1>2 DEF StepHandler
  <2>3. \/ o = Done(One("media", TRUE)) \/ o = Skipped(One("media", FALSE))
        \/ \E c \in Categories : o = Failed(c, One("media", FALSE), TRUE)
    BY <2>2, Zenon DEF DownloadMedia
  <2>4. InFull(Step, One("media", TRUE))
    <3>1. One("media", TRUE)["media"] = TRUE
      BY OneDomain, Zenon
    <3> QED
      BY <1>2, <3>1 DEF InFull
  <2>5. /\ Earned(Step, Done(One("media", TRUE))) /\ Earned(Step, Skipped(One("media", FALSE)))
        /\ \A c, d : Earned(Step, Failed(c, One("media", FALSE), d))
    BY <2>1, <2>4, OneEarned, Zenon
  <2> QED
    BY <2>3, <2>5, DoneIsUndegraded, Zenon
<1>3. CASE Step = "collect_subtitles"
  <2>1. ProductsOf(Step) = {"text"}
    BY <1>3 DEF ProductsOf
  <2>2. o \in CollectSubtitles
    BY <1>3 DEF StepHandler
  <2>3. o = Done(One("text", "full")) \/ o = Degraded(One("text", "empty"))
    BY <2>2, Zenon DEF CollectSubtitles
  <2>4. InFull(Step, One("text", "full"))
    BY <1>3, OneDomain DEF InFull
  <2> QED
    BY <2>1, <2>3, <2>4, OneEarned, DoneIsUndegraded
<1>4. CASE Step = "collect_comments"
  <2>1. ProductsOf(Step) = {"comments"}
    BY <1>4 DEF ProductsOf
  <2>2. o \in CollectComments
    BY <1>4 DEF StepHandler
  <2>3. \/ o = Done(One("comments", Of("some", run.n)))
        \/ o = Degraded(One("comments", Of("empty", run.n)))
        \/ o = Skipped(One("comments", Of("empty", run.n)))
    BY <2>2, Zenon DEF CollectComments
  <2>4. InFull(Step, One("comments", Of("some", run.n)))
    <3>1. One("comments", Of("some", run.n))["comments"] = Of("some", run.n)
      BY OneDomain
    <3>2. Of("some", run.n).kind = "some"
      BY DEF Of
    <3> QED
      BY <1>4, <3>1, <3>2 DEF InFull
  <2> QED
    BY <2>1, <2>3, <2>4, OneEarned, DoneIsUndegraded
<1>5. CASE Step = "extract_frames"
  <2>1. ProductsOf(Step) = {"frames"}
    BY <1>5 DEF ProductsOf
  <2>2. o \in ExtractFrames
    BY <1>5 DEF StepHandler
  <2>3. \/ o = Done(One("frames", data.policy)) \/ o = Skipped(One("frames", 0))
        \/ \E c \in {"transient", "fatal"} : o = Failed(c, One("frames", 0), TRUE)
    BY <2>2, Zenon DEF ExtractFrames
  <2>4. InFull(Step, One("frames", data.policy))
    BY <1>5, OneDomain DEF InFull
  <2> QED
    BY <2>1, <2>3, <2>4, OneEarned, DoneIsUndegraded
<1>6. CASE Step = "fetch_article_content"
  <2> DEFINE got(kind, text) ==
        [meta |-> Of(kind, run.n), text |-> text, frames |-> 0, comments |-> Of("none", 0)]
  <2>1. ProductsOf(Step) = {"meta", "text", "frames", "comments"}
    BY <1>6 DEF ProductsOf
  <2>2. o \in FetchArticleContent
    BY <1>6 DEF StepHandler
  <2>3. \/ o = Done(got("full", "full")) \/ o = Degraded(got("fallback", "fallback"))
        \/ o = Failed("fatal", got("base", "empty"), FALSE)
    BY <2>2, Zenon DEF FetchArticleContent
  <2>4. \A kind, text : DOMAIN got(kind, text) = ProductsOf(Step)
    BY <2>1
  <2>5. InFull(Step, got("full", "full"))
    <3>1. got("full", "full")["meta"] = Of("full", run.n) /\ got("full", "full")["text"] = "full"
      OBVIOUS
    <3>2. Of("full", run.n).kind = "full"
      BY DEF Of
    <3> HIDE DEF got
    <3> QED
      BY <1>6, <3>1, <3>2 DEF InFull
  <2>6. Whole(Step, got("full", "full"))
    BY <2>4, <2>5 DEF Whole
  <2> HIDE DEF got
  <2> QED
    BY <2>3, <2>4, <2>6, EarnedShorthand, DoneIsUndegraded
<1>7. CASE Step = "llm_outline" \/ Step = "llm_digest"
  <2>1. PICK k \in {"outline", "digest"} :
          ProductsOf(Step) = {k} /\ o \in Llm(k) /\ (k = "outline" <=> Step = "llm_outline")
    BY <1>7 DEF ProductsOf, StepHandler
  <2>2. o = Done(One(k, run.n)) \/ \E c \in Categories : o = Failed(c, Nothing, FALSE)
    BY <2>1, Zenon DEF Llm
  <2>3. InFull(Step, One(k, run.n))
    BY <1>7, <2>1, OneDomain, BoundsAssumption DEF InFull, Runs
  <2> QED
    BY <2>1, <2>2, <2>3, OneEarned, NothingEarned, DoneIsUndegraded
<1>8. CASE Step = "build_embeddings" \/ Step = "write_artifacts"
  <2>1. ProductsOf(Step) = {} /\ DOMAIN Nothing = {}
    BY <1>8, NothingEarned DEF ProductsOf
  <2>2. Whole(Step, Nothing)
    BY <1>8, <2>1 DEF Whole, InFull
  <2>3. o \in BuildEmbeddings \union WriteArtifacts
    BY <1>8 DEF StepHandler
  <2>4. o = Done(Nothing) \/ o = Degraded(Nothing) \/ o = Failed("fatal", Nothing, TRUE)
    BY <2>3 DEF BuildEmbeddings, WriteArtifacts
  <2> QED
    BY <2>1, <2>2, <2>4, EarnedShorthand, DoneIsUndegraded
<1> QED
  BY <1>1, <1>2, <1>3, <1>4, <1>5, <1>6, <1>7, <1>8, StepNames

\* An outcome without a degradation is whole, unless the mode spares the step.
LEMMA EarnedOutcomes ==
  ASSUME Step \in Steps, data["policy"] # 0, run.n \in Runs, NEW o \in Outcomes
  PROVE  /\ Earned(Step, o)
         /\ Undegraded(o) /\ ~Spared(Step, run.mode) => Whole(Step, o.updates)
<1>1. CASE o = Unhandled
  BY <1>1, NothingEarned DEF Unhandled, Failed, Exec, Undegraded, Passed
<1>2. CASE ModeSkipped /\ o = ModeSkip
  <2>1. Spared(Step, run.mode)
    BY <1>2 DEF ModeSkipped, Spared
  <2>2. o.updates = PIPELINE_MODE_SKIP_UPDATES /\ o.status = "skipped"
    BY <1>2 DEF ModeSkip, Exec
  <2>3. Step \in {"download_media", "collect_subtitles", "extract_frames"}
    BY <1>2 DEF ModeSkipped, PIPELINE_MODE_SKIP_STEPS
  <2>4. PICK k \in ProductsOf(Step) : \E v : PIPELINE_MODE_SKIP_UPDATES = One(k, v)
    BY <2>3 DEF PIPELINE_MODE_SKIP_UPDATES, ProductsOf
  <2>5. DOMAIN o.updates = {k}
    BY <2>2, <2>4, OneDomain
  <2> QED
    BY <2>1, <2>2, <2>5 DEF Earned
<1>3. CASE ~ModeSkipped /\ o \in StepHandler
  <2>1. Earned(Step, o) /\ (o.status = "skipped" => o.degraded)
    BY <1>3, EarnedHandler
  <2> QED
    BY <2>1 DEF Earned, Undegraded, Passed
<1> QED
  BY <1>1, <1>2, <1>3 DEF Outcomes, Handler

\* What is recovered was once earned: a file or a row of a success, degraded or not.
LEMMA EarnedLookup ==
  ASSUME StoreEarned, Step \in Steps
  PROVE  /\ Earned(Step, Lookup)
         /\ Undegraded(Lookup) => Whole(Step, Lookup.updates)
<1>1. \A e, r : /\ Recovered(e, r).status = "skipped" /\ Recovered(e, r).updates = e.updates
                /\ Recovered(e, r).degraded = e.degraded
  BY DEF Recovered, Exec
<1>2. ASSUME NEW e, NEW r, Earned(Step, e), e.status = "succeeded", Lookup = Recovered(e, r)
      PROVE  /\ Earned(Step, Lookup)
             /\ Undegraded(Lookup) => Whole(Step, Lookup.updates)
  BY <1>1, <1>2 DEF Earned, Undegraded
<1>3. CASE Lookup = NoExec
  BY <1>3, NothingEarned DEF NoExec, Exec, Undegraded, Passed
<1>4. CASE CacheFiles # {} /\ ~ForceRun
  <2> DEFINE e == CHOOSE e \in CacheFiles : TRUE
  <2>1. e \in CacheFiles
    BY <1>4
  <2>2. e \in cache[Step] /\ e.exec.status = "succeeded"
    BY <2>1 DEF CacheFiles, Readable
  <2>3. Lookup = Recovered(e.exec, HitReason("cache_hit"))
    BY <1>4 DEF Lookup
  <2> HIDE DEF e
  <2>4. Earned(Step, e.exec)
    BY <2>2 DEF StoreEarned
  <2> QED
    BY <1>2, <2>2, <2>3, <2>4
<1>5. CASE LegacyRead /\ CacheFiles = {} /\ ~ForceRun
  <2>1. Lookup = Recovered(legacy[Step], HitReason("legacy_cache_hit"))
    BY <1>5 DEF Lookup
  <2>2. legacy[Step].status = "succeeded"
    BY <1>5 DEF LegacyRead, Readable
  <2>3. Earned(Step, legacy[Step])
    BY DEF StoreEarned
  <2> QED
    BY <1>2, <2>1, <2>2, <2>3
<1>6. CASE SucceededRows # {} /\ ~LegacyRead /\ CacheFiles = {} /\ ResumeHint /\ ~ForceRun
  <2>1. LatestRow \in SucceededRows
    <3>1. SucceededRows \subseteq 1..MaxRuns
      BY DEF SucceededRows
    <3>2. \E n \in SucceededRows : \A m \in SucceededRows : m <= n
      <4> HIDE DEF SucceededRows
      <4> QED
        BY <1>6, <3>1, LargestOne, BoundsAssumption
    <3> QED
      BY <3>2 DEF LatestRow
  <2>2. LatestRow \in Runs /\ rows[Step][LatestRow].status = "succeeded"
    BY <2>1 DEF SucceededRows, Runs
  <2>3. Lookup = Recovered(rows[Step][LatestRow].exec, "checkpoint_recovered")
    BY <1>6 DEF Lookup
  <2>4. Earned(Step, rows[Step][LatestRow].exec) /\ rows[Step][LatestRow].exec.status = "succeeded"
    BY <2>2 DEF StoreEarned, RowEarned
  <2> QED
    BY <1>2, <2>3, <2>4
<1> QED
  BY <1>3, <1>4, <1>5, <1>6 DEF Lookup

-----------------------------------------------------------------------------
\* The store after a step: what it adds was earned.
LEMMA StoreEarnedStep ==
  ASSUME StoreEarned,
         \A s \in Steps : \A e \in cache'[s] : e \in cache[s] \/ Earned(s, e.exec),
         \A s \in Steps : legacy'[s] = legacy[s] \/ Earned(s, legacy'[s]),
         \A s \in Steps, n \in Runs :
             rows'[s][n] = rows[s][n] \/ RowEarned(s, rows'[s][n])
  PROVE  StoreEarned'
<1>1. \A s \in Steps : \A e \in cache'[s] : Earned(s, e.exec)
  BY DEF StoreEarned
<1>2. \A s \in Steps : Earned(s, legacy'[s])
  BY DEF StoreEarned
<1>3. \A s \in Steps, n \in Runs : RowEarned(s, rows'[s][n])
  BY DEF StoreEarned
<1> QED
  BY <1>1, <1>2, <1>3 DEF StoreEarned

\* A row of the step at hand, and no file.
LEMMA StoreEarnedRow ==
  ASSUME StoreEarned, RowsShape, Step \in Steps, run.n \in Runs, UNCHANGED <<cache, legacy>>,
         NEW row, SetRow(row), RowEarned(Step, row)
  PROVE  StoreEarned'
<1>1. /\ rows'[Step][run.n] = row
      /\ \A s \in Steps, n \in Runs : s # Step \/ n # run.n => rows'[s][n] = rows[s][n]
  BY SetRowFacts
<1>2. \A s \in Steps, n \in Runs : rows'[s][n] = rows[s][n] \/ RowEarned(s, rows'[s][n])
  BY <1>1
<1> QED
  BY <1>2, StoreEarnedStep

\* Files of the step at hand: its execution, or torn.
LEMMA StoreEarnedFiles ==
  ASSUME StoreEarned, Step \in Steps, UNCHANGED rows, Earned(Step, run.exec),
         cache = [s \in Steps |-> cache[s]], legacy = [s \in Steps |-> legacy[s]],
         NEW exec \in {NoExec, run.exec},
         cache' = cache \/ cache' = [cache EXCEPT ![Step] = Others \union {File(exec)}],
         \/ legacy' = legacy
         \/ \E e \in {NoExec, run.exec} : legacy' = [legacy EXCEPT ![Step] = e]
  PROVE  StoreEarned'
<1>1. Earned(Step, NoExec) /\ File(exec).exec = exec
  BY NothingEarned DEF File
<1>2. \A s \in Steps : \A e \in cache'[s] : e \in cache[s] \/ (s = Step /\ e = File(exec))
  BY DEF Others
<1>3. \A s \in Steps : \A e \in cache'[s] : e \in cache[s] \/ Earned(s, e.exec)
  BY <1>1, <1>2
<1>4. \A s \in Steps : legacy'[s] = legacy[s] \/ Earned(s, legacy'[s])
  BY <1>1
<1> QED
  BY <1>3, <1>4, StoreEarnedStep

\* The run's products when the step records nothing, or a degradation alone.
LEMMA DataEarnedKept ==
  ASSUME DataEarned, UNCHANGED <<job, data, steps>>, degr \subseteq degr', run.pc # "idle",
         run'.mode = run.mode,
         run'.pc \notin Ended \union {"resolve"} =>
             run.pc \notin Ended \union {"resolve"} /\ run'.idx = run.idx
  PROVE  DataEarned'
<1>1. StepsList' = StepsList
  BY DEF StepsList
<1>2. Listed' = Listed
  BY <1>1 DEF Listed
<1>3. \A s \in Listed :
          steps[s] \in Passed /\ s \notin degr' /\ ~Spared(s, run.mode) => InFull(s, data)
  BY DEF DataEarned
<1> QED
  BY <1>1, <1>2, <1>3 DEF DataEarned

\* A step that only moves the run on.
LEMMA EarnedMoves ==
  ASSUME EarnedInv, RunShape, UNCHANGED <<job, rows, cache, legacy, data, steps, degr>>,
         NEW pc \in Places \ {"idle", "begin", "finish", "returned", "resolve"}, run.pc # "idle",
         run' = [run EXCEPT !.pc = pc], pc \notin Ended => run.pc \notin Ended \union {"resolve"},
         pc \in {"checkpoint", "write"} => run.pc \in {"checkpoint", "write"}
  PROVE  EarnedInv'
<1>1. /\ Step' = Step /\ run'.pc = pc /\ run'.idx = run.idx /\ run'.exec = run.exec
  BY GotoFacts
<1>2. run'.mode = run.mode
  BY DEF RunShape
<1>3. StoreEarned'
  BY StoreEarnedStep DEF EarnedInv
<1>4. HandEarned'
  BY <1>1, <1>2 DEF EarnedInv, HandEarned
<1>5. DataEarned'
  BY <1>1, <1>2, DataEarnedKept DEF EarnedInv
<1> QED
  BY <1>1, <1>3, <1>4, <1>5 DEF EarnedInv, SucceededIsComplete

LEMMA EarnedInit == Init => EarnedInv
<1>1. SUFFICES ASSUME Init PROVE EarnedInv
  OBVIOUS
<1>2. run.pc = "idle" /\ DOMAIN data = DataKeys
  BY <1>1 DEF Init, Run, EmptyState, DataKeys
<1>3. /\ cache = [s \in Steps |-> {}] /\ legacy = [s \in Steps |-> NoExec]
      /\ rows = [s \in Steps |-> [n \in Runs |-> NoRow]]
  BY <1>1 DEF Init, Runs
<1>4. NoRow.exec = NoExec /\ NoRow.status # "succeeded"
  BY DEF NoRow, Row
<1>5. StoreEarned
  BY <1>3, <1>4, NothingEarned DEF StoreEarned, RowEarned
<1> QED
  BY <1>2, <1>5 DEF EarnedInv, HandEarned, DataEarned, SucceededIsComplete, Ended

LEMMA EarnedStart ==
  ASSUME EarnedInv, LedgerInv, NEW c \in Callers, NEW m \in Modes, NEW p \in Policies,
         Start(c, m, p)
  PROVE  EarnedInv'
<1>1. /\ run'.pc = "begin" /\ UNCHANGED <<job, rows, cache, legacy>>
      /\ data' = EmptyState(p, run.n + 1) /\ steps' = [s \in Steps |-> "none"]
  BY DEF Start, Run
<1>2. StoreEarned'
  BY <1>1, StoreEarnedStep DEF EarnedInv
<1>3. DOMAIN data' = DataKeys /\ data'["policy"] # 0
  BY <1>1, InputsAssumption DEF EmptyState, DataKeys
<1>4. StepsList' = StepsList
  BY <1>1 DEF StepsList
<1>5. /\ \A i \in 1..Len(StepsList') : steps'[StepsList'[i]] = "none"
      /\ \A s \in Listed' : steps'[s] \notin Passed
  BY <1>1, <1>4, StepsListFacts DEF Listed, Passed
<1>6. DataEarned'
  BY <1>3, <1>5 DEF DataEarned
<1> QED
  BY <1>1, <1>2, <1>6 DEF EarnedInv, HandEarned, SucceededIsComplete

LEMMA EarnedBegin ==
  ASSUME EarnedInv, LedgerInv, Begin
  PROVE  EarnedInv'
<1>1. /\ run.pc = "begin" /\ UNCHANGED <<job, cache, legacy, data, steps, degr>>
      /\ SetRow(Row("running", Key, NoExec))
      /\ Step \in Steps /\ run.n \in Runs /\ RowsShape /\ RunShape
  BY StepIsOne DEF Begin, local, LedgerInv, RunShape
<1>2. /\ run'.pc = IF Lookup = NoExec THEN "try" ELSE "finish"
      /\ run'.idx = run.idx /\ run'.exec = Lookup /\ run'.mode = run.mode
  BY <1>1 DEF Begin, RunShape
<1>3. Step' = Step
  BY <1>1, <1>2 DEF Step, StepsList
<1>4. StoreEarned'
  <2>1. RowEarned(Step, Row("running", Key, NoExec))
    BY NothingEarned DEF Row, RowEarned
  <2> QED
    BY <1>1, <2>1, StoreEarnedRow DEF EarnedInv
<1>5. Earned(Step, Lookup) /\ (Undegraded(Lookup) => Whole(Step, Lookup.updates))
  BY <1>1, EarnedLookup DEF EarnedInv
<1>6. HandEarned'
  BY <1>2, <1>3, <1>5 DEF HandEarned
<1>7. DataEarned'
  BY <1>1, <1>2, DataEarnedKept DEF EarnedInv, Ended
<1> QED
  BY <1>2, <1>4, <1>6, <1>7 DEF EarnedInv, SucceededIsComplete

LEMMA EarnedTry ==
  ASSUME EarnedInv, LedgerInv, Try
  PROVE  EarnedInv'
<1>1. /\ run.pc = "try" /\ UNCHANGED <<job, rows, cache, legacy, data, steps, degr>>
      /\ Step \in Steps /\ run.n \in Runs /\ RunShape
  BY StepIsOne DEF Try, store, LedgerInv, RunShape
<1>2. PICK o \in Outcomes :
        \/ run' = [run EXCEPT !.pc = "sleep", !.failed = FailedAttempts]
        \/ run' = [run EXCEPT !.pc = "finish", !.exec = o]
  BY DEF Try
<1>3. StoreEarned'
  BY <1>1, StoreEarnedStep DEF EarnedInv
<1>4. /\ Earned(Step, o)
      /\ Undegraded(o) /\ ~Spared(Step, run.mode) => Whole(Step, o.updates)
  BY <1>1, EarnedOutcomes DEF EarnedInv, DataEarned
<1>5. CASE run' = [run EXCEPT !.pc = "sleep", !.failed = FailedAttempts]
  <2>1. run'.pc = "sleep" /\ run'.idx = run.idx /\ run'.mode = run.mode
    BY <1>1, <1>5 DEF RunShape
  <2>2. DataEarned'
    BY <1>1, <2>1, DataEarnedKept DEF EarnedInv, Ended
  <2> QED
    BY <1>3, <2>1, <2>2 DEF EarnedInv, HandEarned, SucceededIsComplete
<1>6. CASE run' = [run EXCEPT !.pc = "finish", !.exec = o]
  <2>1. run'.pc = "finish" /\ run'.idx = run.idx /\ run'.mode = run.mode /\ run'.exec = o
    BY <1>1, <1>6 DEF RunShape
  <2>2. DataEarned'
    BY <1>1, <2>1, DataEarnedKept DEF EarnedInv, Ended
  <2>3. Step' = Step
    BY <1>1, <2>1 DEF Step, StepsList
  <2>4. HandEarned'
    BY <1>4, <2>1, <2>3 DEF HandEarned
  <2> QED
    BY <1>3, <2>1, <2>2, <2>4 DEF EarnedInv, SucceededIsComplete
<1> QED
  BY <1>2, <1>5, <1>6

LEMMA EarnedFinish ==
  ASSUME EarnedInv, LedgerInv, Finish
  PROVE  EarnedInv'
<1> DEFINE row == Row(run.exec.status, run.key, run.exec)
           upd == run.exec.updates
<1>1. /\ run.pc = "finish" /\ UNCHANGED <<job, cache, legacy, steps, degr>>
      /\ SetRow(row) /\ data' = Updated(upd)
      /\ Step \in Steps /\ run.n \in Runs /\ RunShape /\ RowsShape
  BY StepIsOne DEF Finish, workspace, LedgerInv, RunShape
<1>2. /\ run'.pc \in {"write", "checkpoint"}
      /\ run'.idx = run.idx /\ run'.exec = run.exec /\ run'.mode = run.mode
  BY <1>1 DEF Finish, Goto, RunShape
<1>3. StepsList' = StepsList /\ Step' = Step /\ Listed' = Listed
  BY <1>1, <1>2 DEF StepsList, Step, Listed
<1>4. /\ Earned(Step, run.exec) /\ DOMAIN upd \subseteq ProductsOf(Step)
      /\ Undegraded(run.exec) /\ ~Spared(Step, run.mode) => Whole(Step, upd)
      /\ DOMAIN data = DataKeys
  BY <1>1 DEF EarnedInv, HandEarned, DataEarned, Earned
<1>5. StoreEarned'
  <2>1. RowEarned(Step, row)
    BY <1>4 DEF Row, RowEarned
  <2> QED
    BY <1>1, <2>1, StoreEarnedRow DEF EarnedInv
<1>6. HandEarned'
  <2>1. Undegraded(run.exec) /\ ~Spared(Step, run.mode) => InFull(Step, data')
    BY <1>1, <1>4, UpdatedGives
  <2> QED
    BY <1>2, <1>3, <1>4, <2>1 DEF HandEarned
<1>7. DataEarned'
  <2>1. DOMAIN data' = DataKeys
    BY <1>1, <1>4, UpdatedFacts
  <2>2. data'["policy"] # 0
    <3>1. data["policy"] # 0
      BY <1>1 DEF EarnedInv, DataEarned
    <3>2. "policy" \notin DOMAIN upd /\ "policy" \in DOMAIN data
      BY <1>1, <1>4, StepNames DEF ProductsOf, DataKeys
    <3> QED
      BY <1>1, <3>1, <3>2, UpdatedFacts
  <2>3. \A i \in 1..Len(StepsList) : run.idx <= i => steps[StepsList[i]] = "none"
    BY <1>1 DEF EarnedInv, DataEarned, Ended
  <2>4. steps[Step] = "none" /\ Step \in Listed
    BY <1>1, <2>3, StepsListFacts DEF RunShape, Step, Listed
  <2>5. ASSUME NEW s \in Listed, steps[s] \in Passed, s \notin degr, ~Spared(s, run.mode)
        PROVE  InFull(s, data')
    <3>1. s # Step
      BY <2>4, <2>5 DEF Passed
    <3>2. InFull(s, data)
      BY <1>1, <2>5 DEF EarnedInv, DataEarned
    <3> QED
      BY <1>1, <1>4, <2>4, <3>1, <3>2, UpdatedLeaves
  <2> QED
    BY <1>1, <1>2, <1>3, <2>1, <2>2, <2>3, <2>5 DEF DataEarned
<1> QED
  BY <1>2, <1>5, <1>6, <1>7 DEF EarnedInv, SucceededIsComplete

LEMMA EarnedWrite ==
  ASSUME EarnedInv, LedgerInv, DigestInv, VerdictInv, Write
  PROVE  EarnedInv'
<1>1. /\ run.pc = "write" /\ UNCHANGED <<job, rows, data>>
      /\ degr' = (IF Degrades THEN degr \union {Step} ELSE degr)
      /\ Step \in Steps /\ RunShape /\ run.idx \in 1..Len(StepsList)
  BY StepIsOne DEF Write, store, LedgerInv, RunShape
<1>2. /\ cache = [s \in Steps |-> cache[s]] /\ legacy = [s \in Steps |-> legacy[s]]
      /\ Earned(Step, run.exec) /\ run.exec.status \in Statuses
      /\ Undegraded(run.exec) /\ ~Spared(Step, run.mode) => InFull(Step, data)
      /\ steps \in [Steps -> Statuses \union {"none"}]
  BY <1>1 DEF DigestInv, Stored, EarnedInv, HandEarned, LedgerInv, HasExec, VerdictInv, VerdictType
<1>3. StoreEarned'
  <2>1. CASE UNCHANGED <<cache, legacy>>
    BY <1>1, <2>1, StoreEarnedStep DEF EarnedInv
  <2>2. CASE ~UNCHANGED <<cache, legacy>>
    <3>1. /\ cache' = [cache EXCEPT ![Step] = Others \union {File(run.exec)}]
          /\ legacy' = [legacy EXCEPT ![Step] = run.exec]
      BY <2>2 DEF Write
    <3> QED
      BY <1>1, <1>2, <3>1, StoreEarnedFiles DEF EarnedInv
  <2> QED
    BY <2>1, <2>2
<1>4. StepsList' = StepsList /\ Listed' = Listed
  BY <1>1 DEF StepsList, Listed
<1>5. CASE run' = [run EXCEPT !.pc = "raised"] /\ steps' = steps
  <2>1. run'.pc = "raised" /\ run'.mode = run.mode
    BY <1>1, <1>5 DEF RunShape
  <2>2. DataEarned'
    BY <1>1, <1>5, <2>1, DataEarnedKept DEF EarnedInv, Ended
  <2> QED
    BY <1>3, <2>1, <2>2 DEF EarnedInv, HandEarned, SucceededIsComplete
<1>6. CASE /\ steps' = [steps EXCEPT ![Step] = run.exec.status]
           /\ \/ run' = [run EXCEPT !.pc = "resolve"]
              \/ run' = [run EXCEPT !.pc = "begin", !.idx = run.idx + 1]
  <2>1. /\ steps'[Step] = run.exec.status
        /\ \A s \in Steps : s # Step => steps'[s] = steps[s]
    BY <1>1, <1>2, <1>6
  <2>2. /\ run'.pc \in {"resolve", "begin"} /\ run'.mode = run.mode
        /\ run'.pc = "begin" => run'.idx = run.idx + 1
    <3>1. CASE run' = [run EXCEPT !.pc = "resolve"]
      BY <1>1, <3>1 DEF RunShape
    <3>2. CASE run' = [run EXCEPT !.pc = "begin", !.idx = run.idx + 1]
      BY <1>1, <3>2 DEF RunShape
    <3> QED
      BY <1>6, <3>1, <3>2
  <2>3. ASSUME NEW s \in Listed, steps'[s] \in Passed, s \notin degr', ~Spared(s, run.mode)
        PROVE  InFull(s, data)
    <3>1. CASE s = Step
      <4>1. run.exec.status \in Passed /\ ~Degrades
        BY <1>1, <2>1, <2>3, <3>1
      <4>2. Undegraded(run.exec)
        BY <4>1 DEF Degrades, Undegraded
      <4> QED
        BY <1>2, <2>3, <3>1, <4>2
    <3>2. CASE s # Step
      <4>1. s \in Steps
        BY StepsListFacts DEF Listed
      <4>2. steps[s] \in Passed /\ s \notin degr
        BY <1>1, <2>1, <2>3, <3>2, <4>1
      <4> QED
        BY <1>1, <2>3, <4>2 DEF EarnedInv, DataEarned
    <3> QED
      BY <3>1, <3>2
  <2>4. ASSUME run'.pc = "begin", NEW i \in 1..Len(StepsList), run'.idx <= i
        PROVE  steps'[StepsList[i]] = "none"
    <3>1. run.idx < i
      BY <1>1, <2>2, <2>4, StepsListFacts
    <3>2. steps[StepsList[i]] = "none"
      BY <1>1, <3>1, StepsListFacts DEF EarnedInv, DataEarned, Ended
    <3>3. StepsList[i] # Step /\ StepsList[i] \in Steps
      BY <1>1, <3>1, StepsListFacts DEF Step
    <3> QED
      BY <2>1, <3>2, <3>3
  <2>5. DOMAIN data' = DataKeys /\ data'["policy"] # 0
    BY <1>1 DEF EarnedInv, DataEarned
  <2>6. DataEarned'
    BY <1>1, <1>4, <2>2, <2>3, <2>4, <2>5 DEF DataEarned, Ended
  <2> QED
    BY <1>3, <2>2, <2>6 DEF EarnedInv, HandEarned, SucceededIsComplete
<1> QED
  BY <1>1, <1>5, <1>6, WriteGoes

\* A verdict of succeeded: every step passed, and none was degraded.
LEMMA EarnedReturn ==
  ASSUME EarnedInv, LedgerInv, VerdictInv, Return
  PROVE  EarnedInv'
<1>1. /\ run.pc = "resolve" /\ UNCHANGED <<job, rows, cache, legacy, data, steps, degr>>
      /\ run' = [run EXCEPT !.pc = "returned"] /\ RunShape
      /\ result'.final = resolve_pipeline_status
  BY DEF Return, Goto, store, workspace, VerdictInv, VerdictType, LedgerInv
<1>2. run'.pc = "returned" /\ run'.mode = run.mode
  BY <1>1 DEF RunShape
<1>3. StoreEarned'
  BY <1>1, StoreEarnedStep DEF EarnedInv
<1>4. DataEarned'
  BY <1>1, <1>2, DataEarnedKept DEF EarnedInv, Ended
<1>5. ASSUME resolve_pipeline_status = "succeeded"
      PROVE  \A s \in Listed : ~Spared(s, run.mode) => InFull(s, data)
  <2>1. /\ degr = {} /\ \A s \in LlmSteps : steps[s] # "failed"
        /\ \A s \in Gone : steps[s] = "failed" => s \in LlmSteps
    BY <1>5 DEF resolve_pipeline_status
  <2>2. ~HardFailed
    BY <2>1 DEF HardFailed
  <2>3. \A s \in Listed : s \in Steps /\ steps[s] \in Statuses
    <3>1. \A s \in Listed : steps[s] \in Statuses
      BY <1>1, <2>2 DEF VerdictInv, AtVerdict
    <3> QED
      BY <3>1, StepsListFacts DEF Listed
  <2>4. \A s \in Listed : steps[s] \in Passed
    BY <2>1, <2>3 DEF Gone, Statuses, Passed
  <2> QED
    BY <1>1, <2>1, <2>4 DEF EarnedInv, DataEarned
<1>6. SucceededIsComplete'
  <2>1. SUFFICES ASSUME resolve_pipeline_status = "succeeded"
                 PROVE  /\ data.meta.kind = "full"
                        /\ data.outline # 0 /\ data.digest # 0
                        /\ job.content = "article" \/ data.comments.kind = "some"
                        /\ run.mode # "text_only" \/ job.content = "article" =>
                               /\ data.text = "full"
                               /\ job.content = "video" => data.media /\ data.frames # 0
    BY <1>1, <1>2 DEF SucceededIsComplete
  <2>2. \A s \in Listed : ~Spared(s, run.mode) => InFull(s, data)
    BY <1>5, <2>1
  <2>3. "llm_outline" \in Listed /\ "llm_digest" \in Listed
    BY StepsListEnds DEF LlmSteps
  <2>4. \A s : Spared(s, run.mode) =>
            /\ run.mode = "text_only"
            /\ s \in {"download_media", "collect_subtitles", "extract_frames"}
    BY DEF Spared, PIPELINE_MODE_SKIP_STEPS
  <2>5. data["outline"] # 0 /\ data["digest"] # 0
    BY <2>2, <2>3, <2>4 DEF InFull
  <2>6. CASE job.content = "article"
    <3>1. "fetch_article_content" \in Listed
      <4>1. StepsList = <<"fetch_article_content", "llm_outline", "llm_digest",
                          "build_embeddings", "write_artifacts">>
        BY <2>6 DEF StepsList, ARTICLE_PIPELINE_STEPS
      <4>2. StepsList[1] = "fetch_article_content" /\ 1 \in 1..Len(StepsList)
        BY <4>1
      <4> QED
        BY <4>2 DEF Listed
    <3>2. data["meta"].kind = "full" /\ data["text"] = "full"
      BY <2>2, <2>4, <3>1 DEF InFull
    <3> QED
      BY <2>5, <2>6, <3>2
  <2>7. CASE job.content # "article"
    <3>1. {"fetch_metadata", "download_media", "collect_subtitles", "collect_comments",
           "extract_frames"} \subseteq Listed
      <4>1. StepsList =
              <<"fetch_metadata", "download_media", "collect_subtitles", "collect_comments",
                "extract_frames", "llm_outline", "llm_digest", "build_embeddings",
                "write_artifacts">>
        BY <2>7 DEF StepsList, PIPELINE_STEPS
      <4>2. /\ StepsList[1] = "fetch_metadata" /\ StepsList[2] = "download_media"
            /\ StepsList[3] = "collect_subtitles" /\ StepsList[4] = "collect_comments"
            /\ StepsList[5] = "extract_frames" /\ 1..5 \subseteq 1..Len(StepsList)
        BY <4>1
      <4> QED
        BY <4>2 DEF Listed
    <3>2. data["meta"].kind = "full" /\ data["comments"].kind = "some"
      BY <2>2, <2>4, <3>1 DEF InFull
    <3>3. run.mode # "text_only" => data["text"] = "full" /\ data["media"] /\ data["frames"] # 0
      BY <2>2, <2>4, <3>1 DEF InFull
    <3> QED
      BY <2>5, <2>7, <3>2, <3>3
  <2> QED
    BY <2>6, <2>7
<1> QED
  BY <1>2, <1>3, <1>4, <1>6 DEF EarnedInv, HandEarned

LEMMA EarnedCancel ==
  ASSUME EarnedInv, LedgerInv, VerdictInv, Cancel
  PROVE  EarnedInv'
<1>1. /\ UNCHANGED <<job, cache, legacy, data>> /\ SetRow(CancelRow)
      /\ steps' = [steps EXCEPT ![Step] = "failed"] /\ degr \subseteq degr'
      /\ Step \in Steps /\ run.pc \in {"try", "sleep"} /\ RunShape /\ RowsShape
      /\ run' = [run EXCEPT !.pc = "cancelled"]
      /\ steps \in [Steps -> Statuses \union {"none"}]
  BY StepIsOne DEF Cancel, workspace, Goto, LedgerInv, VerdictInv, VerdictType
<1>2. run.n \in Runs /\ run'.pc = "cancelled" /\ run'.mode = run.mode
  BY <1>1 DEF RunShape
<1>3. RowEarned(Step, CancelRow)
  BY NothingEarned DEF CancelRow, Row, RowEarned
<1>4. StoreEarned'
  BY <1>1, <1>2, <1>3, StoreEarnedRow DEF EarnedInv
<1>5. StepsList' = StepsList /\ Listed' = Listed
  BY <1>1 DEF StepsList, Listed
<1>6. ASSUME NEW s \in Listed, steps'[s] \in Passed, s \notin degr', ~Spared(s, run.mode)
      PROVE  InFull(s, data)
  <2>1. s \in Steps /\ s # Step
    BY <1>1, <1>6, StepsListFacts DEF Listed, Passed
  <2>2. steps[s] \in Passed /\ s \notin degr
    BY <1>1, <1>6, <2>1
  <2> QED
    BY <1>1, <1>6, <2>2 DEF EarnedInv, DataEarned
<1>7. DOMAIN data' = DataKeys /\ data'["policy"] # 0
  BY <1>1 DEF EarnedInv, DataEarned
<1>8. DataEarned'
  BY <1>1, <1>2, <1>5, <1>6, <1>7 DEF DataEarned, Ended
<1> QED
  BY <1>2, <1>4, <1>8 DEF EarnedInv, HandEarned, SucceededIsComplete

LEMMA EarnedCrash ==
  ASSUME EarnedInv, LedgerInv, DigestInv, Crash
  PROVE  EarnedInv'
<1>1. /\ UNCHANGED <<job, rows, data, steps, degr>> /\ Step \in Steps /\ RunShape
      /\ run' = [run EXCEPT !.pc = "dead"] /\ (Torn \/ UNCHANGED <<cache, legacy>>)
      /\ run.pc # "idle"
  BY StepIsOne DEF Crash, store, local, Goto, LedgerInv, Ended
<1>2. run'.pc = "dead" /\ run'.mode = run.mode
  BY <1>1 DEF RunShape
<1>3. StoreEarned'
  <2>1. CASE UNCHANGED <<cache, legacy>>
    BY <1>1, <2>1, StoreEarnedStep DEF EarnedInv
  <2>2. CASE Torn
    <3>1. /\ run.pc = "write"
          /\ \/ /\ cache' = [cache EXCEPT ![Step] = Others \union {File(NoExec)}]
                /\ legacy' = legacy
             \/ /\ cache' = [cache EXCEPT ![Step] = Others \union {File(run.exec)}]
                /\ \/ legacy' = legacy
                   \/ legacy' = [legacy EXCEPT ![Step] = NoExec]
      BY <2>2 DEF Torn
    <3>2. /\ cache = [s \in Steps |-> cache[s]] /\ legacy = [s \in Steps |-> legacy[s]]
          /\ Earned(Step, run.exec)
      BY <3>1 DEF DigestInv, Stored, EarnedInv, HandEarned
    <3>3. CASE cache' = [cache EXCEPT ![Step] = Others \union {File(NoExec)}]
      BY <1>1, <3>1, <3>2, <3>3, StoreEarnedFiles DEF EarnedInv
    <3>4. CASE cache' = [cache EXCEPT ![Step] = Others \union {File(run.exec)}]
      BY <1>1, <3>1, <3>2, <3>4, StoreEarnedFiles DEF EarnedInv
    <3> QED
      BY <3>1, <3>3, <3>4
  <2> QED
    BY <1>1, <2>1, <2>2
<1>4. DataEarned'
  BY <1>1, <1>2, DataEarnedKept DEF EarnedInv, Ended
<1> QED
  BY <1>2, <1>3, <1>4 DEF EarnedInv, HandEarned, SucceededIsComplete

LEMMA EarnedStep ==
  EarnedInv /\ DigestInv /\ VerdictInv /\ LedgerInv /\ [Next]_vars => EarnedInv'
<1>1. SUFFICES ASSUME EarnedInv, DigestInv, VerdictInv, LedgerInv, [Next]_vars PROVE EarnedInv'
  OBVIOUS
<1>2. ASSUME NEW c \in Callers, NEW m \in Modes, NEW p \in Policies, Start(c, m, p)
      PROVE  EarnedInv'
  BY <1>1, <1>2, EarnedStart
<1>3. RunShape
  BY <1>1 DEF LedgerInv
<1>4. CASE Begin
  BY <1>1, <1>4, EarnedBegin
<1>5. CASE Try
  BY <1>1, <1>5, EarnedTry
<1>6. CASE Sleep
  <2>1. /\ run.pc = "sleep" /\ UNCHANGED <<job, rows, cache, legacy, data, steps, degr>>
        /\ run' = [run EXCEPT !.pc = "try"]
    BY <1>6 DEF Sleep, Goto, store, workspace, local
  <2> QED
    BY <1>1, <1>3, <2>1, EarnedMoves DEF Places, Ended
<1>7. CASE Finish
  BY <1>1, <1>7, EarnedFinish
<1>8. CASE Checkpoint
  <2>1. /\ run.pc = "checkpoint" /\ UNCHANGED <<job, rows, cache, legacy, data, steps, degr>>
        /\ run' = [run EXCEPT !.pc = "write"]
    BY <1>8 DEF Checkpoint, Goto, workspace, local
  <2> QED
    BY <1>1, <1>3, <2>1, EarnedMoves DEF Places, Ended
<1>9. CASE Write
  BY <1>1, <1>9, EarnedWrite
<1>10. CASE Return
  BY <1>1, <1>10, EarnedReturn
<1>11. CASE Cancel
  BY <1>1, <1>11, EarnedCancel
<1>12. CASE Crash
  BY <1>1, <1>12, EarnedCrash
<1>13. CASE Cleanup \/ UNCHANGED vars
  <2>1. UNCHANGED <<job, run, rows, cache, legacy, data, steps, degr, result>>
    BY <1>13 DEF Cleanup, vars, store, workspace, local
  <2>2. StepsList' = StepsList
    BY <2>1 DEF StepsList
  <2>3. Step' = Step /\ Listed' = Listed
    BY <2>1, <2>2 DEF Step, Listed
  <2>4. StoreEarned' /\ HandEarned'
    BY <1>1, <2>1, <2>3 DEF EarnedInv, StoreEarned, HandEarned
  <2>5. DataEarned' /\ SucceededIsComplete'
    BY <1>1, <2>1, <2>2, <2>3 DEF EarnedInv, DataEarned, SucceededIsComplete
  <2> QED
    BY <2>4, <2>5 DEF EarnedInv
<1> QED
  BY <1>1, <1>2, <1>4, <1>5, <1>6, <1>7, <1>8, <1>9, <1>10, <1>11, <1>12, <1>13
     DEF Next, Advance

(***************************************************************************)
(* A run that reports succeeded has everything its mode did not spare it,  *)
(* in full, whatever it took from the caches and the ledger of runs that   *)
(* had degraded, failed, crashed or been cancelled.                        *)
(***************************************************************************)
THEOREM SucceededHasAll == Spec => []SucceededIsComplete
<1>1. EarnedInv => SucceededIsComplete
  BY DEF EarnedInv
<1> QED
  BY <1>1, EarnedInit, EarnedStep, DigestInit, DigestStep, VerdictInit, VerdictStep, LedgerAlways,
     PTL DEF Spec

=============================================================================
