--------------------------- MODULE Polling_proofs ---------------------------
(***************************************************************************)
(* Theorems about Polling for any keys, polls, workers and faults.         *)
(***************************************************************************)
EXTENDS Polling, TLAPS

-----------------------------------------------------------------------------
(***************************************************************************)
(* Type correctness.                                                       *)
(***************************************************************************)
LEMMA BlankType ==
  ASSUME NEW pc \in ScanPcs
  PROVE  Blank(pc) \in ScanStates
  BY DEF Blank, Scan, ScanStates, Locks

LEMMA PollIsState ==
  ASSUME NEW pc \in {"idle", "polling", "dispatching", "done", "failed"},
         NEW n \in {1, 2}, NEW queue \in SUBSET Keys, NEW child \in SUBSET Keys
  PROVE  Poll(pc, n, queue, child) \in PollStates
  BY DEF Poll, PollStates

\* What the steps of a scan have in common.
LEMMA ScanParts ==
  ASSUME TypeOK, NEW p \in Polls, NEW n \in {1, 2}
  PROVE  /\ <<p, n>> \in Attempts
         /\ Leave(p, n) => scan' \in [Attempts -> ScanStates]
         /\ Schedule(p, n) => scan' \in [Attempts -> ScanStates]
         /\ ReleaseLock(p, n) =>
              fallback' \in [owner : Workers \union {"nobody"}, expired : BOOLEAN]
         /\ \A S \in SUBSET Keys :
              Report(p, n, S) => poll' \in [Polls -> PollStates]
         /\ \A S \in SUBSET Keys, lock \in Locks :
              Enter(p, n, lock, S) => scan' \in [Attempts -> ScanStates]
<1>1. <<p, n>> \in Attempts
  BY DEF Attempts
<1>2. Leave(p, n) => scan' \in [Attempts -> ScanStates]
  BY <1>1, BlankType DEF Leave, TypeOK, ScanPcs
<1>3. Schedule(p, n) => scan' \in [Attempts -> ScanStates]
  BY <1>1, BlankType DEF Schedule, TypeOK, ScanPcs
<1>4. ReleaseLock(p, n) =>
         fallback' \in [owner : Workers \union {"nobody"}, expired : BOOLEAN]
  BY DEF ReleaseLock, NoLock, TypeOK
<1>5. ASSUME NEW S \in SUBSET Keys, Report(p, n, S)
      PROVE  poll' \in [Polls -> PollStates]
  BY <1>5 DEF Report, TypeOK, PollStates, Poll
<1>6. ASSUME NEW S \in SUBSET Keys, NEW lock \in Locks, Enter(p, n, lock, S)
      PROVE  scan' \in [Attempts -> ScanStates]
  <2>1. Scan("scanning", S, {}, {}, lock) \in ScanStates
    BY DEF Scan, ScanStates, ScanPcs
  <2> QED
    BY <1>1, <1>6, <2>1 DEF Enter, TypeOK
<1> QED
  BY <1>1, <1>2, <1>3, <1>4, <1>5, <1>6

LEMMA ScanType ==
  ASSUME TypeOK, NEW p \in Polls, NEW n \in {1, 2},
         ScanStep(p, n) \/ ScanFails(p, n) \/ WorkerCrashes(p, n)
  PROVE  TypeOK'
<1>0. <<p, n>> \in Attempts /\ scan[<<p, n>>] \in ScanStates
  BY ScanParts DEF TypeOK
<1>1. CASE TakeAdvisoryLock(p, n)
  BY <1>1, ScanParts DEF TakeAdvisoryLock, TypeOK, jobVars, Locks
<1>2. ASSUME NEW w \in Workers, TakeFallbackLock(p, n, w)
      PROVE  TypeOK'
  BY <1>2, ScanParts DEF TakeFallbackLock, TypeOK, jobVars, Locks
<1>3. CASE SkipPoll(p, n)
  BY <1>3, ScanParts DEF SkipPoll, TypeOK, jobVars
<1>4. ASSUME NEW k \in Keys, FindActiveJob(p, n, k)
      PROVE  TypeOK'
  <2>1. scan' \in [Attempts -> ScanStates]
    BY <1>0, <1>4 DEF FindActiveJob, TypeOK, Scan, ScanStates, ScanPcs
  <2> QED
    BY <1>4, <2>1 DEF FindActiveJob, TypeOK, jobVars
<1>5. ASSUME NEW k \in Keys, CreateQueuedJob(p, n, k)
      PROVE  TypeOK'
  <2>1. scan' \in [Attempts -> ScanStates]
    BY <1>0, <1>5 DEF CreateQueuedJob, TypeOK, Scan, ScanStates, ScanPcs
  <2>2. row' \in [Keys -> Statuses]
    BY <1>5 DEF CreateQueuedJob, TypeOK, Statuses
  <2> QED
    BY <1>5, <2>1, <2>2 DEF CreateQueuedJob, TypeOK
<1>6. CASE FinishScan(p, n)
  <2>1. scan[<<p, n>>].created \in SUBSET Keys
    BY <1>0 DEF ScanStates
  <2> QED
    BY <1>6, <2>1, ScanParts DEF FinishScan, TypeOK, jobVars
<1>7. CASE ScanFails(p, n)
  BY <1>7, ScanParts DEF ScanFails, TypeOK, jobVars
<1>8. CASE WorkerCrashes(p, n)
  BY <1>8, ScanParts DEF WorkerCrashes, TypeOK, jobVars
<1> QED
  BY <1>1, <1>2, <1>3, <1>4, <1>5, <1>6, <1>7, <1>8 DEF ScanStep

LEMMA PollType ==
  ASSUME TypeOK, NEW p \in Polls, StartPoll(p) \/ PollStep(p)
  PROVE  TypeOK'
<1>0. /\ poll \in [Polls -> PollStates] /\ poll[p].attempt \in {1, 2}
      /\ poll[p].queue \in SUBSET Keys /\ 1 \in {1, 2} /\ 2 \in {1, 2}
  BY DEF TypeOK, PollStates
<1>1. CASE StartPoll(p)
  <2>1. poll' \in [Polls -> PollStates]
    BY <1>0, <1>1, PollIsState DEF StartPoll
  <2>2. scan' \in [Attempts -> ScanStates]
    BY <1>1, ScanParts DEF StartPoll
  <2> QED
    BY <1>1, <2>1, <2>2 DEF StartPoll, TypeOK, jobVars
<1>2. CASE AttemptFails(p)
  <2>1. poll' \in [Polls -> PollStates]
    BY <1>0, <1>2, PollIsState DEF AttemptFails
  <2>2. scan' \in [Attempts -> ScanStates]
    BY <1>2, ScanParts DEF AttemptFails, TypeOK
  <2> QED
    BY <1>2, <2>1, <2>2 DEF AttemptFails, TypeOK, jobVars
<1>3. CASE PollEnds(p)
  <2>1. poll' \in [Polls -> PollStates]
    BY <1>0, <1>3, PollIsState DEF PollEnds
  <2> QED
    BY <1>3, <2>1 DEF PollEnds, TypeOK, jobVars
<1>4. ASSUME NEW k \in Keys, StartChild(p, k)
      PROVE  TypeOK'
  <2>1. poll' \in [Polls -> PollStates]
    BY <1>0, <1>4, PollIsState DEF StartChild
  <2>2. wf' \in [Starters \X Keys -> WfStages]
    BY <1>4 DEF StartChild, TypeOK, WfStages
  <2> QED
    BY <1>4, <2>1, <2>2 DEF StartChild, TypeOK
<1>5. ASSUME NEW k \in Keys, ChildEnds(p, k)
      PROVE  TypeOK'
  <2>1. poll' \in [Polls -> PollStates]
    BY <1>0, <1>5, PollIsState DEF ChildEnds
  <2> QED
    BY <1>5, <2>1 DEF ChildEnds, TypeOK, jobVars
<1> QED
  BY <1>1, <1>2, <1>3, <1>4, <1>5 DEF PollStep

\* What a write of the row, a refusal, and a new workflow do.
LEMMA WriteType ==
  ASSUME TypeOK, NEW x \in Starters \X Keys, NEW s \in Statuses, NEW t \in WfStages,
         Write(x, s, t) \/ Refused(x)
  PROVE  /\ row' \in [Keys -> Statuses]
         /\ stale' \subseteq Keys
         /\ wf' \in [Starters \X Keys -> WfStages]
<1>1. x[2] \in Keys /\ "raised" \in WfStages
  BY DEF WfStages
<1> QED
  BY <1>1 DEF Write, Refused, TypeOK

LEMMA WorkflowType ==
  ASSUME TypeOK, NEW x \in Starters \X Keys, WorkflowStep(x)
  PROVE  TypeOK'
<1>1. {"running", "succeeded", "failed"} \subseteq Statuses
      /\ {"pipeline", "mark_end", "returned"} \subseteq WfStages /\ x[2] \in Keys
  BY DEF Statuses, WfStages
<1>2. CASE MarkRunning(x)
  <2>1. Write(x, "running", "pipeline") \/ Refused(x)
    BY <1>2 DEF MarkRunning
  <2> QED
    BY <1>1, <1>2, <2>1, WriteType DEF MarkRunning, TypeOK
<1>3. CASE RunPipeline(x)
  BY <1>1, <1>3 DEF RunPipeline, TypeOK
<1>4. CASE MarkEnd(x)
  <2>1. PICK s \in Statuses : Write(x, s, "returned") \/ Refused(x)
    BY <1>1, <1>4 DEF MarkEnd
  <2> QED
    BY <1>1, <1>4, <2>1, WriteType DEF MarkEnd, TypeOK
<1> QED
  BY <1>2, <1>3, <1>4 DEF WorkflowStep

LEMMA OutsideType ==
  ASSUME TypeOK, NEW k \in Keys,
         StartProcessWorkflow(k) \/ BecomeStale(k) \/ FailStaleQueuedJob(k)
  PROVE  TypeOK'
<1>1. CASE StartProcessWorkflow(k)
  <2>1. wf' \in [Starters \X Keys -> WfStages]
    BY <1>1 DEF StartProcessWorkflow, TypeOK, WfStages
  <2> QED
    BY <1>1, <2>1 DEF StartProcessWorkflow, TypeOK
<1>2. CASE BecomeStale(k)
  BY <1>2 DEF BecomeStale, TypeOK
<1>3. CASE FailStaleQueuedJob(k)
  BY <1>3 DEF FailStaleQueuedJob, TypeOK, Statuses
<1> QED
  BY <1>1, <1>2, <1>3

LEMMA TypeInit == Init => TypeOK
<1> SUFFICES ASSUME Init PROVE TypeOK
  OBVIOUS
<1>1. scan \in [Attempts -> ScanStates]
  BY BlankType DEF Init, ScanPcs
<1>2. poll \in [Polls -> PollStates]
  BY DEF Init, Poll, PollStates
<1> QED
  BY <1>1, <1>2 DEF Init, TypeOK, Statuses, WfStages, NoLock

LEMMA TypeStep == TypeOK /\ [Next]_vars => TypeOK'
<1> SUFFICES ASSUME TypeOK, [Next]_vars
             PROVE  TypeOK'
  OBVIOUS
<1>1. CASE FallbackExpires
  BY <1>1 DEF FallbackExpires, TypeOK, jobVars
<1>2. CASE UNCHANGED vars
  BY <1>2 DEF vars, TypeOK
<1> QED
  BY <1>1, <1>2, ScanType, PollType, WorkflowType, OutsideType DEF Next

\* Every variable keeps its type.
THEOREM TypeCorrect == Spec => []TypeOK
  BY TypeInit, TypeStep, PTL DEF Spec

-----------------------------------------------------------------------------
(***************************************************************************)
(* A job is at one poll.                                                   *)
(***************************************************************************)
\* Who is at a job has seen its row created, and no statement deletes rows.
HandedIsCreated == \A p \in Polls, k \in Keys : InHands(p, k) => row[k] # "absent"

HandsInv == OneDispatcher /\ HandedIsCreated

\* Rows are not deleted, and nobody but their creator comes to hold them.
HandsShrink ==
    \A k \in Keys :
        /\ row[k] # "absent" => row'[k] # "absent"
        /\ \A p \in Polls : InHands(p, k)' => InHands(p, k)

LEMMA ShrinkKeepsHands ==
  ASSUME HandsInv, HandsShrink
  PROVE  HandsInv'
  BY DEF HandsInv, HandsShrink, OneDispatcher, HandedIsCreated

\* What the scan steps other than CreateQueuedJob do to what a poll holds.
LEMMA ScanPartsHands ==
  ASSUME TypeOK, NEW p \in Polls, NEW n \in {1, 2}, NEW q \in Polls, NEW m \in {1, 2}
  PROVE  /\ Leave(p, n) \/ Schedule(p, n) =>
              scan'[<<q, m>>].created \subseteq scan[<<q, m>>].created
         /\ \A lock, S : Enter(p, n, lock, S) =>
              scan'[<<q, m>>].created \subseteq scan[<<q, m>>].created
<1>1. <<q, m>> \in Attempts
  BY DEF Attempts
<1> QED
  BY <1>1 DEF Leave, Schedule, Enter, Blank, Scan, TypeOK

LEMMA ReportHands ==
  ASSUME TypeOK, NEW p \in Polls, NEW n \in {1, 2}, NEW q \in Polls, NEW S,
         Report(p, n, S)
  PROVE  poll'[q].queue = poll[q].queue \/ (q = p /\ poll'[q].queue = S)
  BY DEF Report, Poll, TypeOK

LEMMA ScanHands ==
  ASSUME TypeOK, NEW p \in Polls, NEW n \in {1, 2},
         \/ TakeAdvisoryLock(p, n) \/ SkipPoll(p, n)
         \/ \E w \in Workers : TakeFallbackLock(p, n, w)
         \/ \E k \in Keys : FindActiveJob(p, n, k)
         \/ FinishScan(p, n) \/ ScanFails(p, n) \/ WorkerCrashes(p, n)
  PROVE  HandsShrink
<1>1. UNCHANGED <<row, wf>>
  BY DEF TakeAdvisoryLock, SkipPoll, TakeFallbackLock, FindActiveJob, FinishScan,
         ScanFails, WorkerCrashes, jobVars
<1>2. ASSUME NEW q \in Polls, NEW m \in {1, 2}
      PROVE  scan'[<<q, m>>].created \subseteq scan[<<q, m>>].created
  <2>1. ASSUME NEW k \in Keys, FindActiveJob(p, n, k)
        PROVE  scan'[<<q, m>>].created = scan[<<q, m>>].created
    <3>1. <<q, m>> \in Attempts /\ <<p, n>> \in Attempts
      BY DEF Attempts
    <3>2. scan[<<p, n>>] \in ScanStates
      BY <3>1 DEF TypeOK
    <3> QED
      BY <2>1, <3>1, <3>2 DEF FindActiveJob, TypeOK, Scan, ScanStates, ScanPcs
  <2> QED
    BY <2>1, ScanPartsHands DEF TakeAdvisoryLock, SkipPoll, TakeFallbackLock,
       FinishScan, ScanFails, WorkerCrashes
<1>3. ASSUME NEW q \in Polls
      PROVE  \/ poll'[q].queue = poll[q].queue
             \/ q = p /\ poll'[q].queue = {}
             \/ q = p /\ poll'[q].queue = scan[<<p, n>>].created
  <2>1. UNCHANGED poll \/ Report(p, n, {}) \/ Report(p, n, scan[<<p, n>>].created)
    BY DEF TakeAdvisoryLock, SkipPoll, TakeFallbackLock, FindActiveJob, FinishScan,
           ScanFails, WorkerCrashes
  <2>2. CASE Report(p, n, {})
    BY <2>2, ReportHands
  <2>3. CASE Report(p, n, scan[<<p, n>>].created)
    BY <2>3, ReportHands
  <2> QED
    BY <2>1, <2>2, <2>3
<1> QED
  BY <1>1, <1>2, <1>3 DEF HandsShrink, InHands

LEMMA CreateHands ==
  ASSUME TypeOK, HandsInv, NEW p \in Polls, NEW n \in {1, 2}, NEW k \in Keys,
         CreateQueuedJob(p, n, k)
  PROVE  HandsInv'
<1>1. UNCHANGED <<poll, wf>>
  BY DEF CreateQueuedJob
<1>2. ASSUME NEW q \in Polls, NEW m \in {1, 2}, NEW j \in Keys,
             j \in scan'[<<q, m>>].created
      PROVE  \/ j \in scan[<<q, m>>].created
             \/ q = p /\ j = k /\ row[k] = "absent"
  <2>1. <<q, m>> \in Attempts /\ <<p, n>> \in Attempts
    BY DEF Attempts
  <2>2. scan \in [Attempts -> ScanStates] /\ scan[<<p, n>>] \in ScanStates
    BY <2>1 DEF TypeOK
  <2>3. CASE <<q, m>> = <<p, n>>
    <3>1. scan'[<<p, n>>] =
            Scan("scanning", scan[<<p, n>>].todo, {},
                 scan[<<p, n>>].created \union (IF row[k] = "absent" THEN {k} ELSE {}),
                 scan[<<p, n>>].lock)
      BY <2>1, <2>2 DEF CreateQueuedJob
    <3>2. scan'[<<p, n>>].created =
            scan[<<p, n>>].created \union (IF row[k] = "absent" THEN {k} ELSE {})
      BY <3>1 DEF Scan
    <3>3. q = p /\ m = n
      BY <2>3
    <3> QED
      BY <1>2, <3>2, <3>3
  <2>4. CASE <<q, m>> # <<p, n>>
    <3>1. scan'[<<q, m>>] = scan[<<q, m>>]
      BY <2>1, <2>2, <2>4 DEF CreateQueuedJob
    <3> QED
      BY <1>2, <3>1
  <2> QED
    BY <2>3, <2>4
<1>3. \A q \in Polls, j \in Keys :
         InHands(q, j)' => InHands(q, j) \/ (q = p /\ j = k /\ row[k] = "absent")
  BY <1>1, <1>2 DEF InHands
<1>4. \A j \in Keys : row[j] # "absent" \/ (j = k /\ row[k] = "absent")
                         => \/ row'[j] # "absent"
  BY DEF CreateQueuedJob
<1> QED
  BY <1>3, <1>4 DEF HandsInv, OneDispatcher, HandedIsCreated

LEMMA PollHands ==
  ASSUME TypeOK, NEW p \in Polls, StartPoll(p) \/ PollStep(p)
  PROVE  HandsShrink
<1>1. CASE StartPoll(p) \/ AttemptFails(p) \/ PollEnds(p)
  <2>1. UNCHANGED <<row, wf>>
    BY <1>1 DEF StartPoll, AttemptFails, PollEnds, jobVars
  <2>2. \A q \in Polls : poll'[q].queue \subseteq poll[q].queue
    BY <1>1 DEF StartPoll, AttemptFails, PollEnds, Poll, TypeOK
  <2>3. UNCHANGED scan \/ Schedule(p, 1) \/ Schedule(p, 2)
    BY <1>1 DEF StartPoll, AttemptFails, PollEnds
  <2>4. ASSUME NEW q \in Polls, NEW m \in {1, 2}
        PROVE  scan'[<<q, m>>].created \subseteq scan[<<q, m>>].created
    BY <2>3, ScanPartsHands
  <2> QED
    BY <2>1, <2>2, <2>4 DEF HandsShrink, InHands
<1>2. ASSUME NEW k \in Keys, StartChild(p, k)
      PROVE  HandsShrink
  <2>1. UNCHANGED <<row, scan>> /\ k \in poll[p].queue
    BY <1>2 DEF StartChild
  <2>2. \A q \in Polls : poll'[q].queue \subseteq poll[q].queue
    BY <1>2 DEF StartChild, Poll, TypeOK
  <2>3. \A q \in Polls, j \in Keys :
           wf'[<<q, j>>] # "none" => wf[<<q, j>>] # "none" \/ (q = p /\ j = k)
    BY <1>2 DEF StartChild, TypeOK, Starters
  <2> QED
    BY <2>1, <2>2, <2>3 DEF HandsShrink, InHands
<1>3. ASSUME NEW k \in Keys, ChildEnds(p, k)
      PROVE  HandsShrink
  <2>1. UNCHANGED <<row, scan, wf>>
    BY <1>3 DEF ChildEnds, jobVars
  <2>2. \A q \in Polls : poll'[q].queue \subseteq poll[q].queue
    BY <1>3 DEF ChildEnds, Poll, TypeOK, PollStates
  <2> QED
    BY <2>1, <2>2 DEF HandsShrink, InHands
<1> QED
  BY <1>1, <1>2, <1>3 DEF PollStep

LEMMA JobHands ==
  ASSUME TypeOK,
         \/ \E x \in Starters \X Keys : WorkflowStep(x)
         \/ \E k \in Keys :
               StartProcessWorkflow(k) \/ BecomeStale(k) \/ FailStaleQueuedJob(k)
  PROVE  HandsShrink
<1>1. UNCHANGED <<poll, scan>>
  BY DEF WorkflowStep, MarkRunning, RunPipeline, MarkEnd, StartProcessWorkflow,
         BecomeStale, FailStaleQueuedJob
<1>2. ASSUME NEW k \in Keys, row[k] # "absent"
      PROVE  row'[k] # "absent"
  <2>1. ASSUME NEW x \in Starters \X Keys, WorkflowStep(x)
        PROVE  \/ UNCHANGED row
               \/ \E s \in {"running", "succeeded", "failed"} :
                     row' = [row EXCEPT ![x[2]] = s]
    BY <2>1 DEF WorkflowStep, MarkRunning, RunPipeline, MarkEnd, Write, Refused
  <2>2. ASSUME NEW j \in Keys, FailStaleQueuedJob(j)
        PROVE  row' = [row EXCEPT ![j] = "undispatched"]
    BY <2>2 DEF FailStaleQueuedJob
  <2> QED
    BY <1>2, <2>1, <2>2 DEF StartProcessWorkflow, BecomeStale, TypeOK
<1>3. ASSUME NEW p \in Polls, NEW k \in Keys
      PROVE  wf'[<<p, k>>] # "none" => wf[<<p, k>>] # "none"
  <2>1. ASSUME NEW x \in Starters \X Keys, WorkflowStep(x)
        PROVE  wf[x] # "none" /\ \E t : wf' = [wf EXCEPT ![x] = t]
    BY <2>1 DEF WorkflowStep, MarkRunning, RunPipeline, MarkEnd, Write, Refused
  <2>2. ASSUME NEW j \in Keys, StartProcessWorkflow(j)
        PROVE  wf'[<<p, k>>] = wf[<<p, k>>]
    BY <2>2, OperatorAssumption DEF StartProcessWorkflow, TypeOK, Starters
  <2> QED
    BY <2>1, <2>2 DEF BecomeStale, FailStaleQueuedJob, TypeOK, Starters
<1> QED
  BY <1>1, <1>2, <1>3 DEF HandsShrink, InHands

\* The unique index on idempotency_key leaves one poll at each job, whatever
\* happens to the locks, the attempts and the processes.
THEOREM JobIsAtOnePoll == Spec => []OneDispatcher
<1>1. Init => HandsInv
  BY DEF Init, HandsInv, OneDispatcher, HandedIsCreated, InHands, Blank, Scan, Poll,
         Attempts, Starters
<1>2. TypeOK /\ HandsInv /\ [Next]_vars => HandsInv'
  <2> SUFFICES ASSUME TypeOK, HandsInv, [Next]_vars
               PROVE  HandsInv'
    OBVIOUS
  <2>1. CASE FallbackExpires \/ UNCHANGED vars
    <3>1. UNCHANGED <<row, poll, scan, wf>>
      BY <2>1 DEF FallbackExpires, vars, jobVars
    <3>2. HandsShrink
      BY <3>1 DEF HandsShrink, InHands
    <3> QED
      BY <3>2, ShrinkKeepsHands
  <2> QED
    BY <2>1, ScanHands, CreateHands, PollHands, JobHands, ShrinkKeepsHands
       DEF Next, ScanStep
<1> QED
  BY <1>1, <1>2, TypeCorrect, PTL DEF Spec, HandsInv

-----------------------------------------------------------------------------
(***************************************************************************)
(* A job is run once, and by whoever runs it alone.                        *)
(***************************************************************************)
BeforeRun == {"absent", "queued", "undispatched"}
Running == {"pipeline", "mark_end"}

\* A row that says so has not been run.
UnstartedHasNotRun == \A k \in Keys : row[k] \in BeforeRun => runs[k] = 0

\* Neither has the job of a workflow that is about to run it.
RunnerHasNotRun == \A x \in Starters \X Keys : wf[x] = "pipeline" => runs[x[2]] = 0

RunInv == JobRunsOnce /\ RunnerHasRow /\ UnstartedHasNotRun /\ RunnerHasNotRun

\* What every step but those of workflows does: rows move among the statuses
\* before a run, and nobody begins to run.
KeepsRunners ==
    /\ UNCHANGED runs
    /\ \A k \in Keys :
          row'[k] = row[k] \/ (row[k] \in BeforeRun /\ row'[k] \in BeforeRun)
    /\ \A x \in Starters \X Keys : wf'[x] \in Running => wf'[x] = wf[x]

LEMMA KeepsRunInv ==
  ASSUME RunInv, KeepsRunners
  PROVE  RunInv'
<1>1. \A x \in Starters \X Keys : x[2] \in Keys
  OBVIOUS
<1>2. RunnerHasRow'
  BY <1>1 DEF RunInv, KeepsRunners, RunnerHasRow, BeforeRun, Running
<1>3. RunnerHasNotRun'
  BY DEF RunInv, KeepsRunners, RunnerHasNotRun, Running
<1>4. JobRunsOnce' /\ UnstartedHasNotRun'
  BY DEF RunInv, KeepsRunners, JobRunsOnce, UnstartedHasNotRun
<1> QED
  BY <1>2, <1>3, <1>4 DEF RunInv

LEMMA OthersKeepRunners ==
  ASSUME TypeOK, [Next]_vars, ~(\E x \in Starters \X Keys : WorkflowStep(x))
  PROVE  KeepsRunners
<1>1. CASE UNCHANGED <<row, wf, runs>>
  BY <1>1 DEF KeepsRunners
<1>2. ASSUME NEW p \in Polls, NEW n \in {1, 2}, NEW k \in Keys, CreateQueuedJob(p, n, k)
      PROVE  KeepsRunners
  BY <1>2 DEF CreateQueuedJob, KeepsRunners, BeforeRun
<1>3. ASSUME NEW p \in Polls, NEW k \in Keys, StartChild(p, k)
      PROVE  KeepsRunners
  BY <1>3 DEF StartChild, KeepsRunners, Running, TypeOK
<1>4. ASSUME NEW k \in Keys, StartProcessWorkflow(k)
      PROVE  KeepsRunners
  BY <1>4 DEF StartProcessWorkflow, KeepsRunners, Running, TypeOK
<1>5. ASSUME NEW k \in Keys, FailStaleQueuedJob(k)
      PROVE  KeepsRunners
  BY <1>5 DEF FailStaleQueuedJob, KeepsRunners, BeforeRun, TypeOK
<1>6. ASSUME NEW p \in Polls, StartPoll(p) \/ AttemptFails(p) \/ PollEnds(p)
      PROVE  UNCHANGED <<row, wf, runs>>
  BY <1>6 DEF StartPoll, AttemptFails, PollEnds, jobVars
<1>7. ASSUME NEW p \in Polls, NEW k \in Keys, ChildEnds(p, k)
      PROVE  UNCHANGED <<row, wf, runs>>
  BY <1>7 DEF ChildEnds, jobVars
<1>8. ASSUME NEW p \in Polls, NEW n \in {1, 2},
             \/ TakeAdvisoryLock(p, n) \/ SkipPoll(p, n) \/ FinishScan(p, n)
             \/ ScanFails(p, n) \/ WorkerCrashes(p, n)
             \/ \E w \in Workers : TakeFallbackLock(p, n, w)
             \/ \E k \in Keys : FindActiveJob(p, n, k)
      PROVE  UNCHANGED <<row, wf, runs>>
  BY <1>8 DEF TakeAdvisoryLock, SkipPoll, FinishScan, ScanFails, WorkerCrashes,
              TakeFallbackLock, FindActiveJob, jobVars
<1>9. ASSUME NEW k \in Keys, BecomeStale(k)
      PROVE  UNCHANGED <<row, wf, runs>>
  BY <1>9 DEF BecomeStale
<1>10. CASE FallbackExpires \/ UNCHANGED vars
  BY <1>1, <1>10 DEF FallbackExpires, vars, jobVars
<1> QED
  BY <1>1, <1>2, <1>3, <1>4, <1>5, <1>6, <1>7, <1>8, <1>9, <1>10
     DEF Next, PollStep, ScanStep

\* What mark_running's guard buys: the row was queued, so nobody has run the job
\* and nobody is at it.
LEMMA MarkRunningKeepsRunInv ==
  ASSUME TypeOK, RunInv, NEW x \in Starters \X Keys, MarkRunning(x)
  PROVE  RunInv'
<1>1. x[2] \in Keys /\ runs' = runs
  BY DEF MarkRunning
<1>2. CASE row[x[2]] # "queued"
  <2>1. KeepsRunners
    BY <1>1, <1>2 DEF MarkRunning, Refused, KeepsRunners, Running, TypeOK
  <2> QED
    BY <2>1, KeepsRunInv
<1>3. CASE row[x[2]] = "queued" /\ row' = row
  <2>1. KeepsRunners
    BY <1>1, <1>3 DEF MarkRunning, Write, KeepsRunners, Running, TypeOK, BeforeRun
  <2> QED
    BY <2>1, KeepsRunInv
<1>4. CASE row[x[2]] = "queued" /\ row' # row
  <2>1. row' = [row EXCEPT ![x[2]] = "running"]
        /\ (wf' = [wf EXCEPT ![x] = "pipeline"] \/ wf' = [wf EXCEPT ![x] = "raised"])
    BY <1>4 DEF MarkRunning, Write
  <2>2. \A y \in Starters \X Keys : y[2] = x[2] => wf[y] \notin Running
    BY <1>4 DEF RunInv, RunnerHasRow, Running
  <2>3. runs[x[2]] = 0
    BY <1>1, <1>4 DEF RunInv, UnstartedHasNotRun, BeforeRun
  <2>4. RunnerHasRow'
    BY <1>1, <2>1, <2>2 DEF RunInv, RunnerHasRow, Running, TypeOK
  <2>5. RunnerHasNotRun'
    BY <1>1, <2>1, <2>3 DEF RunInv, RunnerHasNotRun, TypeOK
  <2>6. JobRunsOnce' /\ UnstartedHasNotRun'
    BY <1>1, <2>1, <2>3 DEF RunInv, JobRunsOnce, UnstartedHasNotRun, BeforeRun, TypeOK
  <2> QED
    BY <2>4, <2>5, <2>6 DEF RunInv
<1> QED
  BY <1>2, <1>3, <1>4

LEMMA RunPipelineKeepsRunInv ==
  ASSUME TypeOK, RunInv, NEW x \in Starters \X Keys, RunPipeline(x)
  PROVE  RunInv'
<1>1. x[2] \in Keys /\ row' = row /\ wf[x] = "pipeline"
      /\ wf' = [wf EXCEPT ![x] = "mark_end"] /\ runs' = [runs EXCEPT ![x[2]] = @ + 1]
  BY DEF RunPipeline
<1>2. runs[x[2]] = 0 /\ row[x[2]] = "running"
  BY <1>1 DEF RunInv, RunnerHasNotRun, RunnerHasRow
<1>3. RunnerHasRow'
  BY <1>1 DEF RunInv, RunnerHasRow, TypeOK
<1>4. RunnerHasNotRun'
  BY <1>1 DEF RunInv, RunnerHasNotRun, RunnerHasRow, TypeOK
<1>5. JobRunsOnce' /\ UnstartedHasNotRun'
  BY <1>1, <1>2 DEF RunInv, JobRunsOnce, UnstartedHasNotRun, BeforeRun, TypeOK
<1> QED
  BY <1>3, <1>4, <1>5 DEF RunInv

LEMMA MarkEndKeepsRunInv ==
  ASSUME TypeOK, RunInv, NEW x \in Starters \X Keys, MarkEnd(x)
  PROVE  RunInv'
<1>1. x[2] \in Keys /\ runs' = runs /\ wf[x] = "mark_end" /\ row[x[2]] = "running"
  BY DEF MarkEnd, RunInv, RunnerHasRow
<1>2. PICK s \in {"running", "succeeded", "failed"} : row' = [row EXCEPT ![x[2]] = s]
  BY <1>1 DEF MarkEnd, Write, TypeOK
<1>3. PICK t \in {"returned", "raised"} : wf' = [wf EXCEPT ![x] = t]
  BY <1>1 DEF MarkEnd, Write
<1>4. RunnerHasRow'
  BY <1>1, <1>2, <1>3 DEF RunInv, RunnerHasRow, TypeOK
<1>5. RunnerHasNotRun'
  BY <1>1, <1>3 DEF RunInv, RunnerHasNotRun, TypeOK
<1>6. JobRunsOnce' /\ UnstartedHasNotRun'
  BY <1>1, <1>2 DEF RunInv, JobRunsOnce, UnstartedHasNotRun, BeforeRun, TypeOK
<1> QED
  BY <1>4, <1>5, <1>6 DEF RunInv

LEMMA RunInvCorrect == Spec => []RunInv
<1>1. Init => RunInv
  BY DEF Init, RunInv, JobRunsOnce, RunnerHasRow, UnstartedHasNotRun, RunnerHasNotRun
<1>2. TypeOK /\ RunInv /\ [Next]_vars => RunInv'
  BY OthersKeepRunners, KeepsRunInv, MarkRunningKeepsRunInv, RunPipelineKeepsRunInv,
     MarkEndKeepsRunInv DEF WorkflowStep
<1> QED
  BY <1>1, <1>2, TypeCorrect, PTL DEF Spec

\* The guard of mark_running lets the pipeline of a polled job run once.
THEOREM RunsOnce == Spec => []JobRunsOnce
  BY RunInvCorrect, PTL DEF RunInv

\* Between mark_running and its last write a workflow is alone with its row.
THEOREM RunnerIsAlone == Spec => []RunnerHasRow
  BY RunInvCorrect, PTL DEF RunInv

-----------------------------------------------------------------------------
(***************************************************************************)
(* Polling implements JobStatusMachine.                                    *)
(***************************************************************************)
\* The rows of polled jobs move along the documented edges only, under every
\* fault: their statements are guarded, and the last one meets running rows.
THEOREM RowsFollowStatusMachine == Spec => FollowsStatusMachine
<1>1. Init => StatusMachine!Init
  BY DEF Init, StatusMachine!Init
<1>2. TypeOK /\ TypeOK' /\ RunInv /\ [Next]_vars => [StatusMachine!Next]_row
  <2> SUFFICES ASSUME TypeOK, TypeOK', RunInv, [Next]_vars
               PROVE  StatusMachine!Next
    OBVIOUS
  <2>1. DOMAIN row' = Keys
    BY DEF TypeOK
  <2>2. ASSUME NEW k \in Keys
        PROVE  row'[k] = row[k] \/ <<row[k], row'[k]>> \in StatusMachine!Edges
    <3>1. CASE UNCHANGED row
      BY <3>1
    <3>2. ASSUME NEW x \in Starters \X Keys, MarkRunning(x)
          PROVE  row'[k] = row[k] \/ (row[k] = "queued" /\ row'[k] = "running")
      BY <3>2 DEF MarkRunning, Write, Refused, TypeOK
    <3>3. ASSUME NEW x \in Starters \X Keys, MarkEnd(x)
          PROVE  row'[k] = row[k]
                 \/ (row[k] = "running" /\ row'[k] \in {"succeeded", "failed"})
      <4>1. row[x[2]] = "running"
        BY <3>3 DEF MarkEnd, RunInv, RunnerHasRow
      <4> QED
        BY <3>3, <4>1 DEF MarkEnd, Write, TypeOK
    <3>4. ASSUME NEW p \in Polls, NEW n \in {1, 2}, NEW j \in Keys,
                 CreateQueuedJob(p, n, j)
          PROVE  row'[k] = row[k] \/ (row[k] = "absent" /\ row'[k] = "queued")
      BY <3>4 DEF CreateQueuedJob
    <3>5. ASSUME NEW j \in Keys, FailStaleQueuedJob(j)
          PROVE  row'[k] = row[k] \/ (row[k] = "queued" /\ row'[k] = "undispatched")
      BY <3>5 DEF FailStaleQueuedJob, TypeOK
    <3>6. \/ UNCHANGED row
          \/ \E x \in Starters \X Keys : MarkRunning(x) \/ MarkEnd(x)
          \/ \E p \in Polls, n \in {1, 2}, j \in Keys : CreateQueuedJob(p, n, j)
          \/ \E j \in Keys : FailStaleQueuedJob(j)
      <4>1. ASSUME NEW p \in Polls, StartPoll(p) \/ PollStep(p)
            PROVE  UNCHANGED row
        BY <4>1 DEF StartPoll, PollStep, AttemptFails, PollEnds, StartChild, ChildEnds,
                    jobVars
      <4>2. ASSUME NEW p \in Polls, NEW n \in {1, 2},
                   ScanStep(p, n) \/ ScanFails(p, n) \/ WorkerCrashes(p, n)
            PROVE  UNCHANGED row \/ \E j \in Keys : CreateQueuedJob(p, n, j)
        BY <4>2 DEF ScanStep, TakeAdvisoryLock, TakeFallbackLock, SkipPoll,
                    FindActiveJob, FinishScan, ScanFails, WorkerCrashes, jobVars
      <4>3. ASSUME NEW x \in Starters \X Keys, WorkflowStep(x)
            PROVE  UNCHANGED row \/ MarkRunning(x) \/ MarkEnd(x)
        BY <4>3 DEF WorkflowStep, RunPipeline
      <4>4. ASSUME NEW j \in Keys, StartProcessWorkflow(j) \/ BecomeStale(j)
            PROVE  UNCHANGED row
        BY <4>4 DEF StartProcessWorkflow, BecomeStale
      <4>5. CASE FallbackExpires \/ UNCHANGED vars
        BY <4>5 DEF FallbackExpires, vars, jobVars
      <4> QED
        BY <4>1, <4>2, <4>3, <4>4, <4>5 DEF Next
    <3> QED
      BY <3>1, <3>2, <3>3, <3>4, <3>5, <3>6 DEF StatusMachine!Edges
  <2> QED
    BY <2>1, <2>2 DEF StatusMachine!Next
<1> QED
  BY <1>1, <1>2, TypeCorrect, RunInvCorrect, PTL
     DEF Spec, FollowsStatusMachine, StatusMachine!Spec
=============================================================================
