----------------------------- MODULE Api_proofs ------------------------------
(***************************************************************************)
(* Theorems about what the API tells its clients: the runs of UI audits,   *)
(* for any requests and restarts, the view of a job, for any runs and      *)
(* steps, the digest feed, for any rows and page size, and the calls that  *)
(* come through the MCP server, for any number of attempts.                *)
(***************************************************************************)
EXTENDS UiAudit, JobView, DigestFeed, Gateway, Ordering_proofs

-----------------------------------------------------------------------------
(*****************************************************************************)
(* UiAudit.  A run is copied from the request that made it to the memory of  *)
(* the process, to its file and to the client.  CopyOf says what every copy  *)
(* is; SaysItsReply, what the run may say once its review is over, which     *)
(* RequestSound prepares from the first reply on.                            *)
(*****************************************************************************)
LentFindings == {"gemini", "overall"}
Reviewing == {"idle", "findings", "review", "call", "wait", "judge", "gave_up"}

RequestOf(pc, service, report, attempt, asked, overdue, taken) ==
    [pc |-> pc, service |-> service, run |-> report, attempt |-> attempt, asked |-> asked,
     overdue |-> overdue, used |-> taken]

IsRequest(q) ==
    /\ q = RequestOf(q.pc, q.service, q.run, q.attempt, q.asked, q.overdue, q.used)
    /\ q.overdue \in BOOLEAN

IsAudit(report) == report = Audit(report.status, report.artifacts, report.findings)

AuditShape ==
    /\ request = [r \in Requests |-> request[r]]
    /\ run_store = [r \in Requests |-> run_store[r]]
    /\ run_files = [r \in Requests |-> run_files[r]]
    /\ answered = [r \in Requests |-> answered[r]]
    /\ restarts \in Nat
    /\ \A r \in Requests : IsRequest(request[r]) /\ IsAudit(request[r].run)

\* What the run says of the review is what the reply in time was worth.
SaysItsReply(q) ==
    /\ q.run.status # "none"
    /\ q.run.status = "completed" <=> q.used = "ok" /\ ~q.overdue
    /\ q.run.findings \intersect LentFindings # {} => q.used = "ok"

\* Until then no reply is used but the one that is being judged, which is in time.
RequestSound(q) ==
    /\ q.used \notin LentFindings
    /\ q.pc \in Reviewing \ {"judge"} => q.used # "ok"
    /\ q.pc = "judge" => ~q.overdue
    /\ q.pc \in Reviewing => q.run.findings \intersect LentFindings = {}
    /\ q.pc \in {"save", "persist", "answer"} => SaysItsReply(q)

\* A copy of a run, in memory, in its file or at the client, is the run as it was saved.
CopyOf(q, copy) ==
    copy # NoRun =>
        copy = q.run /\ SaysItsReply(q) /\ q.pc \in {"persist", "answer", "done", "failed"}

CopiesKept(r) ==
    /\ CopyOf(request[r], run_store[r])
    /\ CopyOf(request[r], run_files[r])
    /\ CopyOf(request[r], answered[r])

AnswerKept(r) ==
    /\ request[r].pc \in {"persist", "answer"} => run_store[r] = request[r].run
    /\ answered[r] # NoRun =>
          request[r].pc = "done" /\ (run_store[r] # NoRun \/ restarts > 0)

RunIsKept(r) == RequestSound(request[r]) /\ CopiesKept(r) /\ AnswerKept(r)
AuditInv == AuditShape /\ \A r \in Requests : RunIsKept(r)

\* A step of one request keeps the invariant of the others.
LEMMA OneRunChanges ==
  ASSUME AuditInv, NEW r \in Requests, NEW q, IsRequest(q), IsAudit(q.run),
         request' = [request EXCEPT ![r] = q],
         NEW mem, run_store' = [run_store EXCEPT ![r] = mem],
         NEW disk, run_files' = [run_files EXCEPT ![r] = disk],
         NEW told, answered' = [answered EXCEPT ![r] = told],
         restarts' = restarts, RunIsKept(r)'
  PROVE  AuditInv'
<1>1. AuditShape'
  BY DEF AuditInv, AuditShape
<1>2. ASSUME NEW s \in Requests, s # r PROVE RunIsKept(s)'
  <2>1. /\ request'[s] = request[s] /\ run_store'[s] = run_store[s]
        /\ run_files'[s] = run_files[s] /\ answered'[s] = answered[s]
    BY <1>2 DEF AuditInv, AuditShape
  <2> QED
    BY <1>2, <2>1 DEF AuditInv, RunIsKept, CopiesKept, AnswerKept, RequestSound, CopyOf
<1> QED
  BY <1>1, <1>2 DEF AuditInv

\* A request is its fields.
LEMMA RequestFields ==
  ASSUME NEW pc, NEW service, NEW report, NEW attempt, NEW asked, NEW overdue \in BOOLEAN,
         NEW taken, NEW q,
         q = RequestOf(pc, service, report, attempt, asked, overdue, taken)
  PROVE  /\ IsRequest(q)
         /\ q.pc = pc /\ q.service = service /\ q.run = report /\ q.attempt = attempt
         /\ q.asked = asked /\ q.overdue = overdue /\ q.used = taken
BY DEF IsRequest, RequestOf

\* What a request is after each of the assignments of the module: the fields named change,
\* the others stay.
LEMMA PcMoves ==
  ASSUME NEW q, IsRequest(q), NEW x, NEW z, z = [q EXCEPT !.pc = x]
  PROVE  z = RequestOf(x, q.service, q.run, q.attempt, q.asked, q.overdue, q.used)
<1>1. q = [pc |-> q.pc, service |-> q.service, run |-> q.run, attempt |-> q.attempt,
           asked |-> q.asked, overdue |-> q.overdue, used |-> q.used]
  BY DEF IsRequest, RequestOf
<1>2. z = [pc |-> z.pc, service |-> z.service, run |-> z.run, attempt |-> z.attempt,
           asked |-> z.asked, overdue |-> z.overdue, used |-> z.used]
  BY <1>1
<1>3. /\ z.pc = x /\ z.service = q.service /\ z.run = q.run
      /\ z.attempt = q.attempt /\ z.asked = q.asked /\ z.overdue = q.overdue /\ z.used = q.used
  BY <1>1
<1> QED
  BY <1>2, <1>3 DEF RequestOf

LEMMA RunThenPc ==
  ASSUME NEW q, IsRequest(q), NEW x, NEW y, NEW z, z = [q EXCEPT !.run = y, !.pc = x]
  PROVE  z = RequestOf(x, q.service, y, q.attempt, q.asked, q.overdue, q.used)
<1>1. q = [pc |-> q.pc, service |-> q.service, run |-> q.run, attempt |-> q.attempt,
           asked |-> q.asked, overdue |-> q.overdue, used |-> q.used]
  BY DEF IsRequest, RequestOf
<1>2. z = [pc |-> z.pc, service |-> z.service, run |-> z.run, attempt |-> z.attempt,
           asked |-> z.asked, overdue |-> z.overdue, used |-> z.used]
  BY <1>1
<1>3. /\ z.pc = x /\ z.service = q.service /\ z.run = y
      /\ z.attempt = q.attempt /\ z.asked = q.asked /\ z.overdue = q.overdue /\ z.used = q.used
  BY <1>1
<1> QED
  BY <1>2, <1>3 DEF RequestOf

LEMMA PcThenRun ==
  ASSUME NEW q, IsRequest(q), NEW x, NEW y, NEW z, z = [q EXCEPT !.pc = x, !.run = y]
  PROVE  z = RequestOf(x, q.service, y, q.attempt, q.asked, q.overdue, q.used)
<1>1. q = [pc |-> q.pc, service |-> q.service, run |-> q.run, attempt |-> q.attempt,
           asked |-> q.asked, overdue |-> q.overdue, used |-> q.used]
  BY DEF IsRequest, RequestOf
<1>2. z = [pc |-> z.pc, service |-> z.service, run |-> z.run, attempt |-> z.attempt,
           asked |-> z.asked, overdue |-> z.overdue, used |-> z.used]
  BY <1>1
<1>3. /\ z.pc = x /\ z.service = q.service /\ z.run = y
      /\ z.attempt = q.attempt /\ z.asked = q.asked /\ z.overdue = q.overdue /\ z.used = q.used
  BY <1>1
<1> QED
  BY <1>2, <1>3 DEF RequestOf

LEMMA ServiceThenPc ==
  ASSUME NEW q, IsRequest(q), NEW x, NEW y, NEW z, z = [q EXCEPT !.service = y, !.pc = x]
  PROVE  z = RequestOf(x, y, q.run, q.attempt, q.asked, q.overdue, q.used)
<1>1. q = [pc |-> q.pc, service |-> q.service, run |-> q.run, attempt |-> q.attempt,
           asked |-> q.asked, overdue |-> q.overdue, used |-> q.used]
  BY DEF IsRequest, RequestOf
<1>2. z = [pc |-> z.pc, service |-> z.service, run |-> z.run, attempt |-> z.attempt,
           asked |-> z.asked, overdue |-> z.overdue, used |-> z.used]
  BY <1>1
<1>3. /\ z.pc = x /\ z.service = y /\ z.run = q.run
      /\ z.attempt = q.attempt /\ z.asked = q.asked /\ z.overdue = q.overdue /\ z.used = q.used
  BY <1>1
<1> QED
  BY <1>2, <1>3 DEF RequestOf

LEMMA UsedThenPc ==
  ASSUME NEW q, IsRequest(q), NEW x, NEW y, NEW z, z = [q EXCEPT !.used = y, !.pc = x]
  PROVE  z = RequestOf(x, q.service, q.run, q.attempt, q.asked, q.overdue, y)
<1>1. q = [pc |-> q.pc, service |-> q.service, run |-> q.run, attempt |-> q.attempt,
           asked |-> q.asked, overdue |-> q.overdue, used |-> q.used]
  BY DEF IsRequest, RequestOf
<1>2. z = [pc |-> z.pc, service |-> z.service, run |-> z.run, attempt |-> z.attempt,
           asked |-> z.asked, overdue |-> z.overdue, used |-> z.used]
  BY <1>1
<1>3. /\ z.pc = x /\ z.service = q.service /\ z.run = q.run
      /\ z.attempt = q.attempt /\ z.asked = q.asked /\ z.overdue = q.overdue /\ z.used = y
  BY <1>1
<1> QED
  BY <1>2, <1>3 DEF RequestOf

LEMMA OverdueSet ==
  ASSUME NEW q, IsRequest(q), NEW x, NEW z, z = [q EXCEPT !.overdue = x]
  PROVE  z = RequestOf(q.pc, q.service, q.run, q.attempt, q.asked, x, q.used)
<1>1. q = [pc |-> q.pc, service |-> q.service, run |-> q.run, attempt |-> q.attempt,
           asked |-> q.asked, overdue |-> q.overdue, used |-> q.used]
  BY DEF IsRequest, RequestOf
<1>2. z = [pc |-> z.pc, service |-> z.service, run |-> z.run, attempt |-> z.attempt,
           asked |-> z.asked, overdue |-> z.overdue, used |-> z.used]
  BY <1>1
<1>3. /\ z.pc = q.pc /\ z.service = q.service /\ z.run = q.run
      /\ z.attempt = q.attempt /\ z.asked = q.asked /\ z.overdue = x /\ z.used = q.used
  BY <1>1
<1> QED
  BY <1>2, <1>3 DEF RequestOf

LEMMA Submits ==
  ASSUME NEW q, IsRequest(q), NEW x, NEW z,
         z = [q EXCEPT !.pc = x, !.attempt = @ + 1, !.asked = @ + 1, !.overdue = FALSE]
  PROVE  z = RequestOf(x, q.service, q.run, q.attempt + 1, q.asked + 1, FALSE, q.used)
<1>1. q = [pc |-> q.pc, service |-> q.service, run |-> q.run, attempt |-> q.attempt,
           asked |-> q.asked, overdue |-> q.overdue, used |-> q.used]
  BY DEF IsRequest, RequestOf
<1>2. z = [pc |-> z.pc, service |-> z.service, run |-> z.run, attempt |-> z.attempt,
           asked |-> z.asked, overdue |-> z.overdue, used |-> z.used]
  BY <1>1
<1>3. /\ z.pc = x /\ z.service = q.service /\ z.run = q.run
      /\ z.attempt = q.attempt + 1 /\ z.asked = q.asked + 1 /\ z.overdue = FALSE /\ z.used = q.used
  BY <1>1
<1> QED
  BY <1>2, <1>3 DEF RequestOf

\* A review that goes on has no copy of its run to disagree with.
LEMMA ReviewStep ==
  ASSUME AuditInv, NEW r \in Requests, request[r].pc \in Reviewing,
         NEW z, IsRequest(z), IsAudit(z.run), RequestSound(z), z.pc \notin {"persist", "answer"},
         request' = [request EXCEPT ![r] = z], UNCHANGED_store
  PROVE  AuditInv'
<1>1. run_store[r] = NoRun /\ run_files[r] = NoRun /\ answered[r] = NoRun
  BY DEF AuditInv, RunIsKept, CopiesKept, CopyOf, Reviewing
<1>2. request'[r] = z
  BY DEF AuditInv, AuditShape
<1>3. RunIsKept(r)'
  BY <1>1, <1>2 DEF RunIsKept, CopiesKept, CopyOf, AnswerKept, UNCHANGED_store, RequestSound,
                  SaysItsReply
<1> DEFINE mem == run_store[r]  disk == run_files[r]  told == answered[r]
<1>4. /\ run_store' = [run_store EXCEPT ![r] = mem]
      /\ run_files' = [run_files EXCEPT ![r] = disk]
      /\ answered' = [answered EXCEPT ![r] = told]
      /\ restarts' = restarts
  BY DEF AuditInv, AuditShape, UNCHANGED_store
<1> HIDE DEF mem, disk, told
<1> QED
  BY <1>3, <1>4, OneRunChanges

\* A review that moves on, or fails.
LEMMA ReviewMoveStep ==
  ASSUME AuditInv, NEW r \in Requests, request[r].pc \in Reviewing, NEW pc,
         To(r, pc), UNCHANGED_store, pc \notin {"save", "persist", "answer"},
         pc \in Reviewing => request[r].pc # "judge" /\ pc # "judge"
  PROVE  AuditInv'
<1> PICK z : z = [request[r] EXCEPT !.pc = pc]
  OBVIOUS
<1>1. request' = [request EXCEPT ![r] = z] /\ IsRequest(request[r]) /\ IsAudit(request[r].run)
  BY DEF To, AuditInv, AuditShape
<1> DEFINE q == request[r]
<1>2. z = RequestOf(pc, q.service, q.run, q.attempt, q.asked, q.overdue, q.used)
  BY <1>1, PcMoves
<1>3. IsRequest(z) /\ z.pc = pc /\ z.run = q.run /\ z.overdue = q.overdue /\ z.used = q.used
  BY <1>1, <1>2, RequestFields DEF IsRequest
<1>4. RequestSound(z)
  BY <1>3 DEF AuditInv, RunIsKept, RequestSound, Reviewing
<1> QED
  BY <1>1, <1>3, <1>4, ReviewStep

\* A review that changes its run: the findings of others, or the outcome at its end.
LEMMA RunOfReviewStep ==
  ASSUME AuditInv, NEW r \in Requests, request[r].pc \in Reviewing, NEW pc, NEW report, NEW z,
         z = RequestOf(pc, request[r].service, report, request[r].attempt, request[r].asked,
                       request[r].overdue, request[r].used),
         request' = [request EXCEPT ![r] = z], UNCHANGED_store,
         pc \in {"findings", "review", "save"}, IsAudit(report),
         pc # "save" => request[r].pc # "judge" /\ report.findings \intersect LentFindings = {},
         pc = "save" => SaysItsReply(z)
  PROVE  AuditInv'
<1> DEFINE q == request[r]
<1>1. IsRequest(q)
  BY DEF AuditInv, AuditShape
<1>2. IsRequest(z) /\ z.pc = pc /\ z.run = report /\ z.overdue = q.overdue /\ z.used = q.used
  BY <1>1, RequestFields DEF IsRequest
<1>3. RequestSound(z)
  BY <1>2 DEF AuditInv, RunIsKept, RequestSound, Reviewing
<1> QED
  BY <1>2, <1>3, ReviewStep

\* The review is over, and its run says what its reply was worth.
LEMMA ReviewedStep ==
  ASSUME AuditInv, NEW r \in Requests, request[r].pc \in Reviewing, NEW status, NEW findings,
         Reviewed(r, status, findings), UNCHANGED_store, status # "none",
         status = "completed" <=> request[r].used = "ok" /\ ~request[r].overdue,
         findings \intersect LentFindings # {} => request[r].used = "ok"
  PROVE  AuditInv'
<1> DEFINE q == request[r]
           report == Audit(status, q.run.artifacts, q.run.findings \union findings)
           z == RequestOf("save", q.service, report, q.attempt, q.asked, q.overdue, q.used)
<1>1. report.status = status /\ report.findings = q.run.findings \union findings /\ IsAudit(report)
  BY DEF Audit, IsAudit
<1>2. q.run.findings \intersect LentFindings = {}
  BY DEF AuditInv, RunIsKept, RequestSound
<1> PICK y : y = [q EXCEPT !.run = report, !.pc = "save"]
  OBVIOUS
<1>3. request' = [request EXCEPT ![r] = y] /\ IsRequest(q)
  BY DEF Reviewed, AuditInv, AuditShape
<1>6. y = z
  BY <1>3, RunThenPc
<1>4. z.run = report /\ z.used = q.used /\ z.overdue = q.overdue
  BY DEF RequestOf
<1> HIDE DEF report, z
<1>5. SaysItsReply(z)
  BY <1>1, <1>2, <1>4 DEF SaysItsReply
<1> QED
  BY <1>1, <1>3, <1>5, <1>6, RunOfReviewStep DEF z

LEMMA StartAuditStep == ASSUME AuditInv, NEW r \in Requests, StartAudit(r) PROVE AuditInv'
<1> DEFINE q == request[r]
<1>1. q.pc = "idle" /\ q.pc \in Reviewing /\ UNCHANGED_store /\ IsRequest(q)
  BY DEF StartAudit, Was, Reviewing, AuditInv, AuditShape
<1>2. PICK pc, report :
         /\ request' = [request EXCEPT ![r].pc = pc, ![r].run = report]
         /\ \/ pc = "findings" /\ report = Audit("none", present, {})
            \/ pc = "save" /\ report = Audit("not_found", {}, {})
  BY DEF StartAudit
<1> PICK z : z = [q EXCEPT !.pc = pc, !.run = report]
  OBVIOUS
<1>3. request' = [request EXCEPT ![r] = z]
  BY <1>2 DEF AuditInv, AuditShape
<1>4. z = RequestOf(pc, q.service, report, q.attempt, q.asked, q.overdue, q.used)
  BY <1>1, PcThenRun
<1>5. IsAudit(report) /\ report.findings = {} /\ (pc = "save" => report.status = "not_found")
  BY <1>2 DEF Audit, IsAudit
<1>6. q.used # "ok"
  BY <1>1 DEF AuditInv, RunIsKept, RequestSound
<1>7. z.run = report /\ z.used = q.used
  BY <1>4 DEF RequestOf
<1>8. pc = "save" => SaysItsReply(z)
  BY <1>5, <1>6, <1>7 DEF SaysItsReply
<1>9. /\ pc \in {"findings", "review", "save"} /\ q.pc # "judge"
      /\ report.findings \intersect LentFindings = {}
  BY <1>1, <1>2, <1>5
<1> QED
  BY <1>1, <1>3, <1>4, <1>5, <1>8, <1>9, RunOfReviewStep

LEMMA CollectStep == ASSUME AuditInv, NEW r \in Requests, CollectFindings(r) PROVE AuditInv'
<1> DEFINE q == request[r]
<1>1. q.pc = "findings" /\ q.pc \in Reviewing /\ UNCHANGED_store /\ IsRequest(q) /\ IsAudit(q.run)
  BY DEF CollectFindings, Was, Reviewing, AuditInv, AuditShape
<1>2. CASE To(r, "failed")
  BY <1>1, <1>2, ReviewMoveStep DEF Reviewing
<1>3. ASSUME NEW found \in Read(r),
         Collected(r, [q.run EXCEPT !.findings =
                  IF found = "high" THEN {"high"}
                  ELSE IF "trace.json" \in q.run.artifacts THEN {"evidence-collected"}
                  ELSE {}])
      PROVE AuditInv'
  <2> PICK fs : /\ fs \in {{"high"}, {"evidence-collected"}, {}}
                /\ fs = IF found = "high" THEN {"high"}
                        ELSE IF "trace.json" \in q.run.artifacts THEN {"evidence-collected"}
                        ELSE {}
    OBVIOUS
  <2> PICK report : report = [q.run EXCEPT !.findings = fs]
    OBVIOUS
  <2>1. Collected(r, report)
    BY <1>3
  <2>2. IsAudit(report) /\ report.findings = fs
    BY <1>1 DEF IsAudit, Audit
  <2> PICK z : z = [q EXCEPT !.run = report, !.pc = "review"]
    OBVIOUS
  <2>3. request' = [request EXCEPT ![r] = z]
    BY <2>1 DEF Collected, AuditInv, AuditShape
  <2>4. z = RequestOf("review", q.service, report, q.attempt, q.asked, q.overdue, q.used)
    BY <1>1, RunThenPc
  <2>5. report.findings \intersect LentFindings = {} /\ q.pc # "judge"
    BY <1>1, <2>2 DEF LentFindings
  <2>6. "review" \in {"findings", "review", "save"} /\ "review" # "save"
    OBVIOUS
  <2> QED
    BY <1>1, <2>2, <2>3, <2>4, <2>5, <2>6, RunOfReviewStep
<1>4. PICK found \in Read(r) :
            IF found = "raises" THEN To(r, "failed")
            ELSE Collected(r, [q.run EXCEPT !.findings =
                    IF found = "high" THEN {"high"}
                    ELSE IF "trace.json" \in q.run.artifacts THEN {"evidence-collected"}
                    ELSE {}])
  BY DEF CollectFindings
<1>5. CASE found = "raises"
  BY <1>2, <1>4, <1>5
<1>6. CASE found # "raises"
  BY <1>3, <1>4, <1>6
<1> QED
  BY <1>5, <1>6

LEMMA ReviewStepEnds == ASSUME AuditInv, NEW r \in Requests, Review(r) PROVE AuditInv'
<1>1. /\ request[r].pc = "review" /\ request[r].pc \in Reviewing /\ UNCHANGED_store
      /\ request[r].used # "ok"
  BY DEF Review, Was, Reviewing, AuditInv, RunIsKept, RequestSound
<1>2. CASE To(r, "call")
  BY <1>1, <1>2, ReviewMoveStep
<1>3. CASE Reviewed(r, "completed_with_gemini_skipped", {})
  BY <1>1, <1>3, ReviewedStep
<1>4. CASE Reviewed(r, "completed_with_gemini_failure", {"sdk-unavailable"})
  BY <1>1, <1>4, ReviewedStep DEF LentFindings
<1> QED
  BY <1>2, <1>3, <1>4 DEF Review

LEMMA JudgeAuditStep == ASSUME AuditInv, NEW r \in Requests, JudgeAudit(r) PROVE AuditInv'
<1> DEFINE q == request[r]
<1>1. UNCHANGED_store
  BY DEF JudgeAudit
<1>2. CASE Was(r, "gave_up") /\ Reviewed(r, "completed_with_gemini_failure", {"provider-error"})
  <2>1. q.pc \in Reviewing /\ q.used # "ok"
    BY <1>2 DEF Was, Reviewing, AuditInv, RunIsKept, RequestSound
  <2> QED
    BY <1>1, <1>2, <2>1, ReviewedStep DEF LentFindings
<1>3. ASSUME Was(r, "judge"), q.used = "ok", NEW found \in SUBSET {"gemini", "overall"},
             Reviewed(r, "completed", found)
      PROVE  AuditInv'
  <2>1. q.pc \in Reviewing /\ ~q.overdue
    BY <1>3 DEF Was, Reviewing, AuditInv, RunIsKept, RequestSound
  <2> QED
    BY <1>1, <1>3, <2>1, ReviewedStep
<1>4. CASE /\ Was(r, "judge") /\ q.used # "ok"
           /\ Reviewed(r, "completed_with_gemini_failure", {q.used})
  <2>1. q.pc \in Reviewing /\ {q.used} \intersect LentFindings = {}
    BY <1>4 DEF Was, Reviewing, AuditInv, RunIsKept, RequestSound, LentFindings
  <2> QED
    BY <1>1, <1>4, <2>1, ReviewedStep
<1> QED
  BY <1>2, <1>3, <1>4 DEF JudgeAudit

LEMMA StartOtherStep ==
  ASSUME AuditInv, NEW r \in Requests, NEW service \in Services, StartOther(r, service)
  PROVE  AuditInv'
<1> DEFINE q == request[r]
<1>1. q.pc = "idle" /\ q.pc \in Reviewing /\ UNCHANGED_store /\ IsRequest(q) /\ IsAudit(q.run)
  BY DEF StartOther, Was, Reviewing, AuditInv, AuditShape
<1>2. PICK pc \in {"call", "failed", "done"} :
         request' = [request EXCEPT ![r].service = service, ![r].pc = pc]
  BY DEF StartOther
<1> PICK z : z = [q EXCEPT !.service = service, !.pc = pc]
  OBVIOUS
<1>3. request' = [request EXCEPT ![r] = z]
  BY <1>2 DEF AuditInv, AuditShape
<1>4. z = RequestOf(pc, service, q.run, q.attempt, q.asked, q.overdue, q.used)
  BY <1>1, ServiceThenPc
<1>5. IsRequest(z) /\ z.pc = pc /\ z.run = q.run /\ z.overdue = q.overdue /\ z.used = q.used
  BY <1>1, <1>4, RequestFields DEF IsRequest
<1>6. RequestSound(z)
  BY <1>1, <1>2, <1>5 DEF AuditInv, RunIsKept, RequestSound, Reviewing
<1> QED
  BY <1>1, <1>2, <1>3, <1>5, <1>6, ReviewStep

LEMMA SubmitStep == ASSUME AuditInv, NEW r \in Requests, Submit(r) PROVE AuditInv'
<1> DEFINE q == request[r]
<1>1. q.pc = "call" /\ q.pc \in Reviewing /\ UNCHANGED_store /\ IsRequest(q) /\ IsAudit(q.run)
  BY DEF Submit, Was, Reviewing, AuditInv, AuditShape
<1> PICK z : z = [q EXCEPT !.pc = "wait", !.attempt = @ + 1, !.asked = @ + 1, !.overdue = FALSE]
  OBVIOUS
<1>2. request' = [request EXCEPT ![r] = z]
  BY DEF Submit, AuditInv, AuditShape
<1>3. PICK b \in BOOLEAN :
         z = RequestOf("wait", q.service, q.run, q.attempt + 1, q.asked + 1, b, q.used)
  <2>1. FALSE \in BOOLEAN
    OBVIOUS
  <2> QED
    BY <1>1, <2>1, Submits
<1>4. IsRequest(z) /\ z.pc = "wait" /\ z.run = q.run /\ z.used = q.used
  BY <1>1, <1>3, RequestFields
<1>5. RequestSound(z)
  BY <1>1, <1>4 DEF AuditInv, RunIsKept, RequestSound, Reviewing
<1> QED
  BY <1>1, <1>2, <1>4, <1>5, ReviewStep

LEMMA TimesOutStep == ASSUME AuditInv, NEW r \in Requests, TimesOut(r) PROVE AuditInv'
<1> DEFINE q == request[r]
<1>1. q.pc = "wait" /\ q.pc \in Reviewing /\ UNCHANGED_store /\ IsRequest(q) /\ IsAudit(q.run)
  BY DEF TimesOut, Was, Reviewing, AuditInv, AuditShape
<1> PICK z : z = [q EXCEPT !.overdue = TRUE]
  OBVIOUS
<1>2. request' = [request EXCEPT ![r] = z]
  BY DEF TimesOut, AuditInv, AuditShape
<1>3. PICK b \in BOOLEAN :
         z = RequestOf(q.pc, q.service, q.run, q.attempt, q.asked, b, q.used)
  <2>1. TRUE \in BOOLEAN
    OBVIOUS
  <2> QED
    BY <1>1, <2>1, OverdueSet
<1>4. IsRequest(z) /\ z.pc = q.pc /\ z.run = q.run /\ z.used = q.used
  BY <1>3 DEF IsRequest, RequestOf
<1>5. RequestSound(z)
  BY <1>1, <1>4 DEF AuditInv, RunIsKept, RequestSound, Reviewing
<1> QED
  BY <1>1, <1>2, <1>4, <1>5, ReviewStep

LEMMA CallEndsStep == ASSUME AuditInv, NEW r \in Requests, CallEnds(r) PROVE AuditInv'
<1> DEFINE q == request[r]
<1>1. UNCHANGED_store /\ IsRequest(q) /\ IsAudit(q.run)
  BY DEF CallEnds, AuditInv, AuditShape
<1>2. CASE UNCHANGED request
  BY <1>1, <1>2 DEF UNCHANGED_store, AuditInv, AuditShape, RunIsKept, CopiesKept, AnswerKept
<1>3. CASE request' # request
  <2>1. PICK reply \in Replies :
           /\ q.pc = "wait" /\ ~q.overdue
           /\ request' = [request EXCEPT ![r].used = reply,
                            ![r].pc = IF reply = "error" THEN NextAttempt(r) ELSE "judge"]
    BY <1>3 DEF CallEnds, Was
  <2> DEFINE pc == IF reply = "error" THEN NextAttempt(r) ELSE "judge"
  <2>2. pc = "judge" \/ (reply = "error" /\ pc \in {"call", "gave_up"})
    <3>1. CASE reply = "error"
      BY <3>1 DEF NextAttempt
    <3>2. CASE reply # "error"
      BY <3>2
    <3> QED
      BY <3>1, <3>2
  <2>3. reply \notin LentFindings /\ q.pc \in Reviewing /\ pc \in Reviewing
    BY <2>1, <2>2 DEF Replies, LentFindings, Reviewing
  <2>4. request' = [request EXCEPT ![r].used = reply, ![r].pc = pc]
    BY <2>1
  <2> HIDE DEF pc
  <2> PICK z : z = [q EXCEPT !.used = reply, !.pc = pc]
    OBVIOUS
  <2>5. request' = [request EXCEPT ![r] = z]
    BY <2>4 DEF AuditInv, AuditShape
  <2>6. z = RequestOf(pc, q.service, q.run, q.attempt, q.asked, q.overdue, reply)
    BY <1>1, UsedThenPc
  <2>7. IsRequest(z) /\ z.pc = pc /\ z.run = q.run /\ z.overdue = q.overdue /\ z.used = reply
    BY <1>1, <2>6, RequestFields DEF IsRequest
  <2>8. RequestSound(z)
    BY <2>1, <2>2, <2>3, <2>7 DEF AuditInv, RunIsKept, RequestSound, Reviewing
  <2>9. z.pc \notin {"persist", "answer"}
    BY <2>2, <2>7
  <2> QED
    BY <1>1, <2>3, <2>5, <2>7, <2>8, <2>9, ReviewStep
<1> QED
  BY <1>2, <1>3

LEMMA RetryStep == ASSUME AuditInv, NEW r \in Requests, Retry(r) PROVE AuditInv'
<1> DEFINE pc == NextAttempt(r)
<1>1. /\ request[r].pc = "wait" /\ request[r].pc \in Reviewing /\ UNCHANGED_store
      /\ To(r, pc) /\ pc \in {"call", "gave_up"}
  BY DEF Retry, Was, Reviewing, NextAttempt
<1> HIDE DEF pc
<1> QED
  BY <1>1, ReviewMoveStep

LEMMA JudgeOtherStep == ASSUME AuditInv, NEW r \in Requests, JudgeOther(r) PROVE AuditInv'
<1>1. request[r].pc \in {"gave_up", "judge"} /\ request[r].pc \in Reviewing /\ UNCHANGED_store
  BY DEF JudgeOther, Reviewing
<1>2. PICK pc \in {"done", "failed"} : To(r, pc)
  BY DEF JudgeOther
<1> QED
  BY <1>1, <1>2, ReviewMoveStep DEF Reviewing

\* What a move of the process counter keeps.
LEMMA Advanced ==
  ASSUME AuditInv, NEW r \in Requests, NEW pc, To(r, pc), NEW z, z = [request[r] EXCEPT !.pc = pc]
  PROVE  /\ request' = [request EXCEPT ![r] = z] /\ request'[r] = z
         /\ IsRequest(z) /\ IsAudit(z.run) /\ z.pc = pc
         /\ z.run = request[r].run /\ z.used = request[r].used /\ z.overdue = request[r].overdue
<1> DEFINE q == request[r]
<1>1. /\ request' = [request EXCEPT ![r] = z] /\ request'[r] = z
      /\ IsRequest(q) /\ IsAudit(q.run)
  BY DEF To, AuditInv, AuditShape
<1>2. z = RequestOf(pc, q.service, q.run, q.attempt, q.asked, q.overdue, q.used)
  BY <1>1, PcMoves
<1>3. IsRequest(z) /\ z.pc = pc /\ z.run = q.run /\ z.overdue = q.overdue /\ z.used = q.used
  BY <1>1, <1>2, RequestFields DEF IsRequest
<1> QED
  BY <1>1, <1>3

\* The run in memory, in its file, and the answer: each is the run that was saved.
LEMMA SavesStep ==
  ASSUME AuditInv, NEW r \in Requests, SaveRun(r) \/ PersistRun(r) \/ AnswerRun(r)
  PROVE  AuditInv'
<1> DEFINE q == request[r]
<1>1. /\ SaveRun(r) => Was(r, "save") /\ To(r, "persist")
      /\ PersistRun(r) => Was(r, "persist") /\ To(r, "answer")
      /\ AnswerRun(r) => Was(r, "answer") /\ To(r, "done")
  BY DEF SaveRun, PersistRun, AnswerRun
<1>2. PICK pc : /\ To(r, pc) /\ q.pc \in {"save", "persist", "answer"}
                /\ pc \in {"persist", "answer", "done"}
                /\ SaveRun(r) => q.pc = "save" /\ pc = "persist"
                /\ PersistRun(r) => q.pc = "persist" /\ pc = "answer"
                /\ AnswerRun(r) => q.pc = "answer" /\ pc = "done"
                /\ q.pc = "save" => SaveRun(r)
  BY <1>1 DEF Was
<1>3. PICK mem, disk, told :
         /\ run_store' = [run_store EXCEPT ![r] = mem] /\ mem \in {run_store[r], q.run}
         /\ run_files' = [run_files EXCEPT ![r] = disk] /\ disk \in {run_files[r], q.run}
         /\ answered' = [answered EXCEPT ![r] = told] /\ told \in {answered[r], q.run}
         /\ restarts' = restarts
         /\ SaveRun(r) => mem = q.run
         /\ ~SaveRun(r) => mem = run_store[r]
         /\ ~AnswerRun(r) => told = answered[r]
  <2>1. CASE SaveRun(r)
    <3>1. /\ run_store' = [run_store EXCEPT ![r] = q.run]
          /\ run_files' = [run_files EXCEPT ![r] = run_files[r]]
          /\ answered' = [answered EXCEPT ![r] = answered[r]]
          /\ restarts' = restarts
      BY <2>1 DEF SaveRun, AuditInv, AuditShape
    <3>2. ~AnswerRun(r)
      BY <1>1, <2>1 DEF Was
    <3> QED
      BY <2>1, <3>1, <3>2
  <2>2. CASE PersistRun(r)
    <3>1. PICK disk \in {run_files[r], q.run} :
             /\ run_store' = [run_store EXCEPT ![r] = run_store[r]]
             /\ run_files' = [run_files EXCEPT ![r] = disk]
             /\ answered' = [answered EXCEPT ![r] = answered[r]]
             /\ restarts' = restarts
      BY <2>2 DEF PersistRun, AuditInv, AuditShape
    <3>2. ~SaveRun(r) /\ ~AnswerRun(r)
      BY <1>1, <2>2 DEF Was
    <3> QED
      BY <2>2, <3>1, <3>2
  <2>3. CASE AnswerRun(r)
    <3>1. /\ run_store' = [run_store EXCEPT ![r] = run_store[r]]
          /\ run_files' = [run_files EXCEPT ![r] = run_files[r]]
          /\ answered' = [answered EXCEPT ![r] = q.run]
          /\ restarts' = restarts
      BY <2>3 DEF AnswerRun, AuditInv, AuditShape
    <3>2. ~SaveRun(r)
      BY <1>1, <2>3 DEF Was
    <3> QED
      BY <2>3, <3>1, <3>2
  <2> QED
    BY <2>1, <2>2, <2>3
<1> PICK z : z = [q EXCEPT !.pc = pc]
  OBVIOUS
<1>4. /\ request' = [request EXCEPT ![r] = z] /\ request'[r] = z
      /\ IsRequest(z) /\ IsAudit(z.run) /\ z.pc = pc
      /\ z.run = q.run /\ z.used = q.used /\ z.overdue = q.overdue
  BY <1>2, Advanced
<1>5. SaysItsReply(q) /\ q.used \notin LentFindings
  BY <1>2 DEF AuditInv, RunIsKept, RequestSound
<1>6. SaysItsReply(z) /\ RequestSound(z)
  BY <1>2, <1>4, <1>5 DEF SaysItsReply, RequestSound, Reviewing
<1>7. run_store'[r] = mem /\ run_files'[r] = disk /\ answered'[r] = told
  BY <1>3 DEF AuditInv, AuditShape
<1>8. CopyOf(z, mem) /\ CopyOf(z, disk) /\ CopyOf(z, told)
  BY <1>2, <1>3, <1>4, <1>6 DEF AuditInv, RunIsKept, CopiesKept, CopyOf
<1>9. mem = q.run /\ mem # NoRun
  BY <1>2, <1>3, <1>5 DEF AuditInv, RunIsKept, AnswerKept, SaysItsReply, NoRun
<1>10. told # NoRun => pc = "done"
  BY <1>2, <1>3 DEF AuditInv, RunIsKept, AnswerKept
<1>11. RunIsKept(r)'
  BY <1>2, <1>4, <1>6, <1>7, <1>8, <1>9, <1>10 DEF RunIsKept, CopiesKept, AnswerKept
<1> QED
  BY <1>3, <1>4, <1>11, OneRunChanges

\* The file brought back to memory is the run, if there is one.
LEMMA ReadRunStep == ASSUME AuditInv, NEW r \in Requests, ReadRun(r) PROVE AuditInv'
<1>1. /\ run_store' = [run_store EXCEPT ![r] = run_files[r]]
      /\ run_store[r] = NoRun /\ run_files[r] # NoRun
      /\ UNCHANGED <<request, run_files, answered, restarts>>
  BY DEF ReadRun, LoadRun, load_run_from_disk
<1>2. AuditShape'
  BY <1>1 DEF AuditInv, AuditShape
<1>3. ASSUME NEW s \in Requests PROVE RunIsKept(s)'
  <2>1. run_store'[s] = IF s = r THEN run_files[r] ELSE run_store[s]
    BY <1>1 DEF AuditInv, AuditShape
  <2>2. s = r => run_store'[s] = run_files[s] /\ request[s].run = run_files[s]
    BY <1>1, <2>1 DEF AuditInv, RunIsKept, CopiesKept, CopyOf
  <2>3. RequestSound(request[s]) /\ CopiesKept(s) /\ AnswerKept(s)
    BY DEF AuditInv, RunIsKept
  <2>4. CopiesKept(s)' /\ AnswerKept(s)'
    BY <1>1, <2>1, <2>2, <2>3 DEF CopiesKept, AnswerKept
  <2> QED
    BY <1>1, <2>3, <2>4 DEF RunIsKept
<1> QED
  BY <1>2, <1>3 DEF AuditInv

\* A restart forgets what is in memory and ends every request at work.
LEMMA RestartStep == ASSUME AuditInv, Restart PROVE AuditInv'
<1>1. /\ run_store' = [r \in Requests |-> NoRun] /\ restarts' = restarts + 1
      /\ request' = [r \in Requests |->
                        IF request[r].pc \in {"idle", "done", "failed"} THEN request[r]
                        ELSE [request[r] EXCEPT !.pc = "failed"]]
      /\ UNCHANGED <<run_files, answered>> /\ restarts \in Nat
  BY DEF Restart, AuditInv, AuditShape
<1>2. ASSUME NEW r \in Requests
      PROVE  RunIsKept(r)' /\ IsRequest(request'[r]) /\ IsAudit(request'[r].run)
  <2> DEFINE q == request[r]
  <2>1. IsRequest(q) /\ IsAudit(q.run) /\ RunIsKept(r)
    BY DEF AuditInv, AuditShape
  <2>2. run_store'[r] = NoRun /\ run_files'[r] = run_files[r] /\ answered'[r] = answered[r]
    BY <1>1
  <2>3. restarts' > 0
    BY <1>1
  <2>4. CASE q.pc \in {"idle", "done", "failed"}
    <3>1. request'[r] = q
      BY <1>1, <2>4
    <3> QED
      BY <2>1, <2>2, <2>3, <2>4, <3>1 DEF RunIsKept, CopiesKept, AnswerKept, CopyOf
  <2>5. CASE q.pc \notin {"idle", "done", "failed"}
    <3> PICK z : z = [q EXCEPT !.pc = "failed"]
      OBVIOUS
    <3>1. request'[r] = z
      BY <1>1, <2>5
    <3>2. z = RequestOf("failed", q.service, q.run, q.attempt, q.asked, q.overdue, q.used)
      BY <2>1, PcMoves
    <3>3. /\ IsRequest(z) /\ z.pc = "failed" /\ z.run = q.run
          /\ z.overdue = q.overdue /\ z.used = q.used
      BY <2>1, <3>2, RequestFields DEF IsRequest
    <3>4. RequestSound(z) /\ (SaysItsReply(q) => SaysItsReply(z))
      BY <2>1, <3>3 DEF RunIsKept, RequestSound, Reviewing, SaysItsReply
    <3>5. CopyOf(z, NoRun) /\ CopyOf(z, run_files[r]) /\ CopyOf(z, answered[r])
      BY <2>1, <3>3, <3>4 DEF RunIsKept, CopiesKept, CopyOf
    <3>6. answered[r] = NoRun
      BY <2>1, <2>5 DEF RunIsKept, AnswerKept
    <3>7. RunIsKept(r)'
      BY <2>2, <2>3, <3>1, <3>3, <3>4, <3>5, <3>6 DEF RunIsKept, CopiesKept, AnswerKept
    <3> QED
      BY <2>1, <3>1, <3>3, <3>7
  <2> QED
    BY <2>4, <2>5
<1>3. AuditShape'
  <2>1. restarts' \in Nat
    BY <1>1
  <2>2. /\ request' = [r \in Requests |-> request'[r]]
        /\ run_store' = [r \in Requests |-> run_store'[r]]
    BY <1>1
  <2> QED
    BY <1>1, <1>2, <2>1, <2>2 DEF AuditInv, AuditShape
<1> QED
  BY <1>2, <1>3 DEF AuditInv

LEMMA AuditStarts == AuditInit => AuditInv
<1> SUFFICES ASSUME AuditInit PROVE AuditInv
  OBVIOUS
<1> USE DEF AuditInit
<1>1. IsAudit(NoRun) /\ NoRun.findings = {}
  BY DEF IsAudit, Audit, NoRun
<1>2. /\ IsRequest(NoRequest) /\ NoRequest.pc = "idle"
      /\ NoRequest.run = NoRun /\ NoRequest.used = "none"
  BY RequestFields DEF IsRequest, RequestOf, NoRequest
<1>3. RequestSound(NoRequest)
  BY <1>1, <1>2 DEF RequestSound, LentFindings
<1>4. ASSUME NEW r \in Requests
      PROVE  RunIsKept(r) /\ IsRequest(request[r]) /\ IsAudit(request[r].run)
  BY <1>1, <1>2, <1>3 DEF RunIsKept, CopiesKept, CopyOf, AnswerKept
<1> QED
  BY <1>4 DEF AuditInv, AuditShape

LEMMA AuditStep == AuditInv /\ [AuditNext]_auditVars => AuditInv'
<1> SUFFICES ASSUME AuditInv, [AuditNext]_auditVars PROVE AuditInv'
  OBVIOUS
<1>1. CASE UNCHANGED <<request, run_store, run_files, answered, restarts>>
  BY <1>1 DEF AuditInv, AuditShape, RunIsKept, CopiesKept, AnswerKept
<1>2. CASE UNCHANGED auditVars
  BY <1>1, <1>2 DEF auditVars
<1>3. ASSUME NEW f \in AuditFiles, FileGoes(f) PROVE AuditInv'
  BY <1>1, <1>3 DEF FileGoes, UNCHANGED_store
<1>4. ASSUME NEW r \in Requests,
             \/ StartAudit(r) \/ CollectFindings(r) \/ Review(r)
             \/ \E service \in Services : StartOther(r, service)
             \/ Submit(r) \/ TimesOut(r) \/ Retry(r) \/ CallEnds(r)
             \/ JudgeAudit(r) \/ JudgeOther(r)
             \/ SaveRun(r) \/ PersistRun(r) \/ AnswerRun(r) \/ ReadRun(r)
      PROVE  AuditInv'
  BY <1>4, StartAuditStep, CollectStep, ReviewStepEnds, StartOtherStep, SubmitStep, TimesOutStep,
     RetryStep, CallEndsStep, JudgeAuditStep, JudgeOtherStep, SavesStep, ReadRunStep
<1> QED
  BY <1>2, <1>3, <1>4, RestartStep DEF AuditNext

\* AnsweredRunIsKept, whatever the requests, replies, files and restarts: a run reads as it was
\* answered, and it says completed, or lists findings of the model, only for a reply in time.
THEOREM AnswersAreKept == AuditSpec => []AnsweredRunIsKept
<1>1. AuditInv => AnsweredRunIsKept
  <2> SUFFICES ASSUME AuditInv, NEW r \in Requests
               PROVE  /\ answered[r] # NoRun =>
                            LoadRun(r) = answered[r] \/ (restarts > 0 /\ run_files[r] = NoRun)
                      /\ LoadRun(r).status = "completed" <=>
                            LoadRun(r) # NoRun /\ request[r].used = "ok" /\ ~request[r].overdue
                      /\ LoadRun(r).findings \intersect {"gemini", "overall"} # {}
                            => request[r].used = "ok"
    BY DEF AnsweredRunIsKept
  <2>1. CopiesKept(r) /\ AnswerKept(r)
    BY DEF AuditInv, RunIsKept
  <2>2. NoRun.status # "completed" /\ NoRun.findings \intersect LentFindings = {}
    BY DEF NoRun
  <2>3. /\ LoadRun(r) \in {run_store[r], run_files[r]}
        /\ run_store[r] # NoRun => LoadRun(r) = run_store[r]
    BY DEF LoadRun, load_run_from_disk
  <2>4. CASE LoadRun(r) = NoRun
    <3>1. run_store[r] = NoRun /\ run_files[r] = NoRun
      BY <2>4 DEF LoadRun, load_run_from_disk
    <3> QED
      BY <2>1, <2>2, <2>4, <3>1 DEF AnswerKept, LentFindings
  <2>5. CASE LoadRun(r) # NoRun
    <3>1. LoadRun(r) = request[r].run /\ SaysItsReply(request[r])
      BY <2>1, <2>3, <2>5 DEF CopiesKept, CopyOf
    <3>2. answered[r] # NoRun => answered[r] = request[r].run
      BY <2>1 DEF CopiesKept, CopyOf
    <3> QED
      BY <2>5, <3>1, <3>2 DEF SaysItsReply, LentFindings
  <2> QED
    BY <2>4, <2>5
<1> QED
  BY <1>1, AuditStarts, AuditStep, PTL DEF AuditSpec

-----------------------------------------------------------------------------
(*****************************************************************************)
(* JobView.  The row of a job says succeeded only after a run has written    *)
(* its artifacts and its last step is on record (RowBacked); what a reader has*)
(* at hand was true when it read it (ViewBacked), and stays so as long as no *)
(* second run was started for it (SoleRun).                                  *)
(*****************************************************************************)
JobRows ==
    [status : {"queued", "running", "succeeded", "failed"},
     final : {"none", "succeeded", "degraded", "failed"}, gate : {"none", "pass", "fail"},
     reason : {"none", "pipeline", "dispatch_timeout"}, root : BOOLEAN]
JobRuns ==
    [pc : {"none", "mark_running", "begin", "work", "write", "written", "mark", "done"},
     step : Nat, hard : BOOLEAN, degraded : BOOLEAN,
     final : {"none", "succeeded", "degraded", "failed"}, gate : {"none", "pass", "fail"}]
StepRows == [Named -> {"none", "running", "succeeded", "skipped", "failed"}]

JobViewTypeOK ==
    /\ jobRow \in JobRows
    /\ stepRows \in [Runs -> StepRows]
    /\ files \in [degradations : {"none", "some", "empty"}, digest : BOOLEAN]
    /\ run \in [Runs -> JobRuns]
    /\ view = [pc |-> view.pc, row |-> view.row, steps |-> view.steps,
               degradations |-> view.degradations, final |-> view.final, gate |-> view.gate,
               index |-> view.index]

LastStep == "write_artifacts"
WroteOnce == \E a \in Runs : stepRows[a][LastStep] = "succeeded"

\* What a run has done by the time it is at a step.
RunSound(r) ==
    /\ run[r].pc \in {"none", "mark_running"} => run[r].step = 1
    /\ run[r].pc \in {"begin", "work", "write"} => run[r].step \in 1..Len(LlmStepNames) + 1
    /\ run[r].pc = "work" => StepOf(r) # LastStep
    /\ stepRows[r][LastStep] = "succeeded" => run[r].pc \in {"mark", "done"}
    /\ run[r].pc = "written" => files.digest
    /\ run[r].pc = "mark" /\ run[r].final # "failed" =>
          /\ run[r].final \in {"succeeded", "degraded"} /\ run[r].gate = "pass"
          /\ files.digest /\ stepRows[r][LastStep] = "succeeded"
    /\ r = 1 => run[r].pc # "none"

\* What a row that says so, now or when it was read, stands for.
RowBacked(entry) ==
    /\ entry.root => files.digest
    /\ entry.status = "succeeded" =>
          entry.gate = "pass" /\ entry.reason = "none" /\ entry.root /\ WroteOnce

ViewBacked ==
    /\ view.pc # "idle" => RowBacked(view.row)
    /\ view.pc \notin {"idle", "steps"} /\ view.row.status = "succeeded" =>
          "succeeded" \in view.steps.written \/ view.steps.written = {}
    /\ view.pc = "done" /\ view.row.status = "succeeded" =>
          "digest" \in view.index /\ view.gate = "pass"

Told(final) == IF final = "degraded" THEN "some" ELSE "empty"

\* As long as no dispatch was taken for lost, the first run is alone.
SoleRun ==
    /\ 1 \in Runs /\ run[1].pc = "written" =>
          files.degradations = IF run[1].degraded THEN "some" ELSE "empty"
    /\ 1 \in Runs /\ run[1].pc = "mark" /\ run[1].final # "failed" =>
          files.degradations = Told(run[1].final)
    /\ jobRow.status = "succeeded" =>
          /\ 1 \in Runs /\ run[1].pc = "done"
          /\ jobRow.final \in {"succeeded", "degraded"}
          /\ files.degradations = Told(jobRow.final)
    /\ view.pc # "idle" /\ view.row.status = "succeeded" =>
          /\ jobRow.status = "succeeded"
          /\ view.pc \in {"final", "index", "done"} => view.degradations = files.degradations
          /\ view.pc \in {"index", "done"} => view.final = jobRow.final

JobViewInv ==
    /\ \A r \in Runs : RunSound(r)
    /\ RowBacked(jobRow)
    /\ jobRow.reason = "dispatch_timeout" => jobRow.status = "failed"
    /\ ViewBacked
    /\ Undisputed => SoleRun

\* The last step of the list writes the artifacts.
LEMMA StepNamesEnd ==
  /\ LlmStepNames \in Seq(STRING) /\ Len(LlmStepNames) \in Nat
  /\ DOMAIN StepNames = 1..Len(LlmStepNames) + 1
  /\ StepNames[Len(LlmStepNames) + 1] = LastStep /\ LastStep \in Named
<1>1. LlmStepNames \in Seq(STRING) /\ Len(LlmStepNames) \in Nat
  BY LlmStepNamesAssumption
<1>2. DOMAIN StepNames = 1..Len(LlmStepNames) + 1 /\ StepNames[Len(LlmStepNames) + 1] = LastStep
  BY <1>1 DEF StepNames, LastStep
<1>3. Len(LlmStepNames) + 1 \in DOMAIN StepNames
  BY <1>1, <1>2
<1> QED
  BY <1>1, <1>2, <1>3 DEF Named

\* A step of one run leaves the others as they are.
LEMMA RunChanged ==
  ASSUME JobViewTypeOK, NEW r \in Runs, NEW z \in JobRuns, run' = [run EXCEPT ![r] = z]
  PROVE  /\ run' \in [Runs -> JobRuns] /\ run'[r] = z
         /\ \A q \in Runs : q # r => run'[q] = run[q]
BY DEF JobViewTypeOK

\* A row of the ledger is written: the last step has succeeded only if it is its row.
LEMMA StepRowChanged ==
  ASSUME JobViewTypeOK, NEW r \in Runs, NEW s,
         NEW v \in {"running", "succeeded", "skipped", "failed"},
         stepRows' = [stepRows EXCEPT ![r][s] = v]
  PROVE  /\ stepRows' \in [Runs -> StepRows]
         /\ \A a \in Runs : a # r => stepRows'[a] = stepRows[a]
         /\ s # LastStep => stepRows'[r][LastStep] = stepRows[r][LastStep]
         /\ s = LastStep => stepRows'[r][LastStep] = v
<1> PICK entry : entry = [stepRows[r] EXCEPT ![s] = v]
  OBVIOUS
<1>1. stepRows[r] \in StepRows
  BY DEF JobViewTypeOK
<1>2. entry \in StepRows
  BY <1>1 DEF StepRows
<1>3. /\ s # LastStep => entry[LastStep] = stepRows[r][LastStep]
      /\ s = LastStep => entry[LastStep] = v
  BY <1>1, StepNamesEnd DEF StepRows
<1>4. stepRows' = [stepRows EXCEPT ![r] = entry]
  BY DEF JobViewTypeOK
<1> HIDE DEF JobViewTypeOK
<1> QED
  BY <1>2, <1>3, <1>4 DEF JobViewTypeOK

\* The types hold by themselves.
LEMMA JobViewTypes == JobViewSpec => []JobViewTypeOK
<1>1. JobViewInit => JobViewTypeOK
  <2> SUFFICES ASSUME JobViewInit PROVE JobViewTypeOK
    OBVIOUS
  <2>1. stepRows \in [Runs -> StepRows]
    BY DEF JobViewInit, StepRows, NoSteps
  <2>2. \A r \in Runs : run[r] \in JobRuns
    BY DEF JobViewInit, JobRuns, Idling
  <2>3. run \in [Runs -> JobRuns]
    BY <2>2 DEF JobViewInit
  <2> QED
    BY <2>1, <2>3 DEF JobViewInit, JobViewTypeOK, JobRows, NoView
<1>2. JobViewTypeOK /\ [JobViewNext]_jobViewVars => JobViewTypeOK'
  <2> SUFFICES ASSUME JobViewTypeOK, [JobViewNext]_jobViewVars PROVE JobViewTypeOK'
    OBVIOUS
  <2> USE DEF JobViewTypeOK
  <2>1. CASE UNCHANGED jobViewVars
    BY <2>1 DEF jobViewVars
  <2>2. ASSUME NEW r \in Runs, MarkRunning(r) PROVE JobViewTypeOK'
    <3>1. CASE jobRow.status = "queued"
      <4>1. PICK hard \in BOOLEAN : run' = [run EXCEPT ![r].pc = "begin", ![r].hard = hard]
        BY <2>2, <3>1 DEF MarkRunning
      <4>2. PICK z : z = [run[r] EXCEPT !.pc = "begin", !.hard = hard]
        OBVIOUS
      <4>3. z \in JobRuns /\ run' = [run EXCEPT ![r] = z]
        BY <4>1, <4>2 DEF JobRuns
      <4>4. run' \in [Runs -> JobRuns]
        BY <4>3, RunChanged
      <4> QED
        BY <2>2, <3>1, <4>4 DEF MarkRunning, JobRows
    <3>2. CASE jobRow.status # "queued"
      <4>1. Done \in JobRuns
        BY DEF Done, Idling, JobRuns
      <4> QED
        BY <2>2, <3>2, <4>1 DEF MarkRunning
    <3> QED
      BY <3>1, <3>2
  <2>3. ASSUME NEW r \in Runs, BeginStep(r) PROVE JobViewTypeOK'
    <3>1. stepRows' \in [Runs -> StepRows]
      BY <2>3, StepRowChanged DEF BeginStep
    <3>2. run' \in [Runs -> JobRuns]
      BY <2>3 DEF BeginStep, JobRuns
    <3> QED
      BY <2>3, <3>1, <3>2 DEF BeginStep
  <2>4. ASSUME NEW r \in Runs, LlmStepEnds(r) PROVE JobViewTypeOK'
    <3>1. PICK status \in {"succeeded", "skipped", "failed"} :
            /\ stepRows' = [stepRows EXCEPT ![r][StepOf(r)] = status]
            /\ run' = [run EXCEPT ![r] =
                  IF status = "failed" /\ run[r].hard THEN Failed(r, "fail")
                  ELSE [run[r] EXCEPT !.pc = "begin", !.step = @ + 1,
                                      !.degraded = @ \/ status = "failed"]]
      BY <2>4 DEF LlmStepEnds
    <3>2. stepRows' \in [Runs -> StepRows]
      BY <3>1, StepRowChanged
    <3>3. Failed(r, "fail") \in JobRuns
      BY DEF Failed, Finish, JobRuns
    <3>4. PICK more \in BOOLEAN : more = (run[r].degraded \/ status = "failed")
      OBVIOUS
    <3>5. PICK z : z = [run[r] EXCEPT !.pc = "begin", !.step = @ + 1, !.degraded = more]
      OBVIOUS
    <3>6. z \in JobRuns
      <4>1. run[r] \in JobRuns
        OBVIOUS
      <4>2. /\ z.pc = "begin" /\ z.step = run[r].step + 1 /\ z.hard = run[r].hard
            /\ z.degraded = more /\ z.final = run[r].final /\ z.gate = run[r].gate
            /\ z = [pc |-> z.pc, step |-> z.step, hard |-> z.hard, degraded |-> z.degraded,
                    final |-> z.final, gate |-> z.gate]
        BY <3>5, <4>1 DEF JobRuns
      <4> HIDE DEF JobViewTypeOK
      <4> QED
        BY <4>1, <4>2 DEF JobRuns
    <3>7. run' = [run EXCEPT ![r] = IF status = "failed" /\ run[r].hard
                                     THEN Failed(r, "fail") ELSE z]
      BY <3>1, <3>4, <3>5
    <3>8. run' \in [Runs -> JobRuns]
      BY <3>3, <3>6, <3>7
    <3> QED
      BY <2>4, <3>2, <3>8 DEF LlmStepEnds
  <2>5. ASSUME NEW r \in Runs, WriteFiles(r) PROVE JobViewTypeOK'
    <3>1. stepRows' \in [Runs -> StepRows]
      <4>1. CASE stepRows' = [stepRows EXCEPT ![r]["write_artifacts"] = "failed"]
        BY <4>1, StepRowChanged
      <4> QED
        BY <2>5, <4>1 DEF WriteFiles
    <3>2. run' \in [Runs -> JobRuns]
      <4>1. CASE run' = [run EXCEPT ![r].pc = "written"]
        BY <4>1 DEF JobRuns
      <4>2. CASE run' = [run EXCEPT ![r] = Failed(r, "pass")]
        BY <4>2 DEF Failed, Finish, JobRuns
      <4> QED
        BY <2>5, <4>1, <4>2 DEF WriteFiles
    <3>3. PICK told \in {"some", "empty"} :
             files' = [degradations |-> told, digest |-> TRUE] \/ UNCHANGED files
      BY <2>5 DEF WriteFiles
    <3>4. files' \in [degradations : {"none", "some", "empty"}, digest : BOOLEAN]
      <4>1. CASE UNCHANGED files
        BY <4>1
      <4>2. PICK yes \in BOOLEAN : yes = TRUE
        OBVIOUS
      <4>3. [degradations |-> told, digest |-> yes]
               \in [degradations : {"none", "some", "empty"}, digest : BOOLEAN]
        OBVIOUS
      <4> QED
        BY <3>3, <4>1, <4>2, <4>3
    <3> QED
      BY <2>5, <3>1, <3>2, <3>4 DEF WriteFiles
  <2>6. ASSUME NEW r \in Runs, ArtifactsWritten(r) PROVE JobViewTypeOK'
    <3>1. stepRows' \in [Runs -> StepRows]
      BY <2>6, StepRowChanged DEF ArtifactsWritten
    <3>2. PICK final \in {"degraded", "succeeded"} :
            run' = [run EXCEPT ![r] = Finish(r, final, "pass")]
      BY <2>6 DEF ArtifactsWritten
    <3>3. run' \in [Runs -> JobRuns]
      BY <3>2 DEF Finish, JobRuns
    <3> QED
      BY <2>6, <3>1, <3>3 DEF ArtifactsWritten
  <2>7. ASSUME NEW r \in Runs, PipelineLost(r) PROVE JobViewTypeOK'
    BY <2>7 DEF PipelineLost, Failed, Finish, JobRuns
  <2>8. ASSUME NEW r \in Runs, MarkStatus(r) PROVE JobViewTypeOK'
    BY <2>8 DEF MarkStatus, JobRuns, JobRows, Done, Idling
  <2>9. ASSUME NEW r \in Runs, DispatchTimesOut(r) PROVE JobViewTypeOK'
    BY <2>9 DEF DispatchTimesOut, JobRows
  <2>10. ASSUME NEW r \in Runs, Requeue(r) PROVE JobViewTypeOK'
    <3>1. run' \in [Runs -> JobRuns]
      BY <2>10 DEF Requeue, JobRuns
    <3>2. jobRow' \in JobRows
      BY <2>10 DEF Requeue, JobRows
    <3> QED
      BY <2>10, <3>1, <3>2 DEF Requeue
  <2>11. CASE ReadRow
    BY <2>11 DEF ReadRow
  <2>12. CASE ReadSteps
    BY <2>12 DEF ReadSteps
  <2>13. CASE ReadDegradations
    BY <2>13 DEF ReadDegradations
  <2>14. CASE ReadFinal
    BY <2>14 DEF ReadFinal
  <2>15. CASE ReadIndex
    BY <2>15 DEF ReadIndex
  <2> QED
    BY <2>1, <2>2, <2>3, <2>4, <2>5, <2>6, <2>7, <2>8, <2>9, <2>10, <2>11, <2>12, <2>13, <2>14,
       <2>15 DEF JobViewNext
<1> QED
  BY <1>1, <1>2, PTL DEF JobViewSpec

\* What every step of a run leaves to show but that nothing of another run is disturbed.
LEMMA RunStepKeeps ==
  ASSUME JobViewInv, NEW r \in Runs, UNCHANGED view,
         \A q \in Runs : q # r => run'[q] = run[q] /\ stepRows'[q] = stepRows[q],
         files.digest => files'.digest,
         stepRows[r][LastStep] = "succeeded" => stepRows'[r][LastStep] = "succeeded",
         RunSound(r)', RowBacked(jobRow)',
         jobRow'.reason = "dispatch_timeout" => jobRow'.status = "failed",
         (Undisputed => SoleRun)'
  PROVE  JobViewInv'
<1>1. WroteOnce => WroteOnce'
  BY DEF WroteOnce
<1>2. \A entry : RowBacked(entry) => (entry.root => files'.digest)
                 /\ (entry.status = "succeeded" => entry.gate = "pass" /\ entry.reason = "none"
                                                   /\ entry.root /\ WroteOnce')
  BY <1>1 DEF RowBacked
<1>3. ViewBacked'
  BY <1>2 DEF JobViewInv, ViewBacked, RowBacked
<1>4. ASSUME NEW q \in Runs PROVE RunSound(q)'
  <2>1. CASE q = r
    BY <2>1
  <2>2. CASE q # r
    <3>1. run'[q] = run[q] /\ stepRows'[q] = stepRows[q] /\ RunSound(q)
      BY <2>2 DEF JobViewInv
    <3> QED
      BY <3>1 DEF RunSound, StepOf
  <2> QED
    BY <2>1, <2>2
<1> QED
  BY <1>3, <1>4 DEF JobViewInv

\* Only the first run can be at work as long as nothing is in dispute.
LEMMA SoleStep ==
  ASSUME JobViewInv, NEW r \in Runs, UNCHANGED view,
         \A q \in Runs : q # r => run'[q] = run[q],
         run[r].pc \notin {"none", "done"}, run'[r].pc # "none",
         jobRow.reason = "dispatch_timeout" => jobRow'.reason = "dispatch_timeout",
         r = 1 /\ SoleRun =>
            /\ run'[1].pc = "written" =>
                  files'.degradations = IF run'[1].degraded THEN "some" ELSE "empty"
            /\ run'[1].pc = "mark" /\ run'[1].final # "failed" =>
                  files'.degradations = Told(run'[1].final)
            /\ jobRow'.status = "succeeded" /\ jobRow.status # "succeeded" =>
                  /\ run'[1].pc = "done"
                  /\ jobRow'.final \in {"succeeded", "degraded"}
                  /\ files'.degradations = Told(jobRow'.final)
  PROVE  (Undisputed => SoleRun)'
<1> SUFFICES ASSUME Undisputed' PROVE SoleRun'
  OBVIOUS
<1>1. r = 1
  BY DEF Undisputed
<1>2. Undisputed
  BY <1>1 DEF Undisputed
<1>3. SoleRun
  BY <1>2 DEF JobViewInv
<1>4. jobRow.status # "succeeded"
  BY <1>1, <1>3 DEF SoleRun
<1>5. view.pc # "idle" => view.row.status # "succeeded"
  BY <1>3, <1>4 DEF SoleRun
<1> QED
  BY <1>1, <1>3, <1>4, <1>5 DEF SoleRun, Told

LEMMA MarkRunningKeeps ==
  ASSUME JobViewTypeOK, JobViewInv, NEW r \in Runs, MarkRunning(r)
  PROVE  JobViewInv'
<1>1. run[r].pc = "mark_running" /\ UNCHANGED <<stepRows, files, view>>
  BY DEF MarkRunning
<1>2. RunSound(r) /\ stepRows[r][LastStep] # "succeeded" /\ run[r].step = 1
  BY <1>1 DEF JobViewInv, RunSound
<1>3. PICK pc \in {"begin", "done"} :
         /\ run'[r].pc = pc /\ run'[r].step = 1
         /\ \A q \in Runs : q # r => run'[q] = run[q]
         /\ pc = "begin" => jobRow'.status = "running" /\ jobRow'.reason = jobRow.reason
                              /\ jobRow'.root = jobRow.root
         /\ pc = "done" => UNCHANGED jobRow
         /\ pc = "begin" => jobRow.status = "queued"
  <2>1. CASE jobRow.status = "queued"
    <3>1. PICK hard \in BOOLEAN : run' = [run EXCEPT ![r].pc = "begin", ![r].hard = hard]
      BY <2>1 DEF MarkRunning
    <3>2. jobRow' = [jobRow EXCEPT !.status = "running"]
      BY <2>1 DEF MarkRunning
    <3>3. jobRow'.status = "running" /\ jobRow'.reason = jobRow.reason /\ jobRow'.root = jobRow.root
      BY <3>2 DEF JobViewTypeOK, JobRows
    <3>4. /\ run'[r].pc = "begin" /\ run'[r].step = run[r].step
          /\ \A q \in Runs : q # r => run'[q] = run[q]
      BY <3>1 DEF JobViewTypeOK, JobRuns
    <3> QED
      BY <1>2, <2>1, <3>3, <3>4
  <2>2. CASE jobRow.status # "queued"
    <3>1. run' = [run EXCEPT ![r] = Done] /\ UNCHANGED jobRow
      BY <2>2 DEF MarkRunning
    <3>2. Done.pc = "done" /\ Done.step = 1
      BY DEF Done, Idling
    <3> QED
      BY <3>1, <3>2 DEF JobViewTypeOK
  <2> QED
    BY <2>1, <2>2
<1>4. RunSound(r)'
  BY <1>1, <1>2, <1>3, StepNamesEnd DEF RunSound
<1>5. RowBacked(jobRow)' /\ (jobRow'.reason = "dispatch_timeout" => jobRow'.status = "failed")
  BY <1>1, <1>3 DEF JobViewInv, RowBacked, WroteOnce
<1>6. (Undisputed => SoleRun)'
  BY <1>1, <1>3, SoleStep
<1> QED
  BY <1>1, <1>2, <1>3, <1>4, <1>5, <1>6, RunStepKeeps

LEMMA BeginStepKeeps ==
  ASSUME JobViewTypeOK, JobViewInv, NEW r \in Runs, BeginStep(r)
  PROVE  JobViewInv'
<1>1. run[r].pc = "begin" /\ UNCHANGED <<jobRow, files, view>>
  BY DEF BeginStep
<1>2. RunSound(r) /\ stepRows[r][LastStep] # "succeeded" /\ run[r].step \in 1..Len(LlmStepNames) + 1
  BY <1>1 DEF JobViewInv, RunSound
<1>3. /\ \A a \in Runs : a # r => stepRows'[a] = stepRows[a]
      /\ stepRows'[r][LastStep] # "succeeded"
  <2>1. stepRows' = [stepRows EXCEPT ![r][StepOf(r)] = "running"]
    BY DEF BeginStep
  <2> QED
    BY <1>2, <2>1, StepRowChanged
<1>4. PICK pc \in {"write", "work"} :
         /\ run'[r].pc = pc /\ run'[r].step = run[r].step
         /\ \A q \in Runs : q # r => run'[q] = run[q]
         /\ pc = "work" => StepOf(r) # LastStep
  BY DEF BeginStep, JobViewTypeOK, JobRuns, LastStep
<1>5. RunSound(r)'
  BY <1>1, <1>2, <1>3, <1>4 DEF RunSound, StepOf
<1>6. RowBacked(jobRow)' /\ (jobRow'.reason = "dispatch_timeout" => jobRow'.status = "failed")
  BY <1>1, <1>2, <1>3 DEF JobViewInv, RowBacked, WroteOnce
<1>7. (Undisputed => SoleRun)'
  BY <1>1, <1>4, SoleStep
<1> QED
  BY <1>1, <1>2, <1>3, <1>4, <1>5, <1>6, <1>7, RunStepKeeps

LEMMA LlmStepEndsKeeps ==
  ASSUME JobViewTypeOK, JobViewInv, NEW r \in Runs, LlmStepEnds(r)
  PROVE  JobViewInv'
<1>1. run[r].pc = "work" /\ UNCHANGED <<jobRow, files, view>>
  BY DEF LlmStepEnds
<1>2. /\ RunSound(r) /\ stepRows[r][LastStep] # "succeeded" /\ StepOf(r) # LastStep
      /\ run[r].step \in 1..Len(LlmStepNames) + 1
  BY <1>1 DEF JobViewInv, RunSound
<1>3. PICK status \in {"succeeded", "skipped", "failed"} :
          /\ stepRows' = [stepRows EXCEPT ![r][StepOf(r)] = status]
          /\ run' = [run EXCEPT ![r] =
                IF status = "failed" /\ run[r].hard THEN Failed(r, "fail")
                ELSE [run[r] EXCEPT !.pc = "begin", !.step = @ + 1,
                                    !.degraded = @ \/ status = "failed"]]
  BY DEF LlmStepEnds
<1>4. /\ \A a \in Runs : a # r => stepRows'[a] = stepRows[a]
      /\ stepRows'[r][LastStep] # "succeeded"
  BY <1>2, <1>3, StepRowChanged
<1>5. PICK pc \in {"mark", "begin"} :
         /\ run'[r].pc = pc
         /\ pc = "mark" => run'[r].final = "failed"
         /\ pc = "begin" => run'[r].step = run[r].step + 1
         /\ \A q \in Runs : q # r => run'[q] = run[q]
  <2>1. CASE status = "failed" /\ run[r].hard
    BY <1>3, <2>1 DEF Failed, Finish, JobViewTypeOK, JobRuns
  <2>2. CASE ~(status = "failed" /\ run[r].hard)
    BY <1>3, <2>2 DEF JobViewTypeOK, JobRuns
  <2> QED
    BY <2>1, <2>2
<1>6. run[r].step + 1 \in 1..Len(LlmStepNames) + 1
  <2>1. run[r].step # Len(LlmStepNames) + 1
    BY <1>2, StepNamesEnd DEF StepOf
  <2> QED
    BY <1>2, <2>1, StepNamesEnd
<1>7. RunSound(r)'
  BY <1>1, <1>2, <1>4, <1>5, <1>6 DEF RunSound
<1>8. RowBacked(jobRow)' /\ (jobRow'.reason = "dispatch_timeout" => jobRow'.status = "failed")
  BY <1>1, <1>2, <1>4 DEF JobViewInv, RowBacked, WroteOnce
<1>9. (Undisputed => SoleRun)'
  BY <1>1, <1>5, SoleStep
<1> QED
  BY <1>1, <1>2, <1>4, <1>5, <1>7, <1>8, <1>9, RunStepKeeps

LEMMA WriteFilesKeeps ==
  ASSUME JobViewTypeOK, JobViewInv, NEW r \in Runs, WriteFiles(r)
  PROVE  JobViewInv'
<1>1. run[r].pc = "write" /\ UNCHANGED <<jobRow, view>>
  BY DEF WriteFiles
<1>2. RunSound(r) /\ stepRows[r][LastStep] # "succeeded"
  BY <1>1 DEF JobViewInv, RunSound
<1>3. PICK pc \in {"written", "mark"} :
         /\ run'[r].pc = pc
         /\ pc = "mark" => run'[r].final = "failed" /\ UNCHANGED files
         /\ pc = "written" => /\ run'[r].degraded = run[r].degraded
                               /\ files'.digest
                               /\ files'.degradations = IF run[r].degraded THEN "some" ELSE "empty"
         /\ \A q \in Runs : q # r => run'[q] = run[q] /\ stepRows'[q] = stepRows[q]
         /\ stepRows'[r][LastStep] # "succeeded"
  <2>1. CASE /\ files' = [degradations |-> IF run[r].degraded THEN "some" ELSE "empty",
                           digest |-> TRUE]
             /\ run' = [run EXCEPT ![r].pc = "written"]
             /\ UNCHANGED stepRows
    <3>1. files'.digest /\ files'.degradations = IF run[r].degraded THEN "some" ELSE "empty"
      BY <2>1
    <3>2. /\ run'[r].pc = "written" /\ run'[r].degraded = run[r].degraded
          /\ \A q \in Runs : q # r => run'[q] = run[q]
      BY <2>1 DEF JobViewTypeOK, JobRuns
    <3> QED
      BY <1>2, <2>1, <3>1, <3>2
  <2>2. CASE /\ stepRows' = [stepRows EXCEPT ![r]["write_artifacts"] = "failed"]
             /\ run' = [run EXCEPT ![r] = Failed(r, "pass")]
             /\ UNCHANGED files
    <3>1. /\ \A a \in Runs : a # r => stepRows'[a] = stepRows[a]
          /\ stepRows'[r][LastStep] # "succeeded"
      BY <1>2, <2>2, StepRowChanged DEF LastStep
    <3>2. /\ run'[r].pc = "mark" /\ run'[r].final = "failed"
          /\ \A q \in Runs : q # r => run'[q] = run[q]
      BY <2>2 DEF Failed, Finish, JobViewTypeOK, JobRuns
    <3> QED
      BY <2>2, <3>1, <3>2
  <2> QED
    BY <2>1, <2>2 DEF WriteFiles
<1>4. RunSound(r)'
  BY <1>1, <1>2, <1>3 DEF RunSound
<1>5. RowBacked(jobRow)' /\ (jobRow'.reason = "dispatch_timeout" => jobRow'.status = "failed")
  BY <1>1, <1>2, <1>3 DEF JobViewInv, RowBacked, WroteOnce
<1>6. (Undisputed => SoleRun)'
  BY <1>1, <1>3, SoleStep
<1> QED
  BY <1>1, <1>2, <1>3, <1>4, <1>5, <1>6, RunStepKeeps

LEMMA ArtifactsWrittenKeeps ==
  ASSUME JobViewTypeOK, JobViewInv, NEW r \in Runs, ArtifactsWritten(r)
  PROVE  JobViewInv'
<1>1. run[r].pc = "written" /\ UNCHANGED <<jobRow, files, view>>
  BY DEF ArtifactsWritten
<1>2. RunSound(r) /\ stepRows[r][LastStep] # "succeeded" /\ files.digest
  BY <1>1 DEF JobViewInv, RunSound
<1>3. /\ stepRows'[r][LastStep] = "succeeded"
      /\ \A a \in Runs : a # r => stepRows'[a] = stepRows[a]
  BY StepRowChanged DEF ArtifactsWritten, LastStep
<1>4. /\ run'[r].pc = "mark" /\ run'[r].gate = "pass"
      /\ run'[r].final = IF run[r].degraded THEN "degraded" ELSE "succeeded"
      /\ \A q \in Runs : q # r => run'[q] = run[q]
  <2>1. PICK final : /\ final = IF run[r].degraded THEN "degraded" ELSE "succeeded"
                     /\ run' = [run EXCEPT ![r] = Finish(r, final, "pass")]
    BY DEF ArtifactsWritten
  <2>2. /\ run'[r].pc = "mark" /\ run'[r].gate = "pass" /\ run'[r].final = final
        /\ \A q \in Runs : q # r => run'[q] = run[q]
    BY <2>1 DEF Finish, JobViewTypeOK, JobRuns
  <2> QED
    BY <2>1, <2>2
<1>5. RunSound(r)'
  BY <1>1, <1>2, <1>3, <1>4 DEF RunSound
<1>6. RowBacked(jobRow)' /\ (jobRow'.reason = "dispatch_timeout" => jobRow'.status = "failed")
  BY <1>1, <1>2, <1>3 DEF JobViewInv, RowBacked, WroteOnce
<1>7. (Undisputed => SoleRun)'
  <2>1. r = 1 /\ SoleRun => files.degradations = Told(run'[1].final)
    BY <1>1, <1>4 DEF SoleRun, Told
  <2> QED
    BY <1>1, <1>4, <2>1, SoleStep
<1> QED
  BY <1>1, <1>2, <1>3, <1>4, <1>5, <1>6, <1>7, RunStepKeeps

LEMMA PipelineLostKeeps ==
  ASSUME JobViewTypeOK, JobViewInv, NEW r \in Runs, PipelineLost(r)
  PROVE  JobViewInv'
<1>1. /\ run[r].pc \in {"begin", "work", "write", "written"}
      /\ UNCHANGED <<jobRow, stepRows, files, view>>
  BY DEF PipelineLost
<1>2. RunSound(r) /\ stepRows[r][LastStep] # "succeeded"
  BY <1>1 DEF JobViewInv, RunSound
<1>3. /\ run'[r].pc = "mark" /\ run'[r].final = "failed"
      /\ \A q \in Runs : q # r => run'[q] = run[q]
  BY DEF PipelineLost, Failed, Finish, JobViewTypeOK, JobRuns
<1>4. RunSound(r)'
  BY <1>1, <1>2, <1>3 DEF RunSound
<1>5. RowBacked(jobRow)' /\ (jobRow'.reason = "dispatch_timeout" => jobRow'.status = "failed")
  BY <1>1 DEF JobViewInv, RowBacked, WroteOnce
<1>6. (Undisputed => SoleRun)'
  BY <1>1, <1>3, SoleStep
<1> QED
  BY <1>1, <1>2, <1>3, <1>4, <1>5, <1>6, RunStepKeeps

LEMMA MarkStatusKeeps ==
  ASSUME JobViewTypeOK, JobViewInv, NEW r \in Runs, MarkStatus(r)
  PROVE  JobViewInv'
<1>1. run[r].pc = "mark" /\ UNCHANGED <<stepRows, files, view>>
  BY DEF MarkStatus
<1>2. RunSound(r)
  BY DEF JobViewInv
<1>3. /\ run'[r].pc = "done" /\ \A q \in Runs : q # r => run'[q] = run[q]
  <2>1. Done.pc = "done"
    BY DEF Done, Idling
  <2> QED
    BY <2>1 DEF MarkStatus, JobViewTypeOK
<1>4. \/ UNCHANGED jobRow
      \/ /\ jobRow.status \in {"queued", "running"} /\ run[r].final = "failed"
         /\ jobRow'.status = "failed" /\ jobRow'.reason = "pipeline"
         /\ jobRow'.root => jobRow.root
      \/ /\ jobRow.status \in {"queued", "running"} /\ run[r].final # "failed"
         /\ jobRow'.status = "succeeded" /\ jobRow'.reason = "none" /\ jobRow'.root
         /\ jobRow'.final = run[r].final /\ jobRow'.gate = run[r].gate
  <2>1. CASE jobRow.status \in {"queued", "running"}
    <3>1. jobRow' = [status |-> IF run[r].final = "failed" THEN "failed" ELSE "succeeded",
                     final |-> run[r].final, gate |-> run[r].gate,
                     reason |-> IF run[r].final = "failed" THEN "pipeline" ELSE "none",
                     root |-> jobRow.root \/ run[r].final # "failed"]
      BY <2>1 DEF MarkStatus
    <3>2. CASE run[r].final = "failed"
      BY <2>1, <3>1, <3>2
    <3>3. CASE run[r].final # "failed"
      BY <2>1, <3>1, <3>3
    <3> QED
      BY <3>2, <3>3
  <2>2. CASE jobRow.status \notin {"queued", "running"}
    BY <2>2 DEF MarkStatus
  <2> QED
    BY <2>1, <2>2
<1>5. RunSound(r)'
  BY <1>1, <1>2, <1>3 DEF RunSound
<1>6. RowBacked(jobRow)' /\ (jobRow'.reason = "dispatch_timeout" => jobRow'.status = "failed")
  BY <1>1, <1>2, <1>4 DEF JobViewInv, RowBacked, RunSound, WroteOnce
<1>7. (Undisputed => SoleRun)'
  <2>1. jobRow.reason = "dispatch_timeout" => jobRow'.reason = "dispatch_timeout"
    BY <1>4 DEF JobViewInv
  <2>2. r = 1 /\ SoleRun /\ jobRow'.status = "succeeded" /\ jobRow.status # "succeeded" =>
           jobRow'.final \in {"succeeded", "degraded"} /\ files'.degradations = Told(jobRow'.final)
    BY <1>1, <1>2, <1>4 DEF SoleRun, RunSound
  <2> QED
    BY <1>1, <1>3, <2>1, <2>2, SoleStep
<1> QED
  BY <1>1, <1>3, <1>5, <1>6, <1>7, RunStepKeeps

LEMMA DispatchKeeps ==
  ASSUME JobViewTypeOK, JobViewInv, NEW r \in Runs, DispatchTimesOut(r) \/ Requeue(r)
  PROVE  JobViewInv'
<1>1. CASE DispatchTimesOut(r)
  <2>1. /\ jobRow' = [jobRow EXCEPT !.status = "failed", !.final = "failed",
                                    !.reason = "dispatch_timeout"]
        /\ UNCHANGED <<stepRows, files, run, view>>
    BY <1>1 DEF DispatchTimesOut
  <2>2. /\ jobRow'.status = "failed" /\ jobRow'.reason = "dispatch_timeout"
        /\ jobRow'.root = jobRow.root
    BY <2>1 DEF JobViewTypeOK, JobRows
  <2>3. RowBacked(jobRow)'
    BY <2>1, <2>2 DEF JobViewInv, RowBacked
  <2>4. RunSound(r)'
    BY <2>1 DEF JobViewInv, RunSound, StepOf
  <2>5. ~Undisputed'
    BY <2>2 DEF Undisputed
  <2> QED
    BY <2>1, <2>2, <2>3, <2>4, <2>5, RunStepKeeps
<1>2. CASE Requeue(r)
  <2>1. /\ run[r].pc = "none" /\ UNCHANGED <<stepRows, files, view>>
        /\ jobRow' = [jobRow EXCEPT !.status = "queued", !.final = "none", !.gate = "none",
                                    !.reason = "none"]
        /\ run' = [run EXCEPT ![r].pc = "mark_running"]
    BY <1>2 DEF Requeue
  <2>2. jobRow'.status = "queued" /\ jobRow'.reason = "none" /\ jobRow'.root = jobRow.root
    BY <2>1 DEF JobViewTypeOK, JobRows
  <2>3. /\ run'[r].pc = "mark_running" /\ run'[r].step = run[r].step
        /\ \A q \in Runs : q # r => run'[q] = run[q]
    BY <2>1 DEF JobViewTypeOK, JobRuns
  <2>4. RunSound(r) /\ r # 1
    BY <2>1 DEF JobViewInv, RunSound
  <2>5. RunSound(r)'
    BY <2>1, <2>3, <2>4 DEF RunSound
  <2>6. RowBacked(jobRow)'
    BY <2>1, <2>2 DEF JobViewInv, RowBacked
  <2>7. ~Undisputed'
    BY <2>3, <2>4 DEF Undisputed
  <2> QED
    BY <2>1, <2>2, <2>3, <2>5, <2>6, <2>7, RunStepKeeps
<1> QED
  BY <1>1, <1>2

\* A read of the request moves the view alone.
LEMMA ViewStep ==
  ASSUME JobViewInv, UNCHANGED <<jobRow, stepRows, files, run>>, ViewBacked',
         SoleRun => SoleRun'
  PROVE  JobViewInv'
<1>1. \A r \in Runs : RunSound(r)'
  BY DEF JobViewInv, RunSound, StepOf
<1>2. Undisputed' => Undisputed
  BY DEF Undisputed
<1>3. RowBacked(jobRow)' /\ (jobRow'.reason = "dispatch_timeout" => jobRow'.status = "failed")
  BY DEF JobViewInv, RowBacked, WroteOnce
<1> QED
  BY <1>1, <1>2, <1>3 DEF JobViewInv

LEMMA ReadKeeps ==
  ASSUME JobViewTypeOK, JobViewInv,
         ReadRow \/ ReadSteps \/ ReadDegradations \/ ReadFinal \/ ReadIndex
  PROVE  JobViewInv'
<1> DEFINE Same == UNCHANGED <<jobRow, stepRows, files, run>>
<1>1. Same /\ (WroteOnce' <=> WroteOnce)
  BY DEF ReadRow, ReadSteps, ReadDegradations, ReadFinal, ReadIndex, WroteOnce
<1>2. \A entry : RowBacked(entry) =>
         /\ entry.root => files'.digest
         /\ entry.status = "succeeded" =>
               entry.gate = "pass" /\ entry.reason = "none" /\ entry.root /\ WroteOnce'
  BY <1>1 DEF RowBacked
<1>3. RowBacked(jobRow) /\ ViewBacked
  BY DEF JobViewInv
<1>4. CASE ReadRow
  <2>1. view'.pc = "steps" /\ view'.row = jobRow
    BY <1>4 DEF ReadRow, JobViewTypeOK
  <2>2. ViewBacked'
    BY <1>2, <1>3, <2>1 DEF ViewBacked, RowBacked
  <2>3. SoleRun => SoleRun'
    BY <1>1, <2>1 DEF SoleRun
  <2> QED
    BY <1>1, <2>2, <2>3, ViewStep
<1>5. CASE ReadSteps
  <2>1. PICK rows \in {Seen, [llm |-> {}, written |-> {}]} :
           view' = [view EXCEPT !.pc = "degradations", !.steps = rows]
    BY <1>5 DEF ReadSteps
  <2>2. view.pc = "steps" /\ view'.pc = "degradations" /\ view'.row = view.row /\ view'.steps = rows
    BY <1>5, <2>1 DEF ReadSteps, JobViewTypeOK
  <2>3. WroteOnce => "succeeded" \in Seen.written
    BY DEF WroteOnce, Seen, Statuses, LastStep
  <2>4. view.row.status = "succeeded" => "succeeded" \in rows.written \/ rows.written = {}
    BY <1>3, <2>2, <2>3 DEF ViewBacked, RowBacked
  <2>5. ViewBacked'
    BY <1>2, <1>3, <2>2, <2>4 DEF ViewBacked, RowBacked
  <2>6. SoleRun => SoleRun'
    BY <1>1, <2>2 DEF SoleRun
  <2> QED
    BY <1>1, <2>5, <2>6, ViewStep
<1>6. CASE ReadDegradations
  <2>1. PICK d : /\ view' = [view EXCEPT !.pc = "final", !.degradations = d]
                 /\ view.row.root /\ files.degradations # "none" => d = files.degradations
    BY <1>6 DEF ReadDegradations
  <2>2. /\ view.pc = "degradations" /\ view'.pc = "final" /\ view'.row = view.row
        /\ view'.steps = view.steps /\ view'.degradations = d
    BY <1>6, <2>1 DEF ReadDegradations, JobViewTypeOK
  <2>3. ViewBacked'
    BY <1>2, <1>3, <2>2 DEF ViewBacked, RowBacked
  <2>4. SoleRun => SoleRun'
    BY <1>1, <1>3, <2>1, <2>2 DEF SoleRun, ViewBacked, RowBacked, Told
  <2> QED
    BY <1>1, <2>3, <2>4, ViewStep
<1>7. CASE ReadFinal
  <2>1. /\ view.pc = "final" /\ view'.pc = "index" /\ view'.row = view.row
        /\ view'.steps = view.steps /\ view'.degradations = view.degradations
        /\ view'.final = get_pipeline_final_status
    BY <1>7 DEF ReadFinal, JobViewTypeOK
  <2>2. jobRow.final \in {"succeeded", "degraded"} => view'.final = jobRow.final
    BY <2>1 DEF get_pipeline_final_status
  <2>3. ViewBacked'
    BY <1>2, <1>3, <2>1 DEF ViewBacked, RowBacked
  <2>4. SoleRun => SoleRun'
    BY <1>1, <2>1, <2>2 DEF SoleRun
  <2> QED
    BY <1>1, <2>3, <2>4, ViewStep
<1>8. CASE ReadIndex
  <2>1. PICK i : i = IF ArtifactsFromSteps # {} THEN ArtifactsFromSteps ELSE ArtifactsOnDisk
    OBVIOUS
  <2>2. PICK g : g = resolve_llm_gate_fields
    OBVIOUS
  <2>3. view.pc = "index"
        /\ view' = [view EXCEPT !.pc = "done", !.row = view.row, !.gate = g, !.index = i]
    BY <1>8, <2>1, <2>2 DEF ReadIndex, RowShown
  <2>4. /\ view'.pc = "done" /\ view'.row = view.row /\ view'.steps = view.steps
        /\ view'.degradations = view.degradations /\ view'.final = view.final
        /\ view'.gate = g /\ view'.index = i
    BY <2>3 DEF JobViewTypeOK
  <2>5. view.row.status = "succeeded" => g = "pass" /\ "digest" \in i
    <3> SUFFICES ASSUME view.row.status = "succeeded" PROVE g = "pass" /\ "digest" \in i
      OBVIOUS
    <3>1. view.row.gate = "pass" /\ view.row.root /\ files.digest
      BY <1>3, <2>3 DEF ViewBacked, RowBacked
    <3>2. ArtifactsOnDisk = {"meta", "digest"}
      BY <3>1 DEF ArtifactsOnDisk
    <3>3. ArtifactsFromSteps \in {{"meta", "digest"}, {}}
      BY DEF ArtifactsFromSteps
    <3>4. g = "pass"
      BY <2>2, <3>1 DEF resolve_llm_gate_fields
    <3> QED
      BY <2>1, <3>2, <3>3, <3>4
  <2>6. ViewBacked'
    BY <1>2, <1>3, <2>3, <2>4, <2>5 DEF ViewBacked, RowBacked
  <2>7. SoleRun => SoleRun'
    BY <1>1, <2>3, <2>4 DEF SoleRun
  <2> QED
    BY <1>1, <2>6, <2>7, ViewStep
<1> QED
  BY <1>4, <1>5, <1>6, <1>7, <1>8

LEMMA JobViewStarts == JobViewInit => JobViewInv
<1> SUFFICES ASSUME JobViewInit PROVE JobViewInv
  OBVIOUS
<1>1. \A r \in Runs : /\ run[r].pc = IF r = 1 THEN "mark_running" ELSE "none"
                      /\ run[r].step = 1
  BY DEF JobViewInit, Idling
<1>2. \A r \in Runs : stepRows[r][LastStep] # "succeeded"
  BY StepNamesEnd DEF JobViewInit, NoSteps
<1>3. \A r \in Runs : RunSound(r)
  BY <1>1, <1>2 DEF RunSound
<1>4. /\ jobRow.status = "queued" /\ jobRow.reason = "none" /\ ~jobRow.root /\ view.pc = "idle"
  BY DEF JobViewInit, NoView
<1>5. RowBacked(jobRow) /\ ViewBacked
  BY <1>4 DEF RowBacked, ViewBacked
<1>6. SoleRun
  BY <1>1, <1>4 DEF SoleRun
<1> QED
  BY <1>3, <1>4, <1>5, <1>6 DEF JobViewInv

LEMMA JobViewKeeps == JobViewTypeOK /\ JobViewInv /\ [JobViewNext]_jobViewVars => JobViewInv'
<1> SUFFICES ASSUME JobViewTypeOK, JobViewInv, [JobViewNext]_jobViewVars PROVE JobViewInv'
  OBVIOUS
<1>1. CASE UNCHANGED jobViewVars
  <2>1. UNCHANGED <<jobRow, stepRows, files, run, view>>
    BY <1>1 DEF jobViewVars
  <2>2. ViewBacked'
    BY <2>1 DEF JobViewInv, ViewBacked, RowBacked, WroteOnce
  <2>3. SoleRun => SoleRun'
    BY <2>1 DEF SoleRun
  <2> QED
    BY <2>1, <2>2, <2>3, ViewStep
<1>2. ASSUME NEW r \in Runs,
             \/ MarkRunning(r) \/ BeginStep(r) \/ LlmStepEnds(r) \/ WriteFiles(r)
             \/ ArtifactsWritten(r) \/ PipelineLost(r) \/ MarkStatus(r)
             \/ DispatchTimesOut(r) \/ Requeue(r)
      PROVE  JobViewInv'
  BY <1>2, MarkRunningKeeps, BeginStepKeeps, LlmStepEndsKeeps, WriteFilesKeeps,
     ArtifactsWrittenKeeps, PipelineLostKeeps, MarkStatusKeeps, DispatchKeeps
<1> QED
  BY <1>1, <1>2, ReadKeeps DEF JobViewNext

\* SucceededViewIsWhole, whatever the runs and the steps: a reader who is told a job succeeded is
\* shown its digest, its gate and what it degraded.
THEOREM SucceededIsShownWhole == JobViewSpec => []SucceededViewIsWhole
<1>1. JobViewInv => SucceededViewIsWhole
  BY DEF JobViewInv, SucceededViewIsWhole, ViewBacked, RowBacked, SoleRun, Told
<1> QED
  BY <1>1, JobViewTypes, JobViewStarts, JobViewKeeps, PTL DEF JobViewSpec

-----------------------------------------------------------------------------
(*****************************************************************************)
(* DigestFeed.  A page lists what lies below the cursor, newest first, and   *)
(* its texts in that order (PageOf); so what it leaves out is older than the *)
(* last row of a full page, with which the client comes back.                *)
(*****************************************************************************)
Cursors == [ts : Nat, id : Nat]

ReaderInv ==
    /\ row \in [Rows -> [ts : Nat, done : BOOLEAN, summary : BOOLEAN]]
    /\ walk.cursor \in Cursors
    /\ walk.pc = "idle" => walk.cursor = Nowhere

\* What FeedPagesFit says of one answer.
AnswerFits(answer, filter, cursor) ==
    /\ \A i, j \in DOMAIN answer.page : i < j => Older(answer.page[j], answer.page[i])
    /\ \A p \in ToSet(answer.page) : /\ cursor # Nowhere => Older(p, cursor)
                                     /\ p.id \in InFeed(filter) /\ Shown(p.id)
    /\ answer.more => \A j \in InFeed(filter) :
          Shown(j) /\ (cursor = Nowhere \/ Older(Position(j), cursor))
             => Position(j) \in ToSet(answer.page) \/ Older(Position(j), answer.cursor)

\* Rows are in an order of their own, none with another.
LEMMA NewerIsStrict ==
  ASSUME ReaderInv, NEW A, A \subseteq Rows
  PROVE  /\ IsFiniteSet(A) /\ StrictOrder(A, Newer(A))
         /\ \A i, j \in A : <<i, j>> \in Newer(A) => Older(Position(j), Position(i))
<1> DEFINE newer(i, j) == Below(Position(j), Position(i))
<1>1. \A i \in A : i \in Nat /\ row[i].ts \in Nat
  BY ReaderAssumption DEF ReaderInv
<1>2. \A i, j \in A : newer(i, j) <=> row[j].ts < row[i].ts \/ (row[j].ts = row[i].ts /\ j < i)
  BY DEF Below, Position
<1>3. \A i \in A : ~newer(i, i)
  BY <1>1, <1>2
<1>4. \A i, j \in A : i # j => newer(i, j) \/ newer(j, i)
  BY <1>1, <1>2
<1>5. \A i, j, k \in A : newer(i, j) /\ newer(j, k) => newer(i, k)
  BY <1>1, <1>2
<1>6. \A i, j \in A : <<i, j>> \in Newer(A) <=> newer(i, j)
  BY DEF Newer
<1>7. \A i, j \in A : newer(i, j) => Older(Position(j), Position(i))
  BY DEF Below, Older
<1> HIDE DEF newer
<1>8. StrictOrder(A, Newer(A))
  BY <1>3, <1>4, <1>5, <1>6 DEF StrictOrder
<1> QED
  BY <1>6, <1>7, <1>8, ReaderAssumption, FS_Subset

\* An answer lists, newest first, what has a text and lies below the cursor, and no more of it
\* is left out than what is older than the page's last row.
LEMMA PageOf ==
  ASSUME ReaderInv, NEW filter, NEW cursor \in Cursors
  PROVE  LET answer == list_digest_feed(filter, cursor)
         IN  /\ answer.pc = "read" /\ answer.filter = filter /\ answer.cursor \in Cursors
             /\ AnswerFits(answer, filter, cursor)
<1> DEFINE A == After(filter, cursor)
           s == Ordered(A, Newer(A))
           n == Cardinality(A)
           f == First(Limit + 1, s)
           P == {i \in DOMAIN f : Shown(f[i])}
           items == Picked(f, P)
           page == First(Limit, items)
           more == Len(items) > Limit
           answer == list_digest_feed(filter, cursor)
           older(i, j) == Older(Position(i), Position(j))
<1>1. A \subseteq InFeed(filter) /\ A \subseteq Rows
  BY DEF After, InFeed
<1>2. \A j \in InFeed(filter) : j \in A <=> cursor = Nowhere \/ Older(Position(j), cursor)
  BY DEF After, Below, Older
<1>3. /\ answer.pc = "read" /\ answer.filter = filter /\ answer.more = more
      /\ answer.page = [i \in DOMAIN page |-> Position(page[i])]
      /\ answer.cursor = IF more THEN Position(page[Len(page)]) ELSE Nowhere
  BY DEF list_digest_feed, Fetched, Items
<1> HIDE DEF A, answer
<1>4. IsFiniteSet(A) /\ Lists(s, A, Newer(A)) /\ n \in Nat
  BY <1>1, NewerIsStrict, OrderedLists, FS_CardinalityType
<1> HIDE DEF s
<1>5. /\ s \in Seq(A) /\ Len(s) = n /\ DOMAIN s = 1..n
      /\ \A j \in A : \E m \in 1..n : s[m] = j
      /\ \A k, m \in 1..n : k < m => older(s[m], s[k])
  <2>1. s \in [1..n -> A]
    BY <1>4 DEF Lists
  <2>2. \A k, m \in 1..n : k < m => <<s[k], s[m]>> \in Newer(A) /\ s[k] \in A /\ s[m] \in A
    BY <1>4, <2>1 DEF Lists
  <2>3. \A k, m \in 1..n : k < m => older(s[m], s[k])
    BY <1>1, <2>2, NewerIsStrict
  <2>4. \A j \in A : \E m \in 1..n : s[m] = j
    BY <1>4 DEF Lists
  <2> HIDE DEF n, older
  <2> QED
    BY <1>4, <2>1, <2>3, <2>4
<1> HIDE DEF n
<1>6. Limit \in Nat /\ Limit > 0 /\ Limit + 1 \in Nat
  BY ReaderAssumption
<1>7. /\ f \in Seq(A) /\ Len(f) \in Nat /\ Len(f) <= n /\ Len(f) <= Limit + 1
      /\ Limit + 1 <= n => Len(f) = Limit + 1
      /\ n <= Limit + 1 => Len(f) = n
      /\ \A i \in 1..Len(f) : f[i] = s[i]
  BY <1>4, <1>5, <1>6, FirstOnes
<1> HIDE DEF f
<1>8. DOMAIN f = 1..Len(f)
  BY <1>7
<1>9. /\ items \in Seq(A) /\ Len(items) = Cardinality(P) /\ Cardinality(P) \in Nat
      /\ \E at : Climbs(at, P) /\ \A k \in 1..Cardinality(P) : items[k] = f[at[k]]
  <2>1. P \subseteq DOMAIN f
    OBVIOUS
  <2>2. f \in Seq(A)
    BY <1>7
  <2> HIDE DEF P
  <2>3. /\ Cardinality(P) \in Nat /\ items \in Seq(A) /\ Len(items) = Cardinality(P)
        /\ \E at : Climbs(at, P) /\ \A k \in 1..Cardinality(P) : Picked(f, P)[k] = f[at[k]]
    BY <2>1, <2>2, PickedSeq
  <2> QED
    BY <2>3
<1>10. PICK at : Climbs(at, P) /\ \A k \in 1..Cardinality(P) : items[k] = f[at[k]]
  BY <1>9
<1> HIDE DEF items
<1>11. \A k \in 1..Len(items) :
          /\ at[k] \in 1..Len(f) /\ at[k] \in 1..n /\ items[k] = s[at[k]]
          /\ items[k] \in A /\ Shown(items[k])
  <2>1. \A k \in 1..Len(items) : at[k] \in P /\ items[k] = f[at[k]]
    BY <1>9, <1>10 DEF Climbs
  <2>2. \A k \in 1..Len(items) : at[k] \in 1..Len(f) /\ Shown(items[k])
    BY <1>8, <2>1
  <2>3. \A k \in 1..Len(items) : items[k] \in A
    BY <1>9
  <2>4. \A m \in 1..Len(f) : m \in 1..n
    BY <1>4, <1>7
  <2> QED
    BY <1>7, <2>1, <2>2, <2>3, <2>4
<1>12. \A k, l \in 1..Len(items) : k < l => older(items[l], items[k])
  <2>1. \A k, l \in 1..Len(items) : k < l => at[k] < at[l]
    BY <1>9, <1>10 DEF Climbs
  <2> SUFFICES ASSUME NEW k \in 1..Len(items), NEW l \in 1..Len(items), k < l
               PROVE  older(items[l], items[k])
    OBVIOUS
  <2>2. /\ at[k] \in 1..n /\ at[l] \in 1..n /\ at[k] < at[l]
        /\ items[k] = s[at[k]] /\ items[l] = s[at[l]]
    BY <1>11, <2>1
  <2>3. older(s[at[l]], s[at[k]])
    BY <1>5, <2>2
  <2> QED
    BY <2>2, <2>3
<1>13. /\ page \in Seq(A) /\ Len(page) \in Nat /\ Len(page) <= Len(items) /\ Len(page) <= Limit
       /\ Len(items) >= Limit => Len(page) = Limit
       /\ \A i \in 1..Len(page) : page[i] = items[i]
  <2>1. items \in Seq(A) /\ Limit \in Int /\ Limit >= 0 /\ Len(items) \in Nat
    BY <1>6, <1>9
  <2>2. /\ page \in Seq(A) /\ Len(page) \in Nat /\ Len(page) <= Len(items)
        /\ Len(page) <= Limit /\ (Limit <= Len(items) => Len(page) = Limit)
        /\ \A i \in 1..Len(page) : page[i] = items[i]
    BY <2>1, FirstOnes
  <2> HIDE DEF page
  <2> QED
    BY <2>1, <2>2
<1> HIDE DEF page
<1>14. DOMAIN page = 1..Len(page) /\ \A i \in 1..Len(page) : i \in 1..Len(items) /\ page[i] \in A
  <2>1. DOMAIN page = 1..Len(page) /\ \A i \in 1..Len(page) : page[i] \in A
    BY <1>13
  <2>2. \A i \in 1..Len(page) : i \in 1..Len(items)
    BY <1>9, <1>13
  <2> QED
    BY <2>1, <2>2
<1>15. /\ DOMAIN answer.page = 1..Len(page)
       /\ \A i \in 1..Len(page) : answer.page[i] = Position(items[i])
  BY <1>3, <1>13, <1>14
<1>16. \A i, j \in DOMAIN answer.page : i < j => Older(answer.page[j], answer.page[i])
  BY <1>12, <1>14, <1>15
<1>17. ASSUME NEW p \in ToSet(answer.page)
       PROVE  /\ cursor # Nowhere => Older(p, cursor)
              /\ p.id \in InFeed(filter) /\ Shown(p.id)
  <2>1. PICK i \in 1..Len(page) : p = Position(items[i])
    BY <1>15 DEF ToSet
  <2>2. items[i] \in A /\ Shown(items[i]) /\ p.id = items[i]
    BY <1>11, <1>14, <2>1 DEF Position
  <2> QED
    BY <1>1, <1>2, <2>1, <2>2
<1>18. more => /\ Len(page) = Limit /\ Limit \in 1..Len(items) /\ Limit \in 1..Len(page)
               /\ answer.cursor = Position(items[Limit])
  <2> SUFFICES ASSUME more
               PROVE  /\ Len(page) = Limit /\ Limit \in 1..Len(items) /\ Limit \in 1..Len(page)
                      /\ answer.cursor = Position(items[Limit])
    OBVIOUS
  <2>1. Len(page) = Limit /\ Limit \in 1..Len(items) /\ Limit \in 1..Len(page)
    BY <1>6, <1>9, <1>13
  <2>2. answer.cursor = Position(page[Len(page)])
    BY <1>3
  <2> QED
    BY <1>13, <2>1, <2>2
<1>19. ASSUME more, NEW j \in InFeed(filter), Shown(j),
              cursor = Nowhere \/ Older(Position(j), cursor)
       PROVE  Position(j) \in ToSet(answer.page) \/ Older(Position(j), answer.cursor)
  <2>1. PICK m \in 1..n : s[m] = j
    BY <1>2, <1>5, <1>19
  <2>2. at[Limit] \in 1..Len(f) /\ at[Limit] \in 1..n /\ items[Limit] = s[at[Limit]]
    BY <1>11, <1>18, <1>19
  <2>3. CASE m \in 1..Len(f)
    <3>1. m \in P
      BY <1>7, <1>8, <1>19, <2>1, <2>3
    <3>2. PICK k \in 1..Len(items) : at[k] = m
      BY <3>1, <1>9, <1>10 DEF Climbs
    <3>3. items[k] = j
      BY <1>11, <2>1, <3>2
    <3>4. CASE k <= Limit
      <4>1. k \in 1..Len(page)
        BY <1>6, <1>18, <1>19, <3>4, <1>9
      <4>2. answer.page[k] = Position(j) /\ k \in DOMAIN answer.page
        BY <1>15, <3>3, <4>1
      <4> QED
        BY <4>2 DEF ToSet
    <3>5. CASE k > Limit
      <4>1. older(items[k], items[Limit])
        BY <1>12, <1>18, <1>19, <3>5
      <4> QED
        BY <1>18, <1>19, <3>3, <4>1
    <3> QED
      BY <3>4, <3>5, <1>6, <1>9
  <2>4. CASE m \notin 1..Len(f)
    <3>1. at[Limit] < m
      BY <1>4, <1>7, <2>2, <2>4
    <3>2. older(s[m], s[at[Limit]])
      BY <1>5, <2>2, <3>1
    <3> QED
      BY <1>18, <1>19, <2>1, <2>2, <3>2
  <2> QED
    BY <2>3, <2>4
<1>20. answer.cursor \in Cursors
  <2>1. \A j \in Rows : Position(j) \in Cursors
    BY ReaderAssumption DEF ReaderInv, Position, Cursors
  <2>2. Nowhere \in Cursors
    BY DEF Nowhere, Cursors
  <2>3. CASE more
    BY <1>1, <1>11, <1>18, <2>1, <2>3
  <2>4. CASE ~more
    BY <1>3, <2>2, <2>4
  <2> QED
    BY <2>3, <2>4
<1>21. AnswerFits(answer, filter, cursor)
  BY <1>3, <1>16, <1>17, <1>19 DEF AnswerFits
<1> QED
  BY <1>3, <1>20, <1>21 DEF answer

-----------------------------------------------------------------------------
\* Both ways to read ask for what lies below the cursor the client has.
LEMMA ReadsBelowItsCursor ==
  ASSUME ReaderInv,
         (\E filter \in Categories \union {"all"} : FirstPage(filter)) \/ NextPage
  PROVE  \E filter : walk' = list_digest_feed(filter, walk.cursor) /\ UNCHANGED row
<1>1. ASSUME NEW filter, FirstPage(filter)
      PROVE  walk' = list_digest_feed(filter, walk.cursor) /\ UNCHANGED row
  BY <1>1 DEF FirstPage, ReaderInv
<1>2. CASE NextPage
  BY <1>2 DEF NextPage
<1> QED
  BY <1>1, <1>2

\* What changes meanwhile leaves the client as it is.
LEMMA ChangesAreNotReads ==
  ASSUME ReaderInv, ReaderNext,
         ~((\E filter \in Categories \union {"all"} : FirstPage(filter)) \/ NextPage)
  PROVE  UNCHANGED walk /\ ReaderInv'
<1> DEFINE Record == [ts : Nat, done : BOOLEAN, summary : BOOLEAN]
<1>1. row \in [Rows -> Record]
  BY DEF ReaderInv
<1>2. ASSUME NEW new \in [Rows -> Record], Change(new) PROVE UNCHANGED walk /\ ReaderInv'
  BY <1>2 DEF Change, ReaderInv
<1>3. ASSUME NEW new, Categorize(new) PROVE UNCHANGED walk /\ ReaderInv'
  BY <1>3 DEF Categorize, ReaderInv
<1>4. ASSUME NEW j \in Rows, JobSucceeds(j) PROVE UNCHANGED walk /\ ReaderInv'
  <2>1. [row EXCEPT ![j].done = TRUE, ![j].summary = TRUE] \in [Rows -> Record]
    BY <1>1
  <2> QED
    BY <1>2, <1>4, <2>1 DEF JobSucceeds
<1>5. ASSUME NEW j \in Rows, NEW ts \in Dates, VideoMoves(j, ts)
      PROVE  UNCHANGED walk /\ ReaderInv'
  <2>1. [row EXCEPT ![j].ts = ts] \in [Rows -> Record]
    BY <1>1, ReaderAssumption
  <2> QED
    BY <1>2, <1>5, <2>1 DEF VideoMoves
<1>6. ASSUME NEW j \in Rows, TextGoes(j) PROVE UNCHANGED walk /\ ReaderInv'
  <2>1. [row EXCEPT ![j].summary = FALSE] \in [Rows -> Record]
    BY <1>1
  <2> QED
    BY <1>2, <1>6, <2>1 DEF TextGoes
<1> QED
  BY <1>3, <1>4, <1>5, <1>6
     DEF ReaderNext, DeleteSubscription, UpsertSubscription, UpdateCategory

LEMMA ReaderStep ==
  ASSUME ReaderInv, [ReaderNext]_walk
  PROVE  /\ row' \in [Rows -> [ts : Nat, done : BOOLEAN, summary : BOOLEAN]] \/ UNCHANGED walk
         /\ ReaderNext => ReaderInv'
         /\ walk' # walk => AnswerFits(walk', walk'.filter, walk.cursor)
<1>1. CASE UNCHANGED walk /\ ~ReaderNext
  BY <1>1
<1>2. CASE (\E filter \in Categories \union {"all"} : FirstPage(filter)) \/ NextPage
  <2>1. PICK filter : walk' = list_digest_feed(filter, walk.cursor) /\ UNCHANGED row
    BY <1>2, ReadsBelowItsCursor
  <2>2. walk.cursor \in Cursors
    BY DEF ReaderInv
  <2>3. /\ walk'.pc = "read" /\ walk'.filter = filter /\ walk'.cursor \in Cursors
        /\ AnswerFits(walk', filter, walk.cursor)
    BY <2>1, <2>2, PageOf
  <2> QED
    BY <2>1, <2>3 DEF ReaderInv
<1>3. CASE /\ ReaderNext
           /\ ~((\E filter \in Categories \union {"all"} : FirstPage(filter)) \/ NextPage)
  BY <1>3, ChangesAreNotReads
<1> QED
  BY <1>1, <1>2, <1>3

\* Whatever succeeds, moves, is recategorised or goes away between two pages, a page is in order,
\* below its cursor and of its category, and it leaves out only what is older than its end.
THEOREM PagesFit == ReaderSpec => FeedPagesFit
<1> DEFINE Next == \/ ReaderNext /\ UNCHANGED search
                   \/ SearchNext /\ UNCHANGED readerVars
<1>1. ReaderInit => ReaderInv
  BY DEF ReaderInit, ReaderInv, Nowhere, Cursors
<1>2. ReaderInv /\ [Next]_<<readerVars, search>> => ReaderInv'
  <2>1. ReaderInv /\ ReaderNext => ReaderInv'
    BY ReaderStep
  <2>2. ReaderInv /\ UNCHANGED readerVars => ReaderInv'
    BY DEF ReaderInv, readerVars
  <2> QED
    BY <2>1, <2>2
<1>3. ReaderInv /\ [Next]_<<readerVars, search>> /\ walk' # walk
        => AnswerFits(walk', walk'.filter, walk.cursor)
  BY ReaderStep DEF readerVars
<1>4. AnswerFits(walk', walk'.filter, walk.cursor) =>
          LET page == ToSet(walk'.page)
          IN  /\ \A i, j \in DOMAIN walk'.page : i < j => Older(walk'.page[j], walk'.page[i])
              /\ \A p \in page : /\ walk.cursor # Nowhere => Older(p, walk.cursor)
                                 /\ p.id \in InFeed(walk'.filter) /\ Shown(p.id)
              /\ walk'.more => \A j \in InFeed(walk'.filter) :
                    Shown(j) /\ (walk.cursor = Nowhere \/ Older(Position(j), walk.cursor))
                       => Position(j) \in page \/ Older(Position(j), walk'.cursor)
  BY DEF AnswerFits
<1> QED
  BY <1>1, <1>2, <1>3, <1>4, PTL DEF ReaderSpec, FeedPagesFit

-----------------------------------------------------------------------------
(*****************************************************************************)
(* Gateway.  However many calls, retries and command line starts there are,  *)
(* a call starts one workflow at most and its tool is told the truth.        *)
(*****************************************************************************)
ToolPcs == {"idle", "send", "wait", "done"}
HandlerPcs == {"idle", "handle", "start", "log", "answered", "gone"}

Answers ==
    {"none", "read", "refused", "started", "already_running", "connect_timed_out",
     "connect_failed", "start_timed_out", "start_failed"}
Results ==
    Answers \union {"INVALID_ARGUMENT", "UPSTREAM_TIMEOUT", "UPSTREAM_NETWORK_ERROR",
                    "UPSTREAM_HTTP_ERROR"}

Handlers == [pc : HandlerPcs, status : Nat, answer : Answers]

\* The replies that tell that nothing was started.
Harmless == {"already_running", "read", "refused"}

\* The places from which no handler comes back to start anything.
Over == {"idle", "gone"}

-----------------------------------------------------------------------------
(***************************************************************************)
(* The strengthening.  A handler that has yet to start finds nothing       *)
(* started, a tool that will send again has started nothing, because only  *)
(* reads are sent again, and what the handler has answered, and the tool   *)
(* was told, agrees with the count.                                        *)
(***************************************************************************)
GatewayType ==
    /\ tool \in [pc : ToolPcs, method : {"GET", "POST"}, once : BOOLEAN, loop : BOOLEAN,
                 attempt : Nat, result : Results]
    /\ handler \in Handlers
    /\ effects \in {0, 1}

Untouched ==
    /\ tool.pc = "send" => effects = 0
    /\ tool.pc = "send" /\ tool.method = "POST" => handler.pc = "idle"
    /\ tool.method = "GET" => effects = 0
    /\ handler.pc \in {"idle", "handle", "start"} => effects = 0
    /\ handler.pc = "start" => tool.method = "POST"

ToldTheTruth ==
    /\ handler.answer = "started" => effects = 1
    /\ handler.answer \in Harmless => effects = 0
    /\ handler.pc \in {"idle", "handle", "start"} => handler.answer = "none"
    /\ tool.pc \in {"send", "wait"} => tool.result = "none"
    /\ tool.result \in {"started", "already_running", "read", "INVALID_ARGUMENT"}
         => handler.pc \in Over
    /\ tool.result = "started" => effects = 1
    /\ tool.result \in {"already_running", "read", "INVALID_ARGUMENT"} => effects = 0

GatewayInv == GatewayType /\ Untouched /\ ToldTheTruth

-----------------------------------------------------------------------------
(***************************************************************************)
(* The tool's steps.                                                       *)
(***************************************************************************)
LEMMA CallKeeps ==
  ASSUME GatewayInv, NEW method \in {"GET", "POST"}, NEW once \in BOOLEAN, NEW loop \in BOOLEAN,
         CallTool(method, once, loop)
  PROVE  GatewayInv'
<1>1. PICK valid \in BOOLEAN :
         tool' = [pc |-> IF valid THEN "send" ELSE "done", method |-> method, once |-> once,
                  loop |-> loop, attempt |-> 0,
                  result |-> IF valid THEN "none" ELSE "INVALID_ARGUMENT"]
  BY DEF CallTool, NoTool
<1>2. handler' = [pc |-> "idle", status |-> 0, answer |-> "none"] /\ effects' = 0
  BY DEF CallTool, NoHandler
<1>3. GatewayType'
  BY <1>1, <1>2 DEF GatewayType, Handlers, ToolPcs, HandlerPcs, Answers, Results
<1> QED
  BY <1>1, <1>2, <1>3 DEF GatewayInv, Untouched, ToldTheTruth, Over, Harmless

LEMMA SendKeeps == ASSUME GatewayInv, Send PROVE GatewayInv'
<1>1. tool' = [pc |-> "wait", method |-> tool.method, once |-> tool.once, loop |-> tool.loop,
               attempt |-> tool.attempt + 1, result |-> tool.result]
  BY DEF Send, GatewayInv, GatewayType
<1>2. PICK pc \in {"handle", "gone"} : handler' = [pc |-> pc, status |-> 0, answer |-> "none"]
  BY DEF Send, NoHandler
<1>3. effects' = effects /\ effects = 0 /\ tool.result = "none"
  BY DEF Send, GatewayInv, Untouched, ToldTheTruth
<1>4. GatewayType'
  <2>1. tool.attempt + 1 \in Nat
    BY DEF GatewayInv, GatewayType
  <2>2. tool' \in [pc : ToolPcs, method : {"GET", "POST"}, once : BOOLEAN, loop : BOOLEAN,
                   attempt : Nat, result : Results]
    BY <1>1, <2>1 DEF GatewayInv, GatewayType, ToolPcs
  <2>3. handler' \in Handlers
    BY <1>2 DEF Handlers, HandlerPcs, Answers
  <2> QED
    BY <1>3, <2>2, <2>3 DEF GatewayType
<1> QED
  BY <1>1, <1>2, <1>3, <1>4 DEF GatewayInv, Untouched, ToldTheTruth, Over, Harmless

\* Giving up or sending again: only a read, that has started nothing, is sent again.
LEMMA FailsKeeps ==
  ASSUME GatewayInv,
         NEW result \in {"UPSTREAM_TIMEOUT", "UPSTREAM_NETWORK_ERROR", "UPSTREAM_HTTP_ERROR"},
         tool.pc = "wait", Fails(result), effects' = effects,
         handler' \in Handlers, handler'.answer = handler.answer,
         handler'.pc = handler.pc \/ handler'.pc = "gone"
  PROVE  GatewayInv'
<1>1. CASE MayRetry
  <2>1. tool.method = "GET" /\ effects = 0
    BY <1>1 DEF MayRetry, is_retryable_method, GatewayInv, GatewayType, Untouched
  <2>2. tool' = [pc |-> "send", method |-> "GET", once |-> tool.once, loop |-> tool.loop,
                 attempt |-> tool.attempt, result |-> tool.result] /\ tool.result = "none"
    BY <1>1, <2>1 DEF Fails, GatewayInv, GatewayType, ToldTheTruth
  <2>3. GatewayType'
    BY <2>1, <2>2 DEF GatewayInv, GatewayType, Handlers, ToolPcs, HandlerPcs
  <2> QED
    BY <2>1, <2>2, <2>3 DEF GatewayInv, GatewayType, Untouched,
       ToldTheTruth, Over, Harmless
<1>2. CASE ~MayRetry
  <2>1. tool' = [pc |-> "done", method |-> tool.method, once |-> tool.once, loop |-> tool.loop,
                 attempt |-> tool.attempt, result |-> result]
    BY <1>2 DEF Fails, GatewayInv, GatewayType
  <2>2. GatewayType'
    BY <2>1 DEF GatewayInv, GatewayType, Handlers, ToolPcs, HandlerPcs, Results
  <2> QED
    BY <2>1, <2>2 DEF GatewayInv, GatewayType, Untouched,
       ToldTheTruth, Over, Harmless
<1> QED
  BY <1>1, <1>2

LEMMA ReceiveKeeps == ASSUME GatewayInv, Receive PROVE GatewayInv'
<1>1. handler' = [handler EXCEPT !.pc = "gone"] /\ handler.pc = "answered" /\ tool.pc = "wait"
      /\ effects' = effects
  BY DEF Receive
<1>2. CASE Fails("UPSTREAM_HTTP_ERROR")
  <2>1. handler' \in Handlers /\ handler'.answer = handler.answer /\ handler'.pc = "gone"
    BY <1>1 DEF GatewayInv, GatewayType, Handlers, HandlerPcs
  <2> QED
    BY <1>1, <1>2, <2>1, FailsKeeps
<1>3. ASSUME NEW result \in Answers \union {"UPSTREAM_HTTP_ERROR"},
             result = handler.answer \/ result = "UPSTREAM_HTTP_ERROR",
             tool' = [tool EXCEPT !.pc = "done", !.result = result]
      PROVE  GatewayInv'
  <2>1. tool' = [pc |-> "done", method |-> tool.method, once |-> tool.once, loop |-> tool.loop,
                 attempt |-> tool.attempt, result |-> result]
    BY <1>3 DEF GatewayInv, GatewayType
  <2>2. handler' = [pc |-> "gone", status |-> handler.status, answer |-> handler.answer]
    BY <1>1 DEF GatewayInv, GatewayType, Handlers
  <2>3. GatewayType'
    BY <1>1, <1>3, <2>1, <2>2 DEF GatewayInv, GatewayType, Handlers, ToolPcs, HandlerPcs, Results
  <2> QED
    BY <1>1, <1>3, <2>1, <2>2, <2>3
       DEF GatewayInv, GatewayType, Untouched, ToldTheTruth, Over, Harmless, Answers
<1>4. handler.answer \in Answers
  BY DEF GatewayInv, GatewayType, Handlers
<1> QED
  BY <1>2, <1>3, <1>4 DEF Receive

-----------------------------------------------------------------------------
(***************************************************************************)
(* The handler's steps.                                                    *)
(***************************************************************************)
\* What a step of the handler may do that starts nothing.
LEMMA HandlerKeeps ==
  ASSUME GatewayInv, UNCHANGED <<tool, effects>>, handler.pc \notin Over, handler' \in Handlers,
         handler'.pc \in {"start", "log", "answered", "gone"},
         handler'.pc = "start" => effects = 0 /\ tool.method = "POST" /\ handler'.answer = "none",
         handler'.answer = "started" => effects = 1,
         handler'.answer \in Harmless => effects = 0
  PROVE  GatewayInv'
<1>1. GatewayType'
  BY DEF GatewayInv, GatewayType
<1> QED
  BY <1>1 DEF GatewayInv, GatewayType, Untouched, ToldTheTruth, Over

LEMMA HandledReadKeeps == ASSUME GatewayInv, HandleRead PROVE GatewayInv'
<1>1. effects = 0 /\ handler.pc \notin Over /\ UNCHANGED <<tool, effects>>
  BY DEF HandleRead, GatewayInv, Untouched, Over
<1>2. handler' \in Handlers /\ handler'.pc = "log" /\ handler'.answer \in {"read", "refused"}
  BY DEF HandleRead, Reply, Handlers, HandlerPcs, Answers
<1> QED
  BY <1>1, <1>2, HandlerKeeps

LEMMA ConnectKeeps == ASSUME GatewayInv, Connect PROVE GatewayInv'
<1>1. effects = 0 /\ handler.pc \notin Over /\ UNCHANGED <<tool, effects>>
      /\ tool.method = "POST" /\ handler.answer = "none"
  BY DEF Connect, GatewayInv, Untouched, ToldTheTruth, Over
<1>2. CASE handler' = [handler EXCEPT !.pc = "start"]
  <2>1. handler' \in Handlers /\ handler'.pc = "start" /\ handler'.answer = "none"
    BY <1>1, <1>2 DEF GatewayInv, GatewayType, Handlers, HandlerPcs
  <2> QED
    BY <1>1, <2>1, HandlerKeeps DEF Harmless
<1>3. CASE Reply(504, "connect_timed_out") \/ Reply(503, "connect_failed")
  <2>1. /\ handler' \in Handlers /\ handler'.pc = "log"
        /\ handler'.answer \in {"connect_timed_out", "connect_failed"}
    BY <1>3 DEF Reply, Handlers, HandlerPcs, Answers
  <2> QED
    BY <1>1, <2>1, HandlerKeeps DEF Harmless
<1> QED
  BY <1>2, <1>3 DEF Connect

LEMMA LogKeeps == ASSUME GatewayInv, AppendLog \/ AnswerDropped PROVE GatewayInv'
<1>1. handler.pc \notin Over /\ UNCHANGED <<tool, effects>>
  BY DEF AppendLog, AnswerDropped, Over
<1>2. /\ handler' \in Handlers /\ handler'.pc \in {"answered", "gone"}
      /\ handler'.answer = handler.answer
  BY DEF AppendLog, AnswerDropped, GatewayInv, GatewayType, Handlers, HandlerPcs
<1>3. /\ handler.answer = "started" => effects = 1
      /\ handler.answer \in Harmless => effects = 0
  BY DEF GatewayInv, ToldTheTruth
<1> QED
  BY <1>1, <1>2, <1>3, HandlerKeeps

\* The one step that counts: the count was 0, and is 1 when the answer says started.
LEMMA StartKeeps == ASSUME GatewayInv, StartWorkflow PROVE GatewayInv'
<1>1. effects = 0 /\ handler.pc = "start" /\ UNCHANGED tool /\ tool.method = "POST"
      /\ tool.pc # "send"
  BY DEF StartWorkflow, GatewayInv, Untouched
<1>2. /\ handler' \in Handlers /\ handler'.pc = "log"
      /\ handler'.answer \in {"already_running", "started", "start_timed_out", "start_failed"}
  BY DEF StartWorkflow, Reply, GatewayInv, GatewayType, Handlers, HandlerPcs, Answers
<1>3. CASE UNCHANGED effects
  <2>1. handler'.answer # "started"
    BY <1>1, <1>3 DEF StartWorkflow, Reply, GatewayInv, GatewayType, Handlers
  <2> QED
    BY <1>1, <1>2, <1>3, <2>1, HandlerKeeps DEF Over, Harmless
<1>4. CASE effects' = 1
  <2>1. handler'.answer # "already_running"
    BY <1>1, <1>4 DEF StartWorkflow, Reply, GatewayInv, GatewayType, Handlers
  <2>2. GatewayType'
    BY <1>1, <1>2, <1>4 DEF GatewayInv, GatewayType
  <2> QED
    BY <1>1, <1>2, <1>4, <2>1, <2>2 DEF GatewayInv, GatewayType, Untouched,
       ToldTheTruth, Over, Harmless
<1> QED
  BY <1>1, <1>3, <1>4 DEF StartWorkflow

-----------------------------------------------------------------------------
LEMMA GatewayInductive == GatewaySpec => []GatewayInv
<1>1. GatewayInit => GatewayInv
  BY DEF GatewayInit, NoTool, NoHandler, GatewayInv, GatewayType, Untouched, ToldTheTruth, Over,
         Harmless,
         Handlers, ToolPcs, HandlerPcs, Answers, Results
<1>2. GatewayInv /\ [GatewayNext]_gatewayVars => GatewayInv'
  <2> SUFFICES ASSUME GatewayInv, [GatewayNext]_gatewayVars
               PROVE  GatewayInv'
    OBVIOUS
  <2>1. ASSUME NEW method \in {"GET", "POST"}, NEW once \in BOOLEAN, NEW loop \in BOOLEAN,
               CallTool(method, once, loop)
        PROVE  GatewayInv'
    BY <2>1, CallKeeps
  <2>2. CASE Send
    BY <2>2, SendKeeps
  <2>3. CASE GivesUpWaiting
    <3>1. tool.pc = "wait" /\ handler' = handler /\ effects' = effects
      BY <2>3 DEF GivesUpWaiting
    <3>4. handler \in Handlers
      BY DEF GatewayInv, GatewayType
    <3>2. CASE Fails("UPSTREAM_TIMEOUT")
      BY <3>1, <3>2, <3>4, FailsKeeps
    <3>3. CASE Fails("UPSTREAM_NETWORK_ERROR")
      BY <3>1, <3>3, <3>4, FailsKeeps
    <3> QED
      BY <2>3, <3>2, <3>3 DEF GivesUpWaiting
  <2>4. CASE Receive
    BY <2>4, ReceiveKeeps
  <2>5. CASE HandleRead
    BY <2>5, HandledReadKeeps
  <2>6. CASE Connect
    BY <2>6, ConnectKeeps
  <2>7. CASE StartWorkflow
    BY <2>7, StartKeeps
  <2>8. CASE AppendLog \/ AnswerDropped
    BY <2>8, LogKeeps
  <2>9. CASE UNCHANGED <<tool, handler, effects>>
    BY <2>9 DEF GatewayInv, GatewayType, Untouched, ToldTheTruth
  <2> QED
    BY <2>1, <2>2, <2>3, <2>4, <2>5, <2>6, <2>7, <2>8, <2>9
       DEF GatewayNext, CliStart, WorkflowEnds, gatewayVars
<1> QED
  BY <1>1, <1>2, PTL DEF GatewaySpec

\* Whatever gets lost, however often reads are retried and whoever else starts workflows: a
\* tool's call starts one at most, and the tool is told what happened.
THEOREM WritesTakeEffectOnce == GatewaySpec => []WriteTakesEffectOnce
<1>1. GatewayInv => WriteTakesEffectOnce
  BY DEF GatewayInv, GatewayType, ToldTheTruth, WriteTakesEffectOnce, Harmless
<1> QED
  BY <1>1, GatewayInductive, PTL

==============================================================================
