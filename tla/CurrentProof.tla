---------------------------- MODULE CurrentProof ----------------------------
(***************************************************************************)
(* The reports by which the repository says what is proved of its current  *)
(* commit.  Probes write what they saw of the remote workflows and of the  *)
(* readiness to publish; governance-audit checks that these reports are of *)
(* the current commit, renders the newcomer proof and the state summary    *)
(* from them, and checks what it rendered.  Each script may also be run by *)
(* hand.  A script takes HEAD when it begins, and its report is stamped    *)
(* with HEAD when it is written; commits and the remote workflows          *)
(* go on meanwhile.  One script is at work at a time: that nobody runs one *)
(* by hand during another, or during an audit, is assumed of the users     *)
(* (ByHandNow); neither gate.sh nor a script takes a lock.                 *)
(***************************************************************************)
EXTENDS Naturals, Sequences, FiniteSets

CONSTANTS
    Lanes,       \* subset of {"ghcr", "release"}
    Plain,       \* the other reports of current-proof-contract.json
    Commits,     \* bound: commits
    Gates,       \* bound: runs of governance-audit
    Hands        \* bound: scripts run by hand

ASSUME ReportNamesAssumption ==
    /\ Lanes \subseteq {"ghcr", "release"}
    /\ Plain \intersect {"ghcr", "release", "workflows", "alignment", "newcomer", "summary"} = {}

VARIABLES
    head,        \* the commit checked out
    remote,      \* lane -> the latest run of its workflow
    proved,      \* <<lane, commit>>: the runs that have succeeded
    stamp,       \* report -> source_commit of its metadata, 0 when there is none
    seen,        \* content of external-lane-workflows.json, by lane
    ready,       \* content of the readiness reports, by lane
    aligned,     \* status of current-proof-commit-alignment.json
    newcomer,    \* content of newcomer-result-proof.json
    summary,     \* content of current-state-summary.md
    script,      \* the script at work
    gate,        \* governance-audit
    byHand       \* scripts run by hand so far

world == <<head, remote, proved>>
reports == <<stamp, seen, ready, aligned, newcomer, summary>>
proofVars == <<world, reports, script, gate, byHand>>

Probes == Plain \union Lanes \union {"workflows"}
Reports == Probes \union {"alignment", "newcomer", "summary"}
NoRemoteRun == [head |-> 0, st |-> "none"]
NoLane == [state |-> "absent", matches |-> FALSE, latest |-> 0]
NoNewcomer == [commit |-> 0, verdict |-> "none", checks |-> FALSE]
NoSummary == [head |-> 0, verdict |-> "none", rows |-> [l \in Lanes |-> "none"],
              lanes |-> [l \in Lanes |-> NoLane]]
NoScript == [name |-> "none", pc |-> "none", at |-> 0, out |-> <<>>]
NoGate == [pc |-> 0, commit |-> 0, moved |-> FALSE, runs |-> 0, begun |-> {}, passed |-> {}]

ProofInit ==
    /\ head = 1
    /\ remote = [l \in Lanes |-> NoRemoteRun] /\ proved = {}
    /\ stamp = [r \in Reports |-> 0]
    /\ seen = [l \in Lanes |-> NoLane] /\ ready = [l \in Lanes |-> "missing"]
    /\ aligned = "none" /\ newcomer = NoNewcomer /\ summary = NoSummary
    /\ script = NoScript /\ gate = NoGate /\ byHand = 0

-----------------------------------------------------------------------------
(***************************************************************************)
(* The world.                                                              *)
(***************************************************************************)
Commit ==
    /\ head < Commits
    /\ head' = head + 1
    /\ gate' = [gate EXCEPT !.moved = @ \/ gate.pc > 0]
    /\ UNCHANGED <<remote, proved, reports, script, byHand>>

\* A workflow is dispatched on the commit at hand, and its run goes on to its end.
RemoteStart(l) ==
    /\ remote[l].st \in {"none", "success", "failure"} /\ remote[l].head # head
    /\ remote' = [remote EXCEPT ![l] = [head |-> head, st |-> "queued"]]
    /\ UNCHANGED <<head, proved, reports, script, gate, byHand>>

RemoteMoves(l, st) ==
    /\ remote[l].st \in {"queued", "in_progress"} /\ st # remote[l].st
    /\ remote' = [remote EXCEPT ![l].st = st]
    /\ proved' = IF st = "success" THEN proved \union {<<l, remote[l].head>>} ELSE proved
    /\ UNCHANGED <<head, reports, script, gate, byHand>>

-----------------------------------------------------------------------------
(***************************************************************************)
(* _lane_state of the probe, and _workflow_head_alignment, which the       *)
(* renderer and both checks share: the flag the probe left is enough.      *)
(* GitHub tells the head of every run; what the probe makes of one without *)
(* a head, never "verified", is left out.                                  *)
(***************************************************************************)
lane_state(run, current) ==
    IF run.st = "none" THEN [NoLane EXCEPT !.state = "missing"]
    ELSE IF run.head # current THEN [state |-> "historical", matches |-> FALSE, latest |-> run.head]
    ELSE [state |-> CASE run.st = "success" -> "verified" [] run.st = "failure" -> "blocked"
                      [] OTHER -> run.st,
          matches |-> TRUE, latest |-> run.head]

workflow_head_alignment(lane, current) ==
    IF lane.matches \/ lane.latest = current THEN "current"
    ELSE IF lane.latest # 0 THEN "historical" ELSE "missing"

CURRENT_WORKFLOW_STATUSES == {"verified", "queued", "in_progress"}

(***************************************************************************)
(* A script: what it reads of the world and of the reports, when it        *)
(* begins; its content when it is written; the stamp after that.           *)
(***************************************************************************)
Start(name, out) ==
    script' = [name |-> name, pc |-> "write", at |-> head, out |-> out]

NoScriptAtWork == script.pc = "none"

\* An assumption, see above.
ByHandNow ==
    /\ NoScriptAtWork /\ gate.pc = 0
    /\ byHand < Hands /\ byHand' = byHand + 1

\* A probe by hand: of the remote workflows, or of a lane's readiness, or a plain report.
Probe_workflows ==
    /\ ByHandNow
    /\ Start("workflows", [l \in Lanes |-> lane_state(remote[l], head)])
    /\ UNCHANGED <<world, reports, gate>>

Probe_readiness(l) ==
    /\ ByHandNow
    /\ \E status \in {"ready", "blocked"} : Start(l, status)
    /\ UNCHANGED <<world, reports, gate>>

Probe_plain(r) ==
    /\ ByHandNow
    /\ Start(r, <<>>)
    /\ UNCHANGED <<world, reports, gate>>

\* Mutant: a verified lane is held against the probe's own flag only.
NestedErrors_Flag(lane) ==
    workflow_head_alignment(lane, script.at) = "historical"
        /\ lane.state \in {"verified", "blocked", "queued", "in_progress"}

NestedErrors(lane) ==
    \/ lane.state = "verified" /\ (lane.latest # script.at \/ ~lane.matches)
    \/ workflow_head_alignment(lane, script.at) = "historical"
       /\ lane.state \in {"verified", "blocked", "queued", "in_progress"}

\* check_current_proof_commit_alignment: every report of the contract, as it is read now.
AlignmentErrors ==
    \/ \E r \in Probes : stamp[r] # script.at
    \/ \E l \in Lanes : NestedErrors(seen[l])

(***************************************************************************)
(* render_newcomer_result_proof: receipts of the commit, whether there is  *)
(* an alignment report of it, and a clean worktree.                        *)
(***************************************************************************)
Governance(c) ==
    IF c \in gate.passed THEN "pass"
    ELSE IF c \in gate.begun THEN "in_progress" ELSE "missing"

workspace_verdict(validated, strict, dirty) ==
    IF ~validated \/ Governance(script.at) = "missing" THEN "missing"
    ELSE IF Governance(script.at) = "in_progress" \/ ~strict \/ stamp["alignment"] # script.at \/ dirty
      THEN "partial" ELSE "pass"

Newcomers ==
    {[commit |-> script.at, verdict |-> workspace_verdict(v, s, dirty),
      checks |-> v /\ Governance(script.at) # "missing"] : v, s, dirty \in BOOLEAN}

(***************************************************************************)
(* render_current_state_summary: the row of each lane.                     *)
(***************************************************************************)
ghcr_state(now) ==
    IF seen["ghcr"].state \in CURRENT_WORKFLOW_STATUSES
         /\ workflow_head_alignment(seen["ghcr"], now) = "current"
    THEN seen["ghcr"].state ELSE ready["ghcr"]

release_state(now) ==
    LET lane == seen["release"]
        current == workflow_head_alignment(lane, now) = "current"
    IN  IF current /\ lane.state = "verified" /\ ready["release"] = "ready" THEN "verified"
        ELSE IF current /\ lane.state \in {"in_progress", "queued"} THEN lane.state
        ELSE ready["release"]

Rendered ==
    [head |-> script.at, verdict |-> IF newcomer = NoNewcomer THEN "unknown" ELSE newcomer.verdict,
     rows |-> [l \in Lanes |-> IF l = "ghcr" THEN ghcr_state(script.at) ELSE release_state(script.at)],
     lanes |-> seen]

Begin_alignment == Start("alignment", <<>>)
Begin_newcomer == Start("newcomer", <<>>)
Begin_summary == Start("summary", <<>>)

\* The three of them by hand.
ByHand ==
    /\ ByHandNow
    /\ Begin_alignment \/ Begin_newcomer \/ Begin_summary
    /\ UNCHANGED <<world, reports, gate>>

Exists(r) ==
    CASE r = "workflows" -> \E l \in Lanes : seen[l].state # "absent"
      [] r \in Lanes -> ready[r] # "missing"
      [] r = "alignment" -> aligned # "none"
      [] r = "newcomer" -> newcomer # NoNewcomer
      [] r = "summary" -> summary # NoSummary
      [] OTHER -> stamp[r] # 0

\* Maintenance by hand: a report without metadata is given those of this moment.
Normalize ==
    /\ ByHandNow
    /\ stamp' = [r \in Reports |-> IF Exists(r) /\ stamp[r] = 0 THEN head ELSE stamp[r]]
    /\ UNCHANGED <<world, seen, ready, aligned, newcomer, summary, script, gate>>

\* What the script at work puts in its report.
Write ==
    /\ script.pc = "write"
    /\ script' = [script EXCEPT !.pc = "stamp", !.out = <<>>]
    /\ seen' = IF script.name = "workflows" THEN script.out ELSE seen
    /\ ready' = IF script.name \in Lanes THEN [ready EXCEPT ![script.name] = script.out] ELSE ready
    /\ aligned' = IF script.name # "alignment" THEN aligned ELSE IF AlignmentErrors THEN "fail" ELSE "pass"
    /\ newcomer' \in IF script.name = "newcomer" THEN Newcomers ELSE {newcomer}
    /\ summary' = IF script.name = "summary" THEN Rendered ELSE summary
    /\ UNCHANGED <<world, stamp, gate, byHand>>

\* write_runtime_metadata: the commit of this moment.
Stamp ==
    /\ script.pc = "stamp"
    /\ stamp' = [stamp EXCEPT ![script.name] = head]
    /\ script' = NoScript
    /\ gate' = IF gate.pc = 0 THEN gate
               ELSE IF script.name = "alignment" /\ aligned = "fail" THEN [gate EXCEPT !.pc = 0]
               ELSE [gate EXCEPT !.pc = @ + 1]
    /\ UNCHANGED <<world, seen, ready, aligned, newcomer, summary, byHand>>

\* Interrupted, between two writes too.
Interrupted ==
    /\ script.pc # "none"
    /\ script' = NoScript
    /\ gate' = [gate EXCEPT !.pc = 0]
    /\ UNCHANGED <<world, reports, byHand>>

-----------------------------------------------------------------------------
(***************************************************************************)
(* governance-audit: alignment, maintenance, newcomer, its check, summary,  *)
(* its check; the other checks pass or end it.                             *)
(***************************************************************************)
GateStart ==
    /\ NoScriptAtWork /\ gate.pc = 0 /\ gate.runs < Gates
    /\ gate' = [gate EXCEPT !.pc = 1, !.commit = head, !.moved = FALSE, !.runs = @ + 1,
                            !.begun = @ \union {head}]
    /\ UNCHANGED <<world, reports, script, byHand>>

\* Maintenance of the audit: probes that are past their window are removed.
GatePrunes ==
    /\ gate.pc = 2
    /\ \E old \in SUBSET Probes :
          /\ stamp' = [r \in Reports |-> IF r \in old THEN 0 ELSE IF Exists(r) /\ stamp[r] = 0 THEN head ELSE stamp[r]]
          /\ seen' = IF "workflows" \in old THEN [l \in Lanes |-> NoLane] ELSE seen
          /\ ready' = [l \in Lanes |-> IF l \in old THEN "missing" ELSE ready[l]]
    /\ gate' = [gate EXCEPT !.pc = 3]
    /\ UNCHANGED <<world, aligned, newcomer, summary, script, byHand>>

GateRuns ==
    /\ NoScriptAtWork /\ gate.pc \in {1, 3, 5}
    /\ IF gate.pc = 1 THEN Begin_alignment ELSE IF gate.pc = 3 THEN Begin_newcomer ELSE Begin_summary
    /\ UNCHANGED <<world, reports, gate, byHand>>

check_newcomer ==
    /\ stamp["newcomer"] = head /\ newcomer.commit = head
    /\ newcomer.checks

check_summary ==
    /\ stamp["summary"] = head /\ summary.head = head
    /\ summary.verdict = newcomer.verdict
    /\ \A l \in Lanes :
          /\ summary.lanes[l].state = seen[l].state
          /\ workflow_head_alignment(seen[l], head) = "historical" =>
                /\ seen[l].state = "historical"
                /\ summary.rows[l] \notin CURRENT_WORKFLOW_STATUSES

GateChecks ==
    /\ NoScriptAtWork /\ gate.pc \in {4, 6}
    /\ gate' = IF ~(IF gate.pc = 4 THEN check_newcomer ELSE check_summary) THEN [gate EXCEPT !.pc = 0]
               ELSE [gate EXCEPT !.pc = @ + 1]
    /\ UNCHANGED <<world, reports, script, byHand>>

\* The checks after them: the run is complete, or ends without its line.
GateEnds ==
    /\ gate.pc = 7
    /\ \E ok \in BOOLEAN :
          gate' = [gate EXCEPT !.pc = 0, !.passed = IF ok THEN @ \union {gate.commit} ELSE @]
    /\ UNCHANGED <<world, reports, script, byHand>>

ProofNext ==
    \/ Commit
    \/ \E l \in Lanes :
          \/ RemoteStart(l) \/ Probe_readiness(l)
          \/ \E st \in {"success", "failure"} : RemoteMoves(l, st)
    \/ Probe_workflows
    \/ \E r \in Plain : Probe_plain(r)
    \/ ByHand \/ Normalize \/ Write \/ Stamp \/ Interrupted
    \/ GateStart \/ GatePrunes \/ GateRuns \/ GateChecks \/ GateEnds

ProofSpec == ProofInit /\ [][ProofNext]_proofVars

-----------------------------------------------------------------------------
(***************************************************************************)
(* What governance-audit lets through is so: with no commit during it, the *)
(* summary it has checked calls a lane verified only when the lane's       *)
(* workflow has succeeded on that very commit, whatever commits came       *)
(* between the probes, their stamps and the audit.                         *)
(***************************************************************************)
AuditedGreenIsProved ==
    gate.pc = 7 /\ ~gate.moved =>
        /\ summary.head = gate.commit /\ newcomer.commit = gate.commit /\ aligned = "pass"
        /\ \A l \in Lanes :
              "verified" \in {summary.rows[l], summary.lanes[l].state} => <<l, gate.commit>> \in proved

(***************************************************************************)
(* "For lanes that consume remote workflow results, `verified` also        *)
(* requires the latest successful run to have `headSha == current HEAD`":  *)
(* a summary that is stamped with HEAD calls no other run verified.        *)
(***************************************************************************)
SummaryGreenIsCurrent ==
    NoScriptAtWork /\ stamp["summary"] = head /\ summary.head = head =>
        \A l \in Lanes : summary.rows[l] = "verified" => <<l, head>> \in proved

=============================================================================
