--------------------------- MODULE Scripts_proofs ----------------------------
(***************************************************************************)
(* Theorems about what the scripts report: the proof of a commit, for any  *)
(* lanes and commits; the runtime evidence, for any runs and days; the     *)
(* release, for any migrations, tags and samples.                          *)
(***************************************************************************)
EXTENDS CurrentProof, Evidence, Release, Integers, TLAPS, WellFoundedInduction,
        FiniteSetTheorems

-----------------------------------------------------------------------------
(*****************************************************************************)
(* CurrentProof.  A lane is called verified only for a remote run that has   *)
(* succeeded (VerifiedIsProved); GateSound says what the audit has seen to by*)
(* each of its steps, and GateAlone that no other script was at work then.   *)
(*****************************************************************************)
RemoteRuns ==
    [head : Nat, st : {"none", "queued", "in_progress", "success", "failure"}]
AtWork == script.pc # "none"

ProofTypeOK ==
    /\ head \in Nat
    /\ remote \in [Lanes -> RemoteRuns]
    /\ ready = [l \in Lanes |-> ready[l]]
    /\ script = [name |-> script.name, pc |-> script.pc, at |-> script.at, out |-> script.out]
    /\ gate = [pc |-> gate.pc, commit |-> gate.commit, moved |-> gate.moved, runs |-> gate.runs,
               begun |-> gate.begun, passed |-> gate.passed]
    /\ gate.pc \in Nat

\* "verified" was a run that has succeeded, wherever it is told.
ToldOf(lane, l) == lane.state = "verified" => <<l, lane.latest>> \in proved
VerifiedIsProved ==
    \A l \in Lanes :
        /\ remote[l].st = "success" => <<l, remote[l].head>> \in proved
        /\ ToldOf(seen[l], l)
        /\ ready[l] # "verified"

ScriptSound ==
    /\ script.pc = "write" /\ script.name = "workflows" =>
          \A l \in Lanes : ToldOf(script.out[l], l)
    /\ script.pc = "write" /\ script.name \in Lanes => script.out # "verified"

\* The scripts of the audit, at the commit of the audit as long as there is no other.
GateAlone ==
    /\ gate.pc > 0 /\ AtWork =>
          <<gate.pc, script.name>> \in {<<1, "alignment">>, <<3, "newcomer">>, <<5, "summary">>}
    /\ gate.pc > 0 /\ ~gate.moved =>
          head = gate.commit /\ (AtWork => script.at = gate.commit)

\* What the audit has seen to, step by step.
AlignedNow ==
    /\ aligned = "pass"
    /\ \A l \in Lanes : seen[l].state = "verified" => seen[l].latest = gate.commit

SummaryBacked ==
    \A l \in Lanes :
        "verified" \in {summary.rows[l], summary.lanes[l].state} => <<l, gate.commit>> \in proved

GateSound ==
    gate.pc > 0 /\ ~gate.moved =>
        /\ gate.pc = 1 /\ script.pc = "stamp" => aligned = "fail" \/ AlignedNow
        /\ gate.pc > 1 => AlignedNow
        /\ gate.pc > 4 => newcomer.commit = gate.commit
        /\ gate.pc > 5 \/ (gate.pc = 5 /\ script.pc = "stamp") => SummaryBacked
        /\ gate.pc > 6 => summary.head = gate.commit

ProofInv == ProofTypeOK /\ VerifiedIsProved /\ ScriptSound /\ GateAlone /\ GateSound

LEMMA ProofStarts == ProofInit => ProofInv
<1> SUFFICES ASSUME ProofInit PROVE ProofInv
  OBVIOUS
<1>1. ProofTypeOK
  BY DEF ProofInit, ProofTypeOK, RemoteRuns, NoRemoteRun, NoScript, NoGate
<1>2. VerifiedIsProved
  BY DEF ProofInit, VerifiedIsProved, ToldOf, NoRemoteRun, NoLane
<1>3. ScriptSound /\ GateAlone /\ GateSound
  BY DEF ProofInit, ScriptSound, GateAlone, GateSound, NoScript, NoGate
<1> QED
  BY <1>1, <1>2, <1>3 DEF ProofInv

\* The type is kept.
LEMMA ProofTypes == ProofTypeOK /\ [ProofNext]_proofVars => ProofTypeOK'
<1> SUFFICES ASSUME ProofTypeOK, [ProofNext]_proofVars PROVE ProofTypeOK'
  OBVIOUS
<1> USE DEF ProofTypeOK
<1>1. CASE UNCHANGED proofVars
  BY <1>1 DEF proofVars, world, reports
<1>2. CASE Commit
  BY <1>2 DEF Commit, reports
<1>3. ASSUME NEW l \in Lanes, RemoteStart(l) PROVE ProofTypeOK'
  BY <1>3 DEF RemoteStart, reports, RemoteRuns
<1>4. ASSUME NEW l \in Lanes, NEW st \in {"success", "failure"}, RemoteMoves(l, st)
      PROVE  ProofTypeOK'
  BY <1>4 DEF RemoteMoves, reports, RemoteRuns
<1>5. ASSUME NEW name, NEW out, Start(name, out), UNCHANGED <<world, reports, gate>>
      PROVE  ProofTypeOK'
  BY <1>5 DEF Start, world, reports
<1>6. ASSUME NEW l \in Lanes, Probe_readiness(l) PROVE ProofTypeOK'
  BY <1>5, <1>6 DEF Probe_readiness
<1>7. CASE Probe_workflows
  BY <1>5, <1>7 DEF Probe_workflows
<1>8. ASSUME NEW r \in Plain, Probe_plain(r) PROVE ProofTypeOK'
  BY <1>5, <1>8 DEF Probe_plain
<1>9. CASE ByHand
  BY <1>5, <1>9 DEF ByHand, Begin_alignment, Begin_newcomer, Begin_summary
<1>10. CASE Normalize
  BY <1>10 DEF Normalize, world
<1>11. CASE Write
  BY <1>11 DEF Write, world
<1>12. CASE Stamp
  <2>1. gate' = gate \/ gate' = [gate EXCEPT !.pc = 0] \/ gate' = [gate EXCEPT !.pc = @ + 1]
    BY <1>12 DEF Stamp
  <2> QED
    BY <1>12, <2>1 DEF Stamp, world, NoScript
<1>13. CASE Interrupted
  BY <1>13 DEF Interrupted, world, reports, NoScript
<1>14. CASE GateStart
  <2>1. gate' = [gate EXCEPT !.pc = 1, !.commit = head, !.moved = FALSE, !.runs = @ + 1,
                             !.begun = @ \union {head}]
    BY <1>14 DEF GateStart
  <2>2. /\ gate'.pc = 1
        /\ gate' = [pc |-> gate'.pc, commit |-> gate'.commit, moved |-> gate'.moved,
                     runs |-> gate'.runs, begun |-> gate'.begun, passed |-> gate'.passed]
    BY <2>1
  <2> QED
    BY <1>14, <2>2 DEF GateStart, world, reports
<1>15. CASE GatePrunes
  BY <1>15 DEF GatePrunes, world
<1>16. CASE GateRuns
  BY <1>5, <1>16 DEF GateRuns, Begin_alignment, Begin_newcomer, Begin_summary
<1>17. CASE GateChecks
  BY <1>17 DEF GateChecks, world, reports
<1>18. CASE GateEnds
  <2>1. PICK passed : gate' = [gate EXCEPT !.pc = 0, !.passed = passed]
    BY <1>18 DEF GateEnds
  <2> QED
    BY <1>18, <2>1 DEF GateEnds, world, reports
<1> QED
  BY <1>1, <1>2, <1>3, <1>4, <1>6, <1>7, <1>8, <1>9, <1>10, <1>11, <1>12, <1>13, <1>14, <1>15,
     <1>16, <1>17, <1>18 DEF ProofNext

\* Nothing is claimed of an audit that is not at work.
LEMMA AuditAbsent ==
  ASSUME ProofInv,
         UNCHANGED <<head, remote, proved, seen, ready, aligned, newcomer, summary, script>>,
         ProofTypeOK', gate'.pc = 0
  PROVE  ProofInv'
BY DEF ProofInv, VerifiedIsProved, ToldOf, ScriptSound, GateAlone, GateSound, AtWork

LEMMA CommitKeeps == ASSUME ProofInv, ProofTypeOK', Commit PROVE ProofInv'
<1>1. /\ head' = head + 1 /\ UNCHANGED <<remote, proved, seen, ready, script, newcomer, summary>>
      /\ gate'.pc = gate.pc /\ (gate.pc > 0 => gate'.moved)
  BY DEF Commit, reports, ProofInv, ProofTypeOK
<1>2. VerifiedIsProved' /\ ScriptSound'
  BY <1>1 DEF ProofInv, VerifiedIsProved, ToldOf, ScriptSound
<1>3. GateAlone' /\ GateSound'
  BY <1>1 DEF ProofInv, GateAlone, GateSound, AtWork
<1> QED
  BY <1>2, <1>3 DEF ProofInv

LEMMA RemoteKeeps ==
  ASSUME ProofInv, ProofTypeOK', NEW l \in Lanes,
         RemoteStart(l) \/ \E st \in {"success", "failure"} : RemoteMoves(l, st)
  PROVE  ProofInv'
<1>1. /\ UNCHANGED <<head, seen, ready, aligned, newcomer, summary, script, gate>>
      /\ proved \subseteq proved'
  BY DEF RemoteStart, RemoteMoves, reports
<1>2. \A k \in Lanes : remote'[k].st = "success" => <<k, remote'[k].head>> \in proved'
  <2>1. CASE RemoteStart(l)
    BY <2>1 DEF RemoteStart, ProofInv, ProofTypeOK, VerifiedIsProved
  <2>2. ASSUME NEW st \in {"success", "failure"}, RemoteMoves(l, st)
        PROVE  \A k \in Lanes : remote'[k].st = "success" => <<k, remote'[k].head>> \in proved'
    <3>1. /\ remote'[l].st = st /\ remote'[l].head = remote[l].head
          /\ \A k \in Lanes : k # l => remote'[k] = remote[k]
          /\ st = "success" => <<l, remote[l].head>> \in proved'
      BY <2>2 DEF RemoteMoves, ProofInv, ProofTypeOK, RemoteRuns
    <3> QED
      BY <1>1, <2>2, <3>1 DEF ProofInv, VerifiedIsProved
  <2> QED
    BY <2>1, <2>2
<1>3. VerifiedIsProved' /\ ScriptSound'
  BY <1>1, <1>2 DEF ProofInv, VerifiedIsProved, ToldOf, ScriptSound
<1>4. GateAlone'
  BY <1>1 DEF ProofInv, GateAlone, AtWork
<1>5. GateSound'
  BY <1>1 DEF ProofInv, GateSound, AlignedNow, SummaryBacked
<1> QED
  BY <1>3, <1>4, <1>5 DEF ProofInv

\* By hand only while the audit is not at work.
LEMMA HandKeeps ==
  ASSUME ProofInv, ProofTypeOK', gate.pc = 0, UNCHANGED <<world, reports, gate>>,
         NEW name, NEW out, Start(name, out),
         name = "workflows" => \A l \in Lanes : ToldOf(out[l], l),
         name \in Lanes => out # "verified"
  PROVE  ProofInv'
<1>1. script'.name = name /\ script'.out = out /\ script'.pc = "write"
  BY DEF Start
<1>2. VerifiedIsProved'
  BY DEF ProofInv, VerifiedIsProved, ToldOf, world, reports
<1>3. ScriptSound'
  BY <1>1 DEF ScriptSound, ToldOf, world
<1> QED
  BY <1>2, <1>3 DEF ProofInv, GateAlone, GateSound

\* The scripts that are started by hand.
LEMMA HandsKeep ==
  ASSUME ProofInv, ProofTypeOK',
         \/ Probe_workflows \/ ByHand
         \/ \E l \in Lanes : Probe_readiness(l)
         \/ \E r \in Plain : Probe_plain(r)
  PROVE  ProofInv'
<1>1. gate.pc = 0 /\ UNCHANGED <<world, reports, gate>>
  BY DEF Probe_workflows, ByHand, Probe_readiness, Probe_plain, ByHandNow
<1>2. CASE Probe_workflows
  <2> DEFINE out == [l \in Lanes |-> lane_state(remote[l], head)]
  <2>1. ASSUME NEW l \in Lanes PROVE ToldOf(out[l], l)
    <3>1. out[l] = lane_state(remote[l], head)
      OBVIOUS
    <3>2. remote[l].st = "success" => <<l, remote[l].head>> \in proved
      BY DEF ProofInv, VerifiedIsProved
    <3>3. lane_state(remote[l], head).state = "verified" =>
             remote[l].st = "success" /\ lane_state(remote[l], head).latest = remote[l].head
      <4>1. remote[l].st \in {"none", "queued", "in_progress", "success", "failure"}
        BY DEF ProofInv, ProofTypeOK, RemoteRuns
      <4> QED
        BY <4>1 DEF lane_state, NoLane
    <3> QED
      BY <3>1, <3>2, <3>3 DEF ToldOf
  <2>2. Start("workflows", out)
    BY <1>2 DEF Probe_workflows
  <2>3. "workflows" \notin Lanes
    BY ReportNamesAssumption
  <2> HIDE DEF out
  <2> QED
    BY <1>1, <2>1, <2>2, <2>3, HandKeeps
<1>3. ASSUME NEW l \in Lanes, Probe_readiness(l) PROVE ProofInv'
  <2>1. PICK told \in {"ready", "blocked"} : Start(l, told)
    BY <1>3 DEF Probe_readiness
  <2>2. l # "workflows"
    BY ReportNamesAssumption
  <2> QED
    BY <1>1, <2>1, <2>2, HandKeeps
<1>4. ASSUME NEW r \in Plain, Probe_plain(r) PROVE ProofInv'
  <2>1. Start(r, <<>>)
    BY <1>4 DEF Probe_plain
  <2>2. r # "workflows" /\ r \notin Lanes
    BY ReportNamesAssumption
  <2> QED
    BY <1>1, <2>1, <2>2, HandKeeps
<1>5. CASE ByHand
  <2>1. PICK name \in {"alignment", "newcomer", "summary"} : Start(name, <<>>)
    BY <1>5 DEF ByHand, Begin_alignment, Begin_newcomer, Begin_summary
  <2>2. name # "workflows" /\ name \notin Lanes
    BY ReportNamesAssumption
  <2> QED
    BY <1>1, <2>1, <2>2, HandKeeps
<1> QED
  BY <1>2, <1>3, <1>4, <1>5

LEMMA GateRunsKeeps == ASSUME ProofInv, ProofTypeOK', GateRuns PROVE ProofInv'
<1>1. PICK name : /\ <<gate.pc, name>> \in {<<1, "alignment">>, <<3, "newcomer">>, <<5, "summary">>}
                  /\ Start(name, <<>>)
  BY DEF GateRuns, Begin_alignment, Begin_newcomer, Begin_summary
<1>2. UNCHANGED <<head, remote, proved, seen, ready, aligned, newcomer, summary, gate>>
  BY DEF GateRuns, world, reports
<1>3. script'.name = name /\ script'.pc = "write" /\ script'.at = head
  BY <1>1 DEF Start
<1>4. name # "workflows" /\ name \notin Lanes
  BY <1>1, ReportNamesAssumption
<1>5. VerifiedIsProved' /\ ScriptSound'
  BY <1>2, <1>3, <1>4 DEF ProofInv, VerifiedIsProved, ToldOf, ScriptSound
<1>6. GateAlone'
  BY <1>1, <1>2, <1>3 DEF ProofInv, GateAlone
<1>7. GateSound'
  BY <1>2, <1>3 DEF ProofInv, GateSound, AlignedNow, SummaryBacked
<1> QED
  BY <1>5, <1>6, <1>7 DEF ProofInv

LEMMA GateStartKeeps == ASSUME ProofInv, ProofTypeOK', GateStart PROVE ProofInv'
<1>1. /\ UNCHANGED <<head, remote, proved, seen, ready, aligned, newcomer, summary, script>>
      /\ script.pc = "none"
      /\ gate' = [gate EXCEPT !.pc = 1, !.commit = head, !.moved = FALSE, !.runs = @ + 1,
                               !.begun = @ \union {head}]
  BY DEF GateStart, NoScriptAtWork, world, reports
<1>2. gate'.pc = 1 /\ gate'.commit = head
  BY <1>1 DEF ProofInv, ProofTypeOK
<1>3. VerifiedIsProved' /\ ScriptSound'
  BY <1>1 DEF ProofInv, VerifiedIsProved, ToldOf, ScriptSound
<1>4. GateAlone' /\ GateSound'
  BY <1>1, <1>2 DEF GateAlone, GateSound, AtWork
<1> QED
  BY <1>3, <1>4 DEF ProofInv

LEMMA GatePrunesKeeps == ASSUME ProofInv, ProofTypeOK', GatePrunes PROVE ProofInv'
<1>1. /\ gate.pc = 2 /\ gate'.pc = 3 /\ gate'.commit = gate.commit /\ gate'.moved = gate.moved
      /\ UNCHANGED <<head, remote, proved, aligned, newcomer, summary, script>>
  BY DEF GatePrunes, world, ProofInv, ProofTypeOK
<1>2. PICK old \in SUBSET Probes :
         /\ seen' = IF "workflows" \in old THEN [l \in Lanes |-> NoLane] ELSE seen
         /\ ready' = [l \in Lanes |-> IF l \in old THEN "missing" ELSE ready[l]]
  BY DEF GatePrunes
<1>3. \A l \in Lanes : (seen'[l] = seen[l] \/ seen'[l].state # "verified")
                      /\ (ready'[l] = ready[l] \/ ready'[l] = "missing")
  BY <1>2 DEF NoLane
<1>4. VerifiedIsProved' /\ ScriptSound'
  BY <1>1, <1>3 DEF ProofInv, VerifiedIsProved, ToldOf, ScriptSound
<1>5. ~AtWork
  BY <1>1 DEF ProofInv, GateAlone
<1>6. GateAlone'
  BY <1>1, <1>5 DEF ProofInv, GateAlone, AtWork
<1>7. GateSound'
  BY <1>1, <1>3, <1>5 DEF ProofInv, GateSound, AlignedNow, AtWork
<1> QED
  BY <1>4, <1>6, <1>7 DEF ProofInv

LEMMA GateChecksKeeps == ASSUME ProofInv, ProofTypeOK', GateChecks PROVE ProofInv'
<1>1. /\ gate.pc \in {4, 6} /\ script.pc = "none"
      /\ UNCHANGED <<head, remote, proved, seen, ready, aligned, newcomer, summary, script>>
  BY DEF GateChecks, NoScriptAtWork, world, reports
<1>2. CASE gate' = [gate EXCEPT !.pc = 0]
  BY <1>1, <1>2, AuditAbsent DEF ProofInv, ProofTypeOK
<1>3. CASE gate' # [gate EXCEPT !.pc = 0]
  <2>1. /\ gate' = [gate EXCEPT !.pc = @ + 1]
        /\ gate.pc = 4 => check_newcomer
        /\ gate.pc = 6 => check_summary
    BY <1>3 DEF GateChecks
  <2>2. gate'.pc = gate.pc + 1 /\ gate'.commit = gate.commit /\ gate'.moved = gate.moved
    BY <2>1 DEF ProofInv, ProofTypeOK
  <2>3. VerifiedIsProved' /\ ScriptSound'
    BY <1>1 DEF ProofInv, VerifiedIsProved, ToldOf, ScriptSound
  <2>4. GateAlone'
    BY <1>1, <2>2 DEF ProofInv, GateAlone, AtWork
  <2>5. GateSound'
    BY <1>1, <2>1, <2>2
    DEF ProofInv, GateSound, GateAlone, AlignedNow, SummaryBacked, check_newcomer, check_summary
  <2> QED
    BY <2>3, <2>4, <2>5 DEF ProofInv
<1> QED
  BY <1>2, <1>3

LEMMA NormalizeKeeps == ASSUME ProofInv, ProofTypeOK', Normalize PROVE ProofInv'
<1>1. /\ gate.pc = 0
      /\ UNCHANGED <<head, remote, proved, seen, ready, aligned, newcomer, summary, script, gate>>
  BY DEF Normalize, ByHandNow, world
<1> QED
  BY <1>1, AuditAbsent

LEMMA InterruptedKeeps == ASSUME ProofInv, ProofTypeOK', Interrupted PROVE ProofInv'
<1>1. /\ gate'.pc = 0 /\ script'.pc = "none"
      /\ UNCHANGED <<head, remote, proved, seen, ready>>
  BY DEF Interrupted, NoScript, world, reports, ProofInv, ProofTypeOK
<1> QED
  BY <1>1 DEF ProofInv, VerifiedIsProved, ToldOf, ScriptSound, GateAlone, GateSound

LEMMA GateEndsKeeps == ASSUME ProofInv, ProofTypeOK', GateEnds PROVE ProofInv'
<1>1. UNCHANGED <<head, remote, proved, seen, ready, aligned, newcomer, summary, script>>
  BY DEF GateEnds, world, reports
<1>2. PICK passed : gate' = [gate EXCEPT !.pc = 0, !.passed = passed]
  BY DEF GateEnds
<1>3. gate'.pc = 0
  BY <1>2 DEF ProofInv, ProofTypeOK
<1> QED
  BY <1>1, <1>3, AuditAbsent

LEMMA StampKeeps == ASSUME ProofInv, ProofTypeOK', Stamp PROVE ProofInv'
<1>1. /\ script.pc = "stamp" /\ script'.pc = "none"
      /\ UNCHANGED <<head, remote, proved, seen, ready, aligned, newcomer, summary>>
  BY DEF Stamp, NoScript, world
<1>2. VerifiedIsProved' /\ ScriptSound'
  BY <1>1 DEF ProofInv, VerifiedIsProved, ToldOf, ScriptSound
<1>3. CASE gate.pc = 0 \/ gate' = [gate EXCEPT !.pc = 0]
  <2>1. gate'.pc = 0
    BY <1>3 DEF Stamp, ProofInv, ProofTypeOK
  <2> QED
    BY <1>2, <2>1 DEF ProofInv, GateAlone, GateSound
<1>4. CASE gate.pc # 0 /\ gate' # [gate EXCEPT !.pc = 0]
  <2>1. /\ gate' = [gate EXCEPT !.pc = @ + 1]
        /\ script.name = "alignment" => aligned # "fail"
    BY <1>4 DEF Stamp
  <2>2. gate'.pc = gate.pc + 1 /\ gate'.commit = gate.commit /\ gate'.moved = gate.moved
    BY <2>1 DEF ProofInv, ProofTypeOK
  <2>3. <<gate.pc, script.name>> \in {<<1, "alignment">>, <<3, "newcomer">>, <<5, "summary">>}
    BY <1>1, <1>4 DEF ProofInv, ProofTypeOK, GateAlone, AtWork
  <2>4. GateAlone'
    BY <1>1, <2>2, <2>3 DEF ProofInv, GateAlone, AtWork
  <2>5. GateSound'
    BY <1>1, <2>1, <2>2, <2>3 DEF ProofInv, GateSound, AlignedNow, SummaryBacked
  <2> QED
    BY <1>2, <2>4, <2>5 DEF ProofInv
<1> QED
  BY <1>3, <1>4

\* A lane's row says verified of what the workflows' report calls so, at the commit.
LEMMA RowsOf ==
  ASSUME ProofInv, gate.pc > 1, ~gate.moved, AtWork
  PROVE  \A l \in Lanes :
             "verified" \in {Rendered.rows[l], Rendered.lanes[l].state}
                => <<l, gate.commit>> \in proved
<1> SUFFICES ASSUME NEW l \in Lanes,
                    "verified" \in {Rendered.rows[l], Rendered.lanes[l].state}
             PROVE  <<l, gate.commit>> \in proved
  OBVIOUS
<1>1. /\ Rendered.lanes = seen
      /\ Rendered.rows[l] = IF l = "ghcr" THEN ghcr_state(script.at) ELSE release_state(script.at)
  BY DEF Rendered
<1>2. l \in {"ghcr", "release"} /\ ready[l] # "verified" /\ ToldOf(seen[l], l)
  BY ReportNamesAssumption DEF ProofInv, VerifiedIsProved
<1>3. seen[l].state = "verified"
  BY <1>1, <1>2 DEF ghcr_state, release_state
<1>4. seen[l].latest = gate.commit
  BY <1>3 DEF ProofInv, ProofTypeOK, GateSound, AlignedNow
<1> QED
  BY <1>2, <1>3, <1>4 DEF ToldOf

LEMMA WriteKeeps == ASSUME ProofInv, ProofTypeOK', Write PROVE ProofInv'
<1>1. /\ script.pc = "write" /\ script'.pc = "stamp" /\ script'.at = script.at
      /\ script'.name = script.name
      /\ UNCHANGED <<head, remote, proved, gate>>
  BY DEF Write, world, ProofInv, ProofTypeOK
<1>2. \A l \in Lanes : ToldOf(seen'[l], l) /\ ready'[l] # "verified"
  <2>1. seen' = IF script.name = "workflows" THEN script.out ELSE seen
    BY DEF Write
  <2>2. ready' = IF script.name \in Lanes THEN [ready EXCEPT ![script.name] = script.out] ELSE ready
    BY DEF Write
  <2>3. \A l \in Lanes : ToldOf(seen'[l], l)
    BY <1>1, <2>1 DEF ProofInv, VerifiedIsProved, ScriptSound
  <2>4. \A l \in Lanes : ready'[l] # "verified"
    BY <1>1, <2>2 DEF ProofInv, ProofTypeOK, VerifiedIsProved, ScriptSound
  <2> QED
    BY <2>3, <2>4
<1>3. VerifiedIsProved' /\ ScriptSound'
  BY <1>1, <1>2 DEF ProofInv, VerifiedIsProved, ToldOf, ScriptSound
<1>4. GateAlone'
  BY <1>1 DEF ProofInv, GateAlone, AtWork
<1>5. GateSound'
  <2> SUFFICES ASSUME gate.pc > 0, ~gate.moved PROVE GateSound'
    BY <1>1 DEF GateSound
  <2>1. /\ <<gate.pc, script.name>> \in {<<1, "alignment">>, <<3, "newcomer">>, <<5, "summary">>}
        /\ script.at = gate.commit
    BY <1>1 DEF ProofInv, GateAlone, AtWork
  <2>2. UNCHANGED seen
    BY <2>1 DEF Write
  <2>3. CASE script.name = "alignment"
    <3>1. aligned' = IF AlignmentErrors THEN "fail" ELSE "pass"
      BY <2>3 DEF Write
    <3>2. ~AlignmentErrors =>
            \A l \in Lanes : seen[l].state = "verified" => seen[l].latest = gate.commit
      BY <2>1 DEF AlignmentErrors, NestedErrors
    <3>3. aligned' = "fail" \/ AlignedNow'
      BY <1>1, <2>2, <3>1, <3>2 DEF AlignedNow
    <3> QED
      BY <1>1, <2>1, <2>3, <3>3 DEF GateSound
  <2>4. CASE script.name = "newcomer"
    BY <1>1, <2>1, <2>2, <2>4 DEF Write, ProofInv, GateSound, AlignedNow
  <2>5. CASE script.name = "summary"
    <3>1. UNCHANGED <<aligned, newcomer>> /\ summary' = Rendered /\ gate.pc = 5
      BY <2>1, <2>5 DEF Write
    <3>2. SummaryBacked'
      BY <1>1, <3>1, RowsOf DEF SummaryBacked, AtWork
    <3> QED
      BY <1>1, <2>2, <3>1, <3>2 DEF ProofInv, GateSound, AlignedNow
  <2> QED
    BY <2>1, <2>3, <2>4, <2>5
<1> QED
  BY <1>3, <1>4, <1>5 DEF ProofInv

LEMMA ProofKeeps == ProofInv /\ [ProofNext]_proofVars => ProofInv'
<1> SUFFICES ASSUME ProofInv, [ProofNext]_proofVars PROVE ProofInv'
  OBVIOUS
<1>1. ProofTypeOK'
  BY ProofTypes DEF ProofInv
<1>2. CASE UNCHANGED proofVars
  BY <1>1, <1>2
  DEF proofVars, world, reports, ProofInv, VerifiedIsProved, ToldOf, ScriptSound, GateAlone, AtWork,
      GateSound, AlignedNow, SummaryBacked
<1>3. CASE ProofNext
  BY <1>1, <1>3, CommitKeeps, RemoteKeeps, HandsKeep, NormalizeKeeps, WriteKeeps, StampKeeps,
     InterruptedKeeps, GateStartKeeps, GatePrunesKeeps, GateRunsKeeps, GateChecksKeeps,
     GateEndsKeeps
  DEF ProofNext
<1> QED
  BY <1>2, <1>3

\* AuditedGreenIsProved, whatever the lanes and the commits: what a green audit calls verified has
\* succeeded remotely, at the commit of the audit.
THEOREM AuditedIsProved == ProofSpec => []AuditedGreenIsProved
<1>1. ProofInv => AuditedGreenIsProved
  BY DEF ProofInv, AuditedGreenIsProved, GateSound, AlignedNow, SummaryBacked
<1> QED
  BY <1>1, ProofStarts, ProofKeeps, PTL DEF ProofSpec

-----------------------------------------------------------------------------
(*****************************************************************************)
(* Evidence.  What the audit has cleaned and indexed stays clean and listed   *)
(* while nobody writes (AuditSound), provided the files are sound.  Of a run  *)
(* that was never cut short, RunLogged tells why a manifest that is found is  *)
(* complete: the log is younger, is kept longer, and is known to be its own.  *)
(*****************************************************************************)
IsFile(f) ==
    /\ f = [at |-> f.at, text |-> f.text, done |-> f.done, lists |-> f.lists,
            born |-> f.born, owner |-> f.owner, window |-> f.window]
    /\ f.at \in Nat /\ f.born \in Nat /\ f.window \in Nat
    /\ f.at = 0 => f.text = "none"

EvidenceTypeOK ==
    /\ file = [p \in Paths |-> file[p]]
    /\ \A p \in Paths : IsFile(file[p]) /\ file[p].at <= today
    /\ evRun \in [EvRuns -> 1..Ended]
    /\ today \in Nat \ {0}
    /\ audit = [pc |-> audit.pc, quiet |-> audit.quiet]

\* A sidecar names a run.
OwnedBy(f) == f.born > 0 => f.owner \in Ids
OwnersSound == \A p \in Paths : OwnedBy(file[p])

\* The log of a run is never older than its manifest, and goes no earlier.
LogOutlives(log, manifest) ==
    manifest.at > 0 =>
        /\ log.at >= manifest.at
        /\ log.born > 0 => log.born >= manifest.at
        /\ manifest.born > 0 => manifest.born = manifest.at

\* The log of r is known to be its own, or will be.
OwnLog(log, r) ==
    /\ log.born > 0 => log.owner = r
    /\ log.at > 0 /\ log.born = 0 => log.text = "whole"

RunLogged(r) ==
    r \notin cut =>
        /\ evRun[r] \in {1, 2} => file[Manifest(r)].at = 0 /\ file[Manifest(r)].born = 0
        /\ evRun[r] = 1 => file[Log(r)].at = 0 /\ file[Log(r)].born = 0
        /\ evRun[r] = 2 => file[Log(r)].at = today /\ file[Log(r)].born \in {0, today}
        /\ evRun[r] < Ended /\ file[Log(r)].at > 0 => file[Log(r)].text = "whole"
        /\ file[Manifest(r)].at > 0 => file[Manifest(r)].text = "whole"
        /\ OwnLog(file[Log(r)], r)
        /\ LogOutlives(file[Log(r)], file[Manifest(r)])

Clean == \A p \in Paths : There(p) => HasSidecar(p) /\ ~Overdue(p, file[p])

Listed ==
    \A p \in Paths : p[1] \in {"log", "evidence"} /\ There(p) /\ HasSidecar(p) =>
        file[Index(file[p].owner)].text = "whole" /\ p \in file[Index(file[p].owner)].lists

AuditSound ==
    audit.quiet =>
        /\ audit.pc # "failed"
        /\ audit.pc = "incomplete" => \A r \in EvRuns \ cut : Passes(r)
        /\ audit.pc \in {"index", "retention", "freshness", "index again", "unindexed", "manifests"}
              => Clean
        /\ audit.pc \in {"unindexed", "manifests"} => Listed

FilesSound == EvidenceTypeOK /\ OwnersSound /\ (\A r \in EvRuns : RunLogged(r))
EvidenceInv == FilesSound /\ AuditSound

\* The paths are different, and of the kind that their name says.
LEMMA PathFacts ==
  /\ \A r \in EvRuns : /\ Log(r) \in Paths /\ Log(r)[1] = "log" /\ Log(r)[2] = r
                       /\ Manifest(r) \in Paths /\ Manifest(r)[1] = "manifest"
  /\ \A r, s \in EvRuns :
        Log(r) # Manifest(s) /\ (r # s => Log(r) # Log(s) /\ Manifest(r) # Manifest(s))
  /\ Shot \in Paths /\ Shot[1] = "evidence"
  /\ \A id \in Ids : Index(id) \in Paths /\ Index(id)[1] = "index" /\ Index(id)[2] = id
  /\ \A p \in Paths : p # Shot => p[1] \in {"log", "manifest", "index"} /\ p[2] \in Ids
  /\ \A p \in Paths : p[1] = "index" => p = Index(p[2])
<1>1. \A r \in EvRuns : r \in Ids
  BY DEF Ids
<1>2. \A r \in EvRuns : /\ Log(r) \in Paths /\ Log(r)[1] = "log" /\ Log(r)[2] = r
                        /\ Manifest(r) \in Paths /\ Manifest(r)[1] = "manifest"
  BY <1>1 DEF Log, Manifest, Paths
<1>3. \A r, s \in EvRuns :
         Log(r) # Manifest(s) /\ (r # s => Log(r) # Log(s) /\ Manifest(r) # Manifest(s))
  BY DEF Log, Manifest
<1>4. Shot \in Paths /\ Shot[1] = "evidence"
  BY DEF Shot, Paths
<1>5. \A id \in Ids : Index(id) \in Paths /\ Index(id)[1] = "index" /\ Index(id)[2] = id
  BY DEF Index, Paths
<1>6. \A p \in Paths : p # Shot => /\ p[1] \in {"log", "manifest", "index"} /\ p[2] \in Ids
                                   /\ p = <<p[1], p[2]>>
  BY DEF Paths
<1>7. \A p \in Paths : p[1] = "index" => p = Index(p[2])
  BY <1>4, <1>6 DEF Index
<1> QED
  BY <1>2, <1>3, <1>4, <1>5, <1>6, <1>7

LEMMA EvidenceStarts == EvidenceInit => EvidenceInv
<1> SUFFICES ASSUME EvidenceInit PROVE EvidenceInv
  OBVIOUS
<1>1. \A p \in Paths : file[p] = NoFile
  BY DEF EvidenceInit
<1>2. IsFile(NoFile) /\ NoFile.at = 0 /\ NoFile.born = 0
  BY DEF IsFile, NoFile
<1>3. EvidenceTypeOK
  BY <1>1, <1>2 DEF EvidenceInit, EvidenceTypeOK, Ended, NoAudit
<1>4. OwnersSound
  BY <1>1, <1>2 DEF OwnersSound, OwnedBy
<1>5. \A r \in EvRuns : RunLogged(r)
  BY <1>1, <1>2, PathFacts DEF EvidenceInit, RunLogged, LogOutlives, OwnLog
<1>6. AuditSound
  BY DEF EvidenceInit, AuditSound, NoAudit
<1> QED
  BY <1>3, <1>4, <1>5, <1>6 DEF EvidenceInv, FilesSound

\* A sidecar is written: the file itself stays.
LEMMA SidecarOf ==
  ASSUME NEW f, IsFile(f), NEW born \in Nat, NEW owner, NEW window \in Nat,
         NEW z, z = Sidecar(f, born, owner, window)
  PROVE  /\ IsFile(z) /\ z.at = f.at /\ z.born = born /\ z.owner = owner /\ z.window = window
         /\ z.lists = f.lists /\ z.text = f.text
BY DEF IsFile, Sidecar

\* One file is written.
LEMMA OneFile ==
  ASSUME EvidenceTypeOK, NEW q \in Paths, NEW z, IsFile(z), z.at <= today, UNCHANGED today,
         file' = [file EXCEPT ![q] = z]
  PROVE  /\ file' = [p \in Paths |-> file'[p]] /\ file'[q] = z
         /\ \A p \in Paths : p # q => file'[p] = file[p]
         /\ \A p \in Paths : IsFile(file'[p]) /\ file'[p].at <= today'
BY DEF EvidenceTypeOK

\* The file a run is about to write.
LEMMA PathOfRun ==
  ASSUME EvidenceTypeOK, NEW r \in EvRuns, evRun[r] < Ended
  PROVE  /\ PathOf(r) \in Paths
         /\ \/ evRun[r] \in {1, 4} /\ PathOf(r) = Log(r)
            \/ evRun[r] = 2 /\ PathOf(r) = Manifest(r)
            \/ evRun[r] = 3 /\ PathOf(r) = Shot
<1>1. evRun[r] \in {1, 2, 3, 4}
  BY DEF EvidenceTypeOK, Ended
<1> QED
  BY <1>1, PathFacts DEF PathOf, Plan

\* What a run that is not cut short has written at its step.
WellWritten(r, z) ==
    /\ evRun[r] \in {1, 2} => z.at = today /\ z.text = "whole"
    /\ evRun[r] = 4 => z.text = "whole" \/ z.born > 0

\* A run writes its next file, in whole or in part, with or without its sidecar.
LEMMA EvRunStep ==
  ASSUME FilesSound, NEW r \in EvRuns, evRun[r] < Ended, UNCHANGED today,
         \A s \in EvRuns : s \in cut => s \in cut', NEW z, IsFile(z),
         z = file[PathOf(r)] \/ z.at = today,
         z.born > 0 => \/ z.born = today /\ z.owner = r
                       \/ z.born = file[PathOf(r)].born /\ z.owner = file[PathOf(r)].owner,
         r \notin cut' => WellWritten(r, z),
         file' = [file EXCEPT ![PathOf(r)] = z],
         NEW n, evRun' = [evRun EXCEPT ![r] = n],
         n = evRun[r] + 1 \/ (n = Ended /\ PathOf(r) # Log(r)),
         audit' = [pc |-> audit'.pc, quiet |-> audit'.quiet]
  PROVE  FilesSound'
<1>1. /\ EvidenceTypeOK /\ OwnersSound /\ (\A s \in EvRuns : RunLogged(s))
      /\ today \in Nat \ {0} /\ evRun \in [EvRuns -> 1..Ended]
      /\ \A p \in Paths : IsFile(file[p]) /\ file[p].at <= today /\ OwnedBy(file[p])
  BY DEF FilesSound, EvidenceTypeOK, OwnersSound
<1>2. /\ PathOf(r) \in Paths
      /\ \/ evRun[r] \in {1, 4} /\ PathOf(r) = Log(r)
         \/ evRun[r] = 2 /\ PathOf(r) = Manifest(r)
         \/ evRun[r] = 3 /\ PathOf(r) = Shot
  BY <1>1, PathOfRun
<1> DEFINE q == PathOf(r)
<1>3. /\ file' = [p \in Paths |-> file'[p]] /\ file'[q] = z
      /\ \A p \in Paths : p # q => file'[p] = file[p]
      /\ \A p \in Paths : IsFile(file'[p]) /\ file'[p].at <= today'
  <2>1. z.at <= today
    BY <1>1, <1>2
  <2> QED
    BY <1>1, <1>2, <2>1, OneFile
<1>4. /\ evRun' \in [EvRuns -> 1..Ended] /\ evRun'[r] = n
      /\ \A s \in EvRuns : s # r => evRun'[s] = evRun[s]
  BY <1>1 DEF Ended
<1>5. EvidenceTypeOK'
  BY <1>1, <1>3, <1>4 DEF EvidenceTypeOK
<1>6. OwnersSound'
  <2>1. OwnedBy(z)
    BY <1>1, <1>2 DEF OwnedBy, Ids
  <2> QED
    BY <2>1, <1>1, <1>3 DEF OwnersSound, OwnedBy
<1>7. ASSUME NEW s \in EvRuns, s # r PROVE RunLogged(s)'
  <2>1. Log(s) # q /\ Manifest(s) # q
    BY <1>2, <1>7, PathFacts DEF Log, Manifest, Shot
  <2>2. file'[Log(s)] = file[Log(s)] /\ file'[Manifest(s)] = file[Manifest(s)]
    BY <2>1, <1>3, PathFacts
  <2>3. s \notin cut' => s \notin cut
    OBVIOUS
  <2> QED
    BY <2>2, <2>3, <1>1, <1>4, <1>7 DEF RunLogged, LogOutlives, OwnLog
<1>8. RunLogged(r)'
  <2> SUFFICES ASSUME r \notin cut' PROVE RunLogged(r)'
    BY DEF RunLogged
  <2> DEFINE l == file[Log(r)]
             m == file[Manifest(r)]
             lp == file'[Log(r)]
             mp == file'[Manifest(r)]
  <2>0. /\ r \notin cut /\ RunLogged(r) /\ WellWritten(r, z)
        /\ evRun[r] \in Nat /\ today \in Nat \ {0} /\ today' = today
        /\ l.at \in Nat /\ m.at \in Nat /\ l.at <= today /\ m.at <= today
        /\ l.born \in Nat /\ m.born \in Nat /\ z.born \in Nat
    <3>1. Log(r) \in Paths /\ Manifest(r) \in Paths
      BY PathFacts
    <3>2. IsFile(l) /\ IsFile(m) /\ l.at <= today /\ m.at <= today
      BY <1>1, <3>1
    <3> QED
      BY <1>1, <3>2 DEF IsFile
  <2>5. /\ Log(r) \in Paths /\ Manifest(r) \in Paths /\ Log(r) # Manifest(r)
        /\ Shot # Log(r) /\ Shot # Manifest(r)
    BY PathFacts DEF Log, Manifest, Shot
  <2>1. CASE evRun[r] = 1
    <3>1. /\ lp = z /\ mp = m /\ m.at = 0 /\ m.born = 0 /\ n = 2 /\ z.at = today
          /\ z.text = "whole" /\ z.born \in {0, today} /\ (z.born > 0 => z.owner = r)
      BY <2>1, <2>0, <2>5, <1>2, <1>3 DEF RunLogged, WellWritten
    <3> QED
      BY <3>1, <2>0, <1>4 DEF RunLogged, LogOutlives, OwnLog
  <2>2. CASE evRun[r] = 2
    <3>1. /\ mp = z /\ lp = l /\ z.born \in {0, today} /\ n \in {3, 5}
          /\ l.at = today /\ l.born \in {0, today} /\ z.at = today /\ z.text = "whole"
          /\ l.text = "whole" /\ OwnLog(l, r)
      BY <2>2, <2>0, <2>5, <1>2, <1>3 DEF RunLogged, Ended, WellWritten
    <3> QED
      BY <3>1, <2>0, <1>4 DEF RunLogged, LogOutlives, OwnLog
  <2>3. CASE evRun[r] = 3
    <3>1. /\ mp = m /\ lp = l /\ n \in {4, 5} /\ LogOutlives(l, m) /\ OwnLog(l, r)
          /\ l.at > 0 => l.text = "whole"
          /\ m.at > 0 => m.text = "whole"
      BY <2>3, <2>0, <2>5, <1>2, <1>3 DEF RunLogged, Ended
    <3> QED
      BY <3>1, <2>0, <1>4 DEF RunLogged, LogOutlives, OwnLog
  <2>4. CASE evRun[r] = 4
    <3>1. /\ mp = m /\ lp = z /\ n = 5 /\ LogOutlives(l, m) /\ OwnLog(l, r)
          /\ m.at > 0 => m.text = "whole"
      BY <2>4, <2>0, <2>5, <1>2, <1>3 DEF RunLogged, Ended
    <3>2. /\ z.born > 0 => z.owner = r /\ (z.born = today \/ z.born = l.born)
          /\ z.born = 0 => z.text = "whole"
          /\ z = l \/ z.at = today
      BY <2>4, <2>0, <2>5, <1>2, <3>1 DEF OwnLog, WellWritten
    <3>3. LogOutlives(z, m) /\ OwnLog(z, r)
      BY <3>1, <3>2, <2>0 DEF LogOutlives, OwnLog
    <3> QED
      BY <3>1, <3>3, <2>0, <1>4 DEF RunLogged, LogOutlives, OwnLog, Ended
  <2> QED
    BY <1>2, <2>1, <2>2, <2>3, <2>4
<1> QED
  BY <1>5, <1>6, <1>7, <1>8 DEF FilesSound

LEMMA NormalOf ==
  ASSUME EvidenceTypeOK, OwnersSound, NEW p \in Paths, NEW z, z = Normalized(p)
  PROVE  /\ IsFile(z) /\ z.at = file[p].at /\ z.text = file[p].text /\ z.at <= today
         /\ OwnedBy(z)
         /\ z.at > 0 => z.born > 0
         /\ \/ z = file[p]
            \/ /\ file[p].at > 0 /\ file[p].born = 0 /\ z.born = z.at
               /\ z.owner = infer_source_run_id(p)
<1>1. IsFile(file[p]) /\ file[p].at <= today /\ OwnedBy(file[p])
  BY DEF EvidenceTypeOK, OwnersSound
<1>2. CASE There(p) /\ ~HasSidecar(p)
  <2>1. infer_source_run_id(p) \in Ids
    BY PathFacts DEF infer_source_run_id, Ids
  <2>2. Ttl(p) \in Nat
    BY TtlAssumption DEF Ttl
  <2>3. z = Sidecar(file[p], file[p].at, infer_source_run_id(p), Ttl(p))
    BY <1>2 DEF Normalized
  <2>4. /\ IsFile(z) /\ z.at = file[p].at /\ z.born = file[p].at /\ z.text = file[p].text
        /\ z.owner = infer_source_run_id(p)
    BY <1>1, <2>2, <2>3, SidecarOf DEF IsFile
  <2> QED
    BY <1>1, <1>2, <2>1, <2>4 DEF IsFile, OwnedBy, There, HasSidecar
<1>3. CASE ~(There(p) /\ ~HasSidecar(p))
  <2>1. z = file[p]
    BY <1>3 DEF Normalized
  <2> QED
    BY <1>1, <1>3, <2>1 DEF There, HasSidecar, IsFile
<1> QED
  BY <1>2, <1>3

\* What a run writes is a file of the day.
LEMMA WrittenFile ==
  ASSUME FilesSound, NEW r \in EvRuns, evRun[r] < Ended, NEW text,
         NEW z, z = Written(r, text)
  PROVE  /\ IsFile(z) /\ z.at = today /\ z.text = TextAfter(PathOf(r), text)
         /\ z.born = file[PathOf(r)].born /\ z.owner = file[PathOf(r)].owner
<1>1. PathOf(r) \in Paths
  BY PathOfRun DEF FilesSound
<1>2. IsFile(file[PathOf(r)]) /\ today \in Nat \ {0}
  BY <1>1 DEF FilesSound, EvidenceTypeOK
<1> QED
  BY <1>2 DEF IsFile, Written

\* What a run that was not cut short writes in whole is whole.
LEMMA WholeAfter ==
  ASSUME FilesSound, NEW r \in EvRuns, evRun[r] < Ended, r \notin cut
  PROVE  TextAfter(PathOf(r), "whole") = "whole"
<1>1. /\ \/ evRun[r] \in {1, 4} /\ PathOf(r) = Log(r)
         \/ PathOf(r) = Manifest(r)
         \/ PathOf(r) = Shot
      /\ PathOf(r) \in Paths
  BY PathOfRun DEF FilesSound
<1>2. CASE PathOf(r) = Log(r)
  <2>1. IsFile(file[Log(r)])
    BY <1>1, <1>2 DEF FilesSound, EvidenceTypeOK
  <2>2. file[Log(r)].at > 0 => file[Log(r)].text = "whole"
    BY DEF FilesSound, RunLogged
  <2>3. file[Log(r)].text \in {"none", "whole"}
    BY <2>1, <2>2 DEF IsFile
  <2> QED
    BY <1>2, <2>3 DEF TextAfter
<1>3. CASE PathOf(r) # Log(r)
  BY <1>1, <1>3, PathFacts DEF TextAfter
<1> QED
  BY <1>2, <1>3

LEMMA RunWritesKeeps ==
  ASSUME EvidenceInv, NEW r \in EvRuns, RunWrites(r) PROVE EvidenceInv'
<1>1. /\ evRun[r] < Ended /\ today' = today /\ FilesSound /\ EvidenceTypeOK
      /\ audit' = [audit EXCEPT !.quiet = FALSE] /\ cut' = cut
      /\ evRun' = [evRun EXCEPT ![r] = evRun[r] + 1]
  BY DEF RunWrites, Disturbed, EvidenceInv, FilesSound
<1>2. PICK f : f = Written(r, "whole")
  OBVIOUS
<1>3. PICK z : z = Sidecar(f, today, r, WriterWindow(PathOf(r)))
  OBVIOUS
<1>4. file' = [file EXCEPT ![PathOf(r)] = z]
  BY <1>2, <1>3 DEF RunWrites
<1>5. IsFile(f) /\ f.at = today /\ f.text = TextAfter(PathOf(r), "whole")
  BY <1>1, <1>2, WrittenFile
<1>6. IsFile(z) /\ z.at = today /\ z.born = today /\ z.owner = r /\ z.text = f.text
  <2>1. WriterWindow(PathOf(r)) \in Nat /\ today \in Nat
    BY <1>1, TtlAssumption DEF WriterWindow, EvidenceTypeOK
  <2> QED
    BY <1>3, <1>5, <2>1, SidecarOf
<1>7. audit' = [pc |-> audit.pc, quiet |-> FALSE] /\ ~audit'.quiet
  BY <1>1 DEF EvidenceTypeOK
<1>8. FilesSound'
  <2>1. audit' = [pc |-> audit'.pc, quiet |-> audit'.quiet]
    BY <1>7
  <2>2. r \notin cut' => WellWritten(r, z)
    BY <1>1, <1>5, <1>6, WholeAfter DEF WellWritten
  <2> QED
    BY <1>1, <1>4, <1>6, <2>1, <2>2, EvRunStep
<1>9. AuditSound'
  BY <1>7 DEF AuditSound
<1> QED
  BY <1>8, <1>9 DEF EvidenceInv

LEMMA WriterDiesKeeps ==
  ASSUME EvidenceInv, NEW r \in EvRuns, WriterDies(r) PROVE EvidenceInv'
<1>1. /\ evRun[r] < Ended /\ today' = today /\ FilesSound /\ EvidenceTypeOK
      /\ audit' = [audit EXCEPT !.quiet = FALSE] /\ today \in Nat \ {0}
  BY DEF WriterDies, Disturbed, EvidenceInv, FilesSound, EvidenceTypeOK
<1>2. PICK z \in LeftBy(r) :
        /\ file' = [file EXCEPT ![PathOf(r)] = z]
        /\ cut' = IF CutShort(PathOf(r), z) THEN cut \union {r} ELSE cut
  BY DEF WriterDies
<1>3. PICK n : n = IF PathOf(r) = Log(r) THEN evRun[r] + 1 ELSE Ended
  OBVIOUS
<1>4. evRun' = [evRun EXCEPT ![r] = n]
  BY <1>3 DEF WriterDies
<1>5. PICK q : q = PathOf(r)
  OBVIOUS
<1>6. PICK f : f = file[q]
  OBVIOUS
<1>7. /\ q \in Paths /\ IsFile(f)
      /\ \/ evRun[r] \in {1, 4} /\ q = Log(r)
         \/ evRun[r] = 2 /\ q = Manifest(r)
         \/ evRun[r] = 3 /\ q = Shot
  <2>1. PathOf(r) \in Paths
    BY <1>1, PathOfRun
  <2> QED
    BY <1>1, <1>5, <1>6, <2>1, PathOfRun DEF EvidenceTypeOK
<1>8. \/ z = f
      \/ /\ IsFile(z) /\ z.at = today
         /\ z.born = 0 \/ (z.born = f.born /\ z.owner = f.owner)
  <2>1. CASE z = f
    BY <2>1
  <2>2. ASSUME NEW text, z = Written(r, text) PROVE IsFile(z) /\ z.at = today
                                           /\ z.born = f.born /\ z.owner = f.owner
    BY <1>1, <1>5, <1>6, <2>2, WrittenFile
  <2>3. CASE z = NoSidecar(Written(r, "whole"))
    <3>1. PICK w : w = Written(r, "whole")
      OBVIOUS
    <3>2. IsFile(w) /\ w.at = today
      BY <1>1, <3>1, WrittenFile
    <3>3. z = Sidecar(w, 0, "none", 0)
      BY <2>3, <3>1 DEF NoSidecar
    <3> QED
      BY <3>2, <3>3, SidecarOf
  <2>4. z \in {f, Written(r, "whole"), NoSidecar(Written(r, "whole"))} \union
               {Written(r, text) : text \in CutTexts(PathOf(r))}
    BY <1>2, <1>5, <1>6 DEF LeftBy
  <2> QED
    BY <2>1, <2>2, <2>3, <2>4
<1>9. IsFile(z) /\ (z = f \/ z.at = today)
  BY <1>7, <1>8
<1>10. z.born > 0 => z.born = f.born /\ z.owner = f.owner
  BY <1>8
<1>11. \A s \in EvRuns : s \in cut => s \in cut'
  BY <1>2
<1>12. r \notin cut' => WellWritten(r, z)
  <2> SUFFICES ASSUME r \notin cut' PROVE WellWritten(r, z)
    OBVIOUS
  <2>1. r \notin cut /\ ~CutShort(q, z)
    BY <1>2, <1>5
  <2>2. CASE q = Shot
    BY <2>2, <1>7, PathFacts DEF WellWritten
  <2>3. CASE q # Shot
    <3>1. z.text = "whole" \/ z.born > 0
      BY <2>1, <2>3, <1>9 DEF CutShort, IsFile
    <3>2. ASSUME evRun[r] \in {1, 2} PROVE z.at = today /\ z.text = "whole"
      <4>1. f.at = 0 /\ f.born = 0
        <5>1. RunLogged(r)
          BY <1>1 DEF FilesSound
        <5> QED
          BY <5>1, <3>2, <2>1, <1>6, <1>7 DEF RunLogged
      <4>2. z.text = "whole"
        BY <3>1, <1>10, <4>1
      <4>3. z # f
        BY <4>1, <4>2, <1>7 DEF IsFile
      <4> QED
        BY <4>2, <4>3, <1>9
    <3> QED
      BY <3>1, <3>2 DEF WellWritten
  <2> QED
    BY <2>2, <2>3
<1>13. audit' = [pc |-> audit.pc, quiet |-> FALSE] /\ ~audit'.quiet
  BY <1>1 DEF EvidenceTypeOK
<1>14. FilesSound'
  <2>1. audit' = [pc |-> audit'.pc, quiet |-> audit'.quiet]
    BY <1>13
  <2>2. n = evRun[r] + 1 \/ (n = Ended /\ PathOf(r) # Log(r))
    BY <1>3
  <2>3. /\ z = file[PathOf(r)] \/ z.at = today
        /\ z.born > 0 => z.born = file[PathOf(r)].born /\ z.owner = file[PathOf(r)].owner
    BY <1>5, <1>6, <1>9, <1>10
  <2> QED
    BY <1>1, <1>2, <1>4, <1>9, <1>11, <1>12, <2>1, <2>2, <2>3, EvRunStep
<1>15. AuditSound'
  BY <1>13 DEF AuditSound
<1> QED
  BY <1>14, <1>15 DEF EvidenceInv

\* A step that writes no file: what it may do to the day.
LEMMA EvFilesStay ==
  ASSUME FilesSound, UNCHANGED <<file, evRun, cut>>,
         audit' = [pc |-> audit'.pc, quiet |-> audit'.quiet],
         today' \in Nat \ {0}, today <= today',
         \A r \in EvRuns : evRun[r] = 2 => today' = today
  PROVE  FilesSound'
<1>1. EvidenceTypeOK'
  BY DEF FilesSound, EvidenceTypeOK, IsFile
<1>2. OwnersSound'
  BY DEF FilesSound, OwnersSound, OwnedBy
<1>3. ASSUME NEW r \in EvRuns PROVE RunLogged(r)'
  BY DEF FilesSound, RunLogged, LogOutlives, OwnLog, Log, Manifest
<1> QED
  BY <1>1, <1>2, <1>3 DEF FilesSound

LEMMA NextDayKeeps ==
  ASSUME EvidenceInv, NextDay PROVE EvidenceInv'
<1>1. /\ FilesSound /\ EvidenceTypeOK /\ UNCHANGED <<file, evRun, cut>> /\ today' = today + 1
      /\ audit' = [audit EXCEPT !.quiet = FALSE] /\ \A r \in EvRuns : evRun[r] # 2
  BY DEF NextDay, Disturbed, EvidenceInv, FilesSound
<1>2. /\ today' \in Nat \ {0} /\ today <= today'
      /\ audit' = [pc |-> audit.pc, quiet |-> FALSE] /\ ~audit'.quiet
  <2>1. audit' = [pc |-> audit.pc, quiet |-> FALSE] /\ ~audit'.quiet
    BY <1>1 DEF EvidenceTypeOK
  <2>2. today \in Nat \ {0}
    BY <1>1 DEF EvidenceTypeOK
  <2>3. today' \in Nat \ {0} /\ today <= today'
    BY <1>1, <2>2
  <2> QED
    BY <2>1, <2>3
<1>3. audit' = [pc |-> audit'.pc, quiet |-> audit'.quiet]
  BY <1>2
<1>4. FilesSound'
  BY <1>1, <1>2, <1>3, EvFilesStay
<1>5. AuditSound'
  BY <1>2 DEF AuditSound
<1> QED
  BY <1>4, <1>5 DEF EvidenceInv

\* An audit's step that writes no file.
LEMMA EvAuditStep ==
  ASSUME EvidenceInv, UNCHANGED <<file, evRun, today, cut>>,
         audit' = [pc |-> audit'.pc, quiet |-> audit'.quiet], AuditSound'
  PROVE  EvidenceInv'
<1>1. FilesSound /\ EvidenceTypeOK
  BY DEF EvidenceInv, FilesSound
<1>2. today \in Nat \ {0}
  BY <1>1 DEF EvidenceTypeOK
<1>3. FilesSound'
  BY <1>1, <1>2, EvFilesStay
<1> QED
  BY <1>3 DEF EvidenceInv

LEMMA AuditBeginsKeeps == EvidenceInv /\ AuditBegins => EvidenceInv'
<1> SUFFICES ASSUME EvidenceInv, AuditBegins PROVE EvidenceInv'
  OBVIOUS
<1>1. audit' = [pc |-> audit'.pc, quiet |-> audit'.quiet] /\ audit'.pc = "prune"
  BY DEF AuditBegins
<1>2. AuditSound'
  BY <1>1 DEF AuditSound
<1> QED
  BY <1>1, <1>2, EvAuditStep DEF AuditBegins

LEMMA AuditDiesKeeps == EvidenceInv /\ AuditDies => EvidenceInv'
<1> SUFFICES ASSUME EvidenceInv, AuditDies PROVE EvidenceInv'
  OBVIOUS
<1>1. audit' = [pc |-> audit'.pc, quiet |-> audit'.quiet] /\ audit'.pc = "idle"
  BY DEF AuditDies, NoAudit
<1>2. AuditSound'
  BY <1>1 DEF AuditSound
<1> QED
  BY <1>1, <1>2, EvAuditStep DEF AuditDies

\* A log past its days is the log of a manifest past its own.
LEMMA OverdueLog ==
  ASSUME NEW r \in EvRuns, today \in Nat, NEW l, IsFile(l), NEW m, IsFile(m),
         LogOutlives(l, m), m.at > 0, l.at > 0 => l.born > 0, m.at <= today, m.born > 0,
         Overdue(Log(r), l)
  PROVE  Overdue(Manifest(r), m)
<1>1. /\ l.at >= m.at /\ l.born >= m.at /\ m.born = m.at
      /\ l.at \in Nat /\ l.born \in Nat /\ m.at \in Nat
  BY DEF IsFile, LogOutlives
<1>2. Earlier(l.at, l.born) >= m.at /\ Earlier(m.at, m.born) = m.at
  BY <1>1 DEF Earlier
<1>3. Ttl(Log(r)) = LogTtl /\ Ttl(Manifest(r)) = RunTtl
  BY DEF Ttl, Log, Manifest
<1>4. ~FreshnessRequired(Log(r))
  BY DEF FreshnessRequired, Log
<1>5. Earlier(l.at, l.born) \in Nat
  BY <1>1 DEF Earlier
<1>6. today - Earlier(l.at, l.born) > LogTtl
  BY <1>3, <1>4 DEF Overdue, age
<1>7. today - Earlier(m.at, m.born) > RunTtl
  BY <1>1, <1>2, <1>5, <1>6, TtlAssumption
<1> QED
  BY <1>3, <1>7 DEF Overdue, age

\* prune_runtime_cache, among the files: a log goes when it is past its days, and with its
\* manifest.
LEMMA MaintenanceStep ==
  ASSUME FilesSound, UNCHANGED <<evRun, today, cut>>,
         file' = [p \in Paths |-> file'[p]],
         \A p \in Paths : file'[p] \in {file[p], Normalized(p), NoFile},
         \A r \in EvRuns :
            \/ file'[Log(r)] \in {file[Log(r)], Normalized(Log(r))}
            \/ /\ file'[Log(r)] = NoFile /\ Overdue(Log(r), Normalized(Log(r)))
               /\ file'[Manifest(r)] = Pruned(Manifest(r)),
         audit' = [pc |-> audit'.pc, quiet |-> audit'.quiet]
  PROVE  FilesSound'
<1>1. /\ EvidenceTypeOK /\ OwnersSound /\ today' = today /\ evRun' = evRun /\ cut' = cut
      /\ today \in Nat \ {0} /\ evRun \in [EvRuns -> 1..Ended]
  BY DEF FilesSound, EvidenceTypeOK
<1>2. IsFile(NoFile) /\ NoFile.at = 0 /\ NoFile.born = 0
  BY DEF IsFile, NoFile
<1>3. ASSUME NEW p \in Paths
      PROVE  /\ IsFile(file[p]) /\ file[p].at <= today /\ OwnedBy(file[p])
             /\ IsFile(Normalized(p)) /\ Normalized(p).at = file[p].at
             /\ Normalized(p).text = file[p].text
             /\ OwnedBy(Normalized(p))
             /\ Normalized(p).at > 0 => Normalized(p).born > 0
             /\ \/ Normalized(p) = file[p]
                \/ /\ file[p].at > 0 /\ file[p].born = 0 /\ Normalized(p).born = Normalized(p).at
                   /\ Normalized(p).owner = infer_source_run_id(p)
  BY <1>1, NormalOf DEF EvidenceTypeOK, OwnersSound
<1>4. EvidenceTypeOK'
  <2>1. \A p \in Paths : IsFile(file'[p]) /\ file'[p].at <= today'
    BY <1>1, <1>2, <1>3
  <2> QED
    BY <1>1, <2>1 DEF EvidenceTypeOK
<1>5. OwnersSound'
  <2>1. OwnedBy(NoFile)
    BY <1>2 DEF OwnedBy
  <2>2. \A p \in Paths : OwnedBy(file'[p])
    BY <2>1, <1>3
  <2> QED
    BY <2>2 DEF OwnersSound, OwnedBy
<1>6. ASSUME NEW r \in EvRuns PROVE RunLogged(r)'
  <2> SUFFICES ASSUME r \notin cut PROVE RunLogged(r)'
    BY <1>1 DEF RunLogged
  <2>1. PICK fl : fl = file[Log(r)]
    OBVIOUS
  <2>2. PICK fm : fm = file[Manifest(r)]
    OBVIOUS
  <2>3. PICK l : l = Normalized(Log(r))
    OBVIOUS
  <2>4. PICK m : m = Normalized(Manifest(r))
    OBVIOUS
  <2>5. Log(r) \in Paths /\ Manifest(r) \in Paths /\ Log(r)[2] = r /\ Log(r) # Shot
    BY PathFacts DEF Log, Shot
  <2>6. /\ IsFile(fl) /\ IsFile(l) /\ l.at = fl.at /\ l.text = fl.text /\ (l.at > 0 => l.born > 0)
        /\ \/ l = fl
           \/ fl.at > 0 /\ fl.born = 0 /\ l.born = l.at /\ l.owner = infer_source_run_id(Log(r))
    BY <2>1, <2>3, <2>5, <1>3
  <2>7. /\ IsFile(fm) /\ IsFile(m) /\ m.at = fm.at /\ m.text = fm.text /\ (m.at > 0 => m.born > 0)
        /\ m.at <= today
        /\ m = fm \/ (fm.at > 0 /\ fm.born = 0 /\ m.born = m.at)
    BY <2>2, <2>4, <2>5, <1>3
  <2>8. /\ fl.at \in Nat /\ fl.born \in Nat /\ fm.at \in Nat /\ fm.born \in Nat
        /\ l.born \in Nat /\ m.born \in Nat
    BY <2>6, <2>7 DEF IsFile
  <2>9. /\ evRun[r] \in {1, 2} => fm.at = 0 /\ fm.born = 0
        /\ evRun[r] = 1 => fl.at = 0 /\ fl.born = 0
        /\ evRun[r] = 2 => fl.at = today /\ fl.born \in {0, today}
        /\ evRun[r] < Ended /\ fl.at > 0 => fl.text = "whole"
        /\ fm.at > 0 => fm.text = "whole"
        /\ OwnLog(fl, r) /\ LogOutlives(fl, fm)
    BY <2>1, <2>2 DEF RunLogged, FilesSound
  <2>10. OwnLog(l, r)
    <3>1. CASE l = fl
      BY <3>1, <2>9
    <3>2. CASE /\ fl.at > 0 /\ fl.born = 0 /\ l.born = l.at
               /\ l.owner = infer_source_run_id(Log(r))
      <4>1. fl.text = "whole"
        BY <3>2, <2>9 DEF OwnLog
      <4>2. infer_source_run_id(Log(r)) = r
        BY <4>1, <2>1, <2>5 DEF infer_source_run_id
      <4> QED
        BY <3>2, <4>2, <2>6 DEF OwnLog
    <3> QED
      BY <3>1, <3>2, <2>6
  <2>11. PICK lp : lp = file'[Log(r)]
    OBVIOUS
  <2>12. PICK mp : mp = file'[Manifest(r)]
    OBVIOUS
  <2>13. mp \in {fm, m, NoFile}
    BY <2>2, <2>4, <2>5, <2>12
  <2>14. \/ lp \in {fl, l}
         \/ lp = NoFile /\ Overdue(Log(r), l) /\ mp = Pruned(Manifest(r))
    BY <2>1, <2>3, <2>11, <2>12
  <2>15. /\ mp.at = 0 \/ (mp.at = fm.at /\ mp.text = fm.text)
         /\ mp.born = 0 \/ mp.born = fm.born \/ (fm.at > 0 /\ mp.born = fm.at)
    <3>1. CASE mp = fm
      BY <3>1
    <3>2. CASE mp = m
      BY <3>2, <2>7
    <3>3. CASE mp = NoFile
      BY <3>3, <1>2
    <3> QED
      BY <2>13, <3>1, <3>2, <3>3
  <2>16. CASE lp \in {fl, l}
    <3>1. /\ lp.at = fl.at /\ lp.text = fl.text
          /\ lp.born = fl.born \/ (fl.at > 0 /\ fl.born = 0 /\ lp.born = fl.at)
          /\ OwnLog(lp, r)
      BY <2>16, <2>6, <2>9, <2>10
    <3>2. LogOutlives(lp, mp)
      BY <3>1, <2>15, <2>13, <2>7, <2>8, <2>9, <1>2 DEF LogOutlives
    <3>3. /\ evRun[r] \in {1, 2} => mp.at = 0 /\ mp.born = 0
          /\ evRun[r] = 1 => lp.at = 0 /\ lp.born = 0
          /\ evRun[r] = 2 => lp.at = today /\ lp.born \in {0, today}
          /\ evRun[r] < Ended /\ lp.at > 0 => lp.text = "whole"
          /\ mp.at > 0 => mp.text = "whole"
      BY <3>1, <2>15, <2>9
    <3> QED
      BY <3>1, <3>2, <3>3, <2>11, <2>12, <1>1 DEF RunLogged, LogOutlives, OwnLog
  <2>17. CASE lp = NoFile /\ Overdue(Log(r), l) /\ mp = Pruned(Manifest(r))
    <3>1. LogOutlives(l, m)
      BY <2>6, <2>7, <2>8, <2>9 DEF LogOutlives
    <3>2. m.at > 0 => Overdue(Manifest(r), m)
      BY <2>17, <2>6, <2>7, <3>1, <1>1, OverdueLog
    <3>3. mp = IF Overdue(Manifest(r), m) THEN NoFile ELSE m
      BY <2>17, <2>4 DEF Pruned
    <3>4. mp.at = 0
      BY <3>2, <3>3, <2>7, <2>8, <1>2
    <3>5. evRun[r] # 2
      <4> SUFFICES ASSUME evRun[r] = 2 PROVE FALSE
        OBVIOUS
      <4>1. l.at = today /\ l.born = today
        BY <2>6, <2>9, <1>1
      <4>2. age(l) = 0
        BY <4>1, <1>1 DEF age, Earlier
      <4>3. Ttl(Log(r)) = LogTtl /\ ~FreshnessRequired(Log(r))
        BY DEF Ttl, FreshnessRequired, Log
      <4> QED
        BY <4>2, <4>3, <2>17, TtlAssumption DEF Overdue
    <3>6. evRun[r] = 1 => mp.born = 0
      BY <2>9, <2>15
    <3> QED
      BY <3>4, <3>5, <3>6, <2>17, <2>11, <2>12, <1>1, <1>2 DEF RunLogged, LogOutlives, OwnLog
  <2> QED
    BY <2>14, <2>16, <2>17
<1> QED
  BY <1>4, <1>5, <1>6 DEF FilesSound

LEMMA PruneKeeps == EvidenceInv /\ Prune => EvidenceInv'
<1> SUFFICES ASSUME EvidenceInv, Prune PROVE EvidenceInv'
  OBVIOUS
<1>1. FilesSound /\ EvidenceTypeOK /\ OwnersSound /\ UNCHANGED <<evRun, today, cut>>
  BY DEF Prune, EvidenceInv, FilesSound
<1>2. /\ audit' = [pc |-> audit'.pc, quiet |-> audit'.quiet]
      /\ audit'.pc = "index" \/ ~audit'.quiet
  BY <1>1 DEF Prune, Step, NoAudit, EvidenceTypeOK
<1>3. file' = [p \in Paths |-> Pruned(p)]
  BY DEF Prune
<1>4. FilesSound'
  <2>1. file' = [p \in Paths |-> file'[p]] /\ \A p \in Paths : file'[p] = Pruned(p)
    BY <1>3
  <2>2. \A p \in Paths : file'[p] \in {file[p], Normalized(p), NoFile}
    BY <2>1 DEF Pruned
  <2>3. ASSUME NEW r \in EvRuns
        PROVE  \/ file'[Log(r)] \in {file[Log(r)], Normalized(Log(r))}
               \/ /\ file'[Log(r)] = NoFile /\ Overdue(Log(r), Normalized(Log(r)))
                  /\ file'[Manifest(r)] = Pruned(Manifest(r))
    <3>1. file'[Log(r)] = Pruned(Log(r)) /\ file'[Manifest(r)] = Pruned(Manifest(r))
      BY <2>1, PathFacts
    <3> QED
      BY <3>1 DEF Pruned
  <2> QED
    BY <1>1, <1>2, <2>1, <2>2, <2>3, MaintenanceStep
<1>5. Clean'
  <2> SUFFICES ASSUME NEW p \in Paths, file'[p].at > 0
               PROVE  file'[p].born > 0 /\ ~Overdue(p, file[p])'
    BY DEF Clean, There, HasSidecar
  <2>1. PICK z : z = Normalized(p)
    OBVIOUS
  <2>2. z.at > 0 => z.born > 0
    BY <1>1, <2>1, NormalOf
  <2>3. file'[p] = z /\ ~Overdue(p, z)
    BY <1>3, <2>1 DEF Pruned, NoFile
  <2> QED
    BY <2>2, <2>3, <1>1 DEF Overdue, age
<1>6. AuditSound'
  BY <1>2, <1>5 DEF AuditSound
<1> QED
  BY <1>4, <1>6 DEF EvidenceInv

LEMMA PruneDiesKeeps == EvidenceInv /\ PruneDies => EvidenceInv'
<1> SUFFICES ASSUME EvidenceInv, PruneDies PROVE EvidenceInv'
  OBVIOUS
<1>1. FilesSound /\ UNCHANGED <<evRun, today, cut>>
  BY DEF PruneDies, EvidenceInv
<1>2. audit' = [pc |-> audit'.pc, quiet |-> audit'.quiet] /\ ~audit'.quiet
  BY DEF PruneDies, NoAudit
<1>3. PICK ps \in SUBSET {p \in Paths : Pruned(p) # file[p]} :
        /\ \A p \in Paths \ ps : p[1] = "manifest" /\ Pruned(p) # file[p] =>
              ps \subseteq {q \in Paths : q[1] = "manifest"}
        /\ file' = [p \in Paths |-> IF p \in ps THEN Pruned(p) ELSE file[p]]
  BY DEF PruneDies
<1>4. file' = [p \in Paths |-> file'[p]]
  BY <1>3
<1>5. \A p \in Paths : file'[p] \in {file[p], Normalized(p), NoFile}
  BY <1>3 DEF Pruned
<1>6. ASSUME NEW r \in EvRuns
      PROVE  \/ file'[Log(r)] \in {file[Log(r)], Normalized(Log(r))}
             \/ /\ file'[Log(r)] = NoFile /\ Overdue(Log(r), Normalized(Log(r)))
                /\ file'[Manifest(r)] = Pruned(Manifest(r))
  <2>1. /\ Log(r) \in Paths /\ Manifest(r) \in Paths
        /\ Log(r)[1] # "manifest" /\ Manifest(r)[1] = "manifest"
    BY PathFacts
  <2>2. CASE Log(r) \notin ps
    BY <2>1, <2>2, <1>3
  <2>3. CASE Log(r) \in ps
    <3>1. Manifest(r) \in ps \/ Pruned(Manifest(r)) = file[Manifest(r)]
      BY <2>1, <2>3, <1>3
    <3>2. file'[Manifest(r)] = Pruned(Manifest(r)) /\ file'[Log(r)] = Pruned(Log(r))
      BY <2>1, <2>3, <3>1, <1>3
    <3> QED
      BY <3>2 DEF Pruned
  <2> QED
    BY <2>2, <2>3
<1>7. FilesSound'
  BY <1>1, <1>2, <1>4, <1>5, <1>6, MaintenanceStep
<1>8. AuditSound'
  BY <1>2 DEF AuditSound
<1> QED
  BY <1>7, <1>8 DEF EvidenceInv

LEMMA CheckRetentionKeeps == EvidenceInv /\ CheckRetention => EvidenceInv'
<1> SUFFICES ASSUME EvidenceInv, CheckRetention PROVE EvidenceInv'
  OBVIOUS
<1>1. /\ FilesSound /\ EvidenceTypeOK /\ OwnersSound /\ UNCHANGED <<evRun, today, cut>>
      /\ AuditSound /\ audit.pc = "retention"
  BY DEF CheckRetention, EvidenceInv, FilesSound
<1>2. file' = [p \in Paths |-> Normalized(p)]
  BY DEF CheckRetention
<1> DEFINE passes == \A p \in Paths : ~Overdue(p, Normalized(p))
<1>3. /\ audit' = [pc |-> audit'.pc, quiet |-> audit'.quiet]
      /\ \/ ~audit'.quiet
         \/ /\ audit'.quiet = audit.quiet
            /\ audit'.pc = IF passes THEN "freshness" ELSE "failed"
  BY <1>1 DEF CheckRetention, Check, Step, NoAudit, EvidenceTypeOK
<1>4. FilesSound'
  <2>1. file' = [p \in Paths |-> file'[p]] /\ \A p \in Paths : file'[p] = Normalized(p)
    BY <1>2
  <2>2. \A r \in EvRuns : file'[Log(r)] = Normalized(Log(r))
    BY <2>1, PathFacts
  <2> QED
    BY <1>1, <1>3, <2>1, <2>2, MaintenanceStep
<1>5. Clean => /\ passes
               /\ \A p \in Paths : file'[p] = file[p]
  BY <1>2 DEF Clean, Normalized, Overdue, There
<1>6. AuditSound'
  <2> SUFFICES ASSUME audit'.quiet PROVE audit'.pc = "freshness" /\ Clean'
    BY DEF AuditSound
  <2>1. Clean
    BY <1>1, <1>3 DEF AuditSound
  <2> QED
    BY <2>1, <1>1, <1>3, <1>5 DEF Clean, There, HasSidecar, Overdue, age
<1> QED
  BY <1>4, <1>6 DEF EvidenceInv

LEMMA CheckFreshnessKeeps == EvidenceInv /\ CheckFreshness => EvidenceInv'
<1> SUFFICES ASSUME EvidenceInv, CheckFreshness PROVE EvidenceInv'
  OBVIOUS
<1>1. /\ EvidenceTypeOK /\ AuditSound /\ UNCHANGED <<file, evRun, today, cut>>
      /\ audit.pc = "freshness"
  BY DEF CheckFreshness, EvidenceInv, FilesSound
<1> DEFINE passes == \A p \in Paths : There(p) /\ FreshnessRequired(p) =>
                        HasSidecar(p) /\ age(file[p]) <= file[p].window
<1>2. /\ audit' = [pc |-> audit'.pc, quiet |-> audit'.quiet] /\ audit'.quiet = audit.quiet
      /\ audit'.pc = IF passes THEN "index again" ELSE "failed"
  BY <1>1 DEF CheckFreshness, Check, Step, EvidenceTypeOK
<1>3. Clean => passes
  <2> SUFFICES ASSUME Clean, NEW p \in Paths, There(p), FreshnessRequired(p)
               PROVE  HasSidecar(p) /\ age(file[p]) <= file[p].window
    OBVIOUS
  <2>1. /\ file[p].at \in Nat /\ file[p].born \in Nat /\ file[p].window \in Nat
        /\ today \in Nat
    BY <1>1 DEF EvidenceTypeOK, IsFile
  <2>2. HasSidecar(p) /\ ~(age(file[p]) > file[p].window)
    BY DEF Clean, Overdue, There
  <2> QED
    BY <2>1, <2>2 DEF age, Earlier
<1>4. AuditSound'
  <2> SUFFICES ASSUME audit'.quiet PROVE audit'.pc = "index again" /\ Clean'
    BY DEF AuditSound
  <2>1. Clean
    BY <1>1, <1>2 DEF AuditSound
  <2> QED
    BY <2>1, <1>1, <1>2, <1>3 DEF Clean, There, HasSidecar, Overdue, age
<1> QED
  BY <1>1, <1>2, <1>4, EvAuditStep

\* build_evidence_index writes the indexes of some runs, each with its sidecar.
LEMMA RebuiltOf ==
  ASSUME FilesSound, NEW ids \in SUBSET Ids, NEW p \in Paths, NEW z, z = Rebuilt(ids)[p]
  PROVE  /\ IsFile(z) /\ z.at <= today /\ OwnedBy(z)
         /\ \/ z = file[p]
            \/ /\ p[1] = "index" /\ p[2] \in ids /\ z.at = today /\ z.born = today
         /\ p[1] = "index" /\ p[2] \in ids /\ Of(p[2]) # {} =>
               z.text = "whole" /\ z.lists = Of(p[2])
<1>1. /\ IsFile(file[p]) /\ file[p].at <= today /\ OwnedBy(file[p]) /\ today \in Nat \ {0}
  BY DEF FilesSound, EvidenceTypeOK, OwnersSound
<1>2. CASE p[1] = "index" /\ p[2] \in ids /\ Of(p[2]) # {}
  <2>1. PICK f : f = IndexOf(p[2], NoFile)
    OBVIOUS
  <2>2. z = Sidecar(f, today, p[2], RunTtl)
    BY <1>2, <2>1 DEF Rebuilt
  <2>3. IsFile(f) /\ f.at = today /\ f.lists = Of(p[2]) /\ f.text = "whole"
    BY <2>1, <1>1 DEF IsFile, NoFile, IndexOf
  <2>4. /\ IsFile(z) /\ z.at = today /\ z.born = today /\ z.owner = p[2]
        /\ z.lists = Of(p[2]) /\ z.text = "whole"
    BY <1>1, <2>2, <2>3, SidecarOf, TtlAssumption
  <2> QED
    BY <1>1, <1>2, <2>4 DEF OwnedBy
<1>3. CASE ~(p[1] = "index" /\ p[2] \in ids /\ Of(p[2]) # {})
  <2>1. z = file[p]
    BY <1>3 DEF Rebuilt
  <2> QED
    BY <1>1, <1>3, <2>1
<1> QED
  BY <1>2, <1>3

\* A step that may write indexes, and no other file.
LEMMA IndexStep ==
  ASSUME FilesSound, UNCHANGED <<evRun, today, cut>>, file' = [p \in Paths |-> file'[p]],
         \A p \in Paths : IsFile(file'[p]) /\ file'[p].at <= today /\ OwnedBy(file'[p]),
         \A p \in Paths : p[1] # "index" => file'[p] = file[p],
         audit' = [pc |-> audit'.pc, quiet |-> audit'.quiet]
  PROVE  FilesSound'
<1>1. EvidenceTypeOK'
  BY DEF FilesSound, EvidenceTypeOK
<1>2. OwnersSound'
  BY DEF OwnersSound, OwnedBy
<1>3. ASSUME NEW r \in EvRuns PROVE RunLogged(r)'
  <2>1. file'[Log(r)] = file[Log(r)] /\ file'[Manifest(r)] = file[Manifest(r)]
    BY PathFacts
  <2>2. RunLogged(r)
    BY DEF FilesSound
  <2> QED
    BY <2>1, <2>2 DEF RunLogged, LogOutlives, OwnLog
<1> QED
  BY <1>1, <1>2, <1>3 DEF FilesSound

LEMMA BuildIndexKeeps == EvidenceInv /\ BuildIndex => EvidenceInv'
<1> SUFFICES ASSUME EvidenceInv, BuildIndex PROVE EvidenceInv'
  OBVIOUS
<1>1. /\ FilesSound /\ EvidenceTypeOK /\ AuditSound /\ UNCHANGED <<evRun, today, cut>>
      /\ today \in Nat \ {0}
  BY DEF BuildIndex, EvidenceInv, FilesSound, EvidenceTypeOK
<1>2. /\ audit' = [pc |-> audit'.pc, quiet |-> audit'.quiet] /\ audit'.quiet = audit.quiet
      /\ \/ audit.pc = "index" /\ audit'.pc = "retention"
         \/ audit.pc = "index again" /\ audit'.pc = "unindexed"
  BY <1>1 DEF BuildIndex, Step, EvidenceTypeOK
<1>3. file' = Rebuilt(Ids)
  BY DEF BuildIndex
<1>4. ASSUME NEW p \in Paths
      PROVE  /\ IsFile(file'[p]) /\ file'[p].at <= today /\ OwnedBy(file'[p])
             /\ \/ file'[p] = file[p]
                \/ /\ p[1] = "index" /\ file'[p].at = today /\ file'[p].born = today
             /\ p[1] = "index" /\ p[2] \in Ids /\ Of(p[2]) # {}
                  => file'[p].text = "whole" /\ file'[p].lists = Of(p[2])
             /\ p[1] # "index" => file'[p] = file[p]
  BY <1>1, <1>3, RebuiltOf
<1>5. FilesSound'
  <2>1. file' = [p \in Paths |-> file'[p]]
    BY <1>3 DEF Rebuilt
  <2> QED
    BY <1>1, <1>2, <1>4, <2>1, IndexStep
<1>6. Clean => Clean'
  <2> SUFFICES ASSUME Clean, NEW p \in Paths, file'[p].at > 0
               PROVE  file'[p].born > 0 /\ ~Overdue(p, file[p])'
    BY DEF Clean, There, HasSidecar
  <2>1. CASE file'[p] = file[p]
    BY <2>1, <1>1 DEF Clean, There, HasSidecar, Overdue, age
  <2>2. CASE file'[p].at = today /\ file'[p].born = today
    <3>1. today - Earlier(file'[p].at, file'[p].born) = 0
      BY <2>2, <1>1 DEF Earlier
    <3>2. Ttl(p) \in Nat /\ file'[p].window \in Nat
      BY <1>4, TtlAssumption DEF Ttl, IsFile
    <3> QED
      BY <3>1, <3>2, <2>2, <1>1 DEF Overdue, age
  <2> QED
    BY <2>1, <2>2, <1>4
<1>7. Listed'
  <2> SUFFICES ASSUME NEW p \in Paths, p[1] \in {"log", "evidence"},
                      file'[p].at > 0, file'[p].born > 0
               PROVE  /\ file'[Index(file'[p].owner)].text = "whole"
                      /\ p \in file'[Index(file'[p].owner)].lists
    BY DEF Listed, There, HasSidecar, Index
  <2>1. PICK id : id = file'[p].owner
    OBVIOUS
  <2>2. file'[p] = file[p] /\ id \in Ids
    BY <2>1, <1>4 DEF OwnedBy
  <2>3. p \in Of(id)
    BY <2>1, <2>2 DEF Of, Indexed, There, HasSidecar
  <2>4. Index(id) \in Paths /\ Index(id)[1] = "index" /\ Index(id)[2] = id
    BY <2>2, PathFacts
  <2>5. file'[Index(id)].text = "whole" /\ file'[Index(id)].lists = Of(id)
    BY <2>2, <2>3, <2>4, <1>4
  <2> QED
    BY <2>1, <2>3, <2>5, <1>1
<1>8. AuditSound'
  BY <1>1, <1>2, <1>6, <1>7 DEF AuditSound
<1> QED
  BY <1>5, <1>8 DEF EvidenceInv

LEMMA BuildIndexDiesKeeps ==
  ASSUME EvidenceInv, NEW id \in Ids, BuildIndexDies(id) PROVE EvidenceInv'
<1>1. /\ FilesSound /\ EvidenceTypeOK /\ UNCHANGED <<evRun, today, cut>> /\ today \in Nat \ {0}
  BY DEF BuildIndexDies, EvidenceInv, FilesSound, EvidenceTypeOK
<1>2. audit' = [pc |-> audit'.pc, quiet |-> audit'.quiet] /\ ~audit'.quiet
  BY DEF BuildIndexDies, NoAudit
<1>3. PICK w : w = IndexOf(id, file[Index(id)])
  OBVIOUS
<1>4. PICK ids \in SUBSET (Ids \ {id}) :
        \E f \in {w, NoSidecar(w), [w EXCEPT !.text = "torn", !.lists = {}]} :
           file' = [Rebuilt(ids) EXCEPT ![Index(id)] = f]
  BY <1>3 DEF BuildIndexDies
<1>5. PICK z \in {w, NoSidecar(w), [w EXCEPT !.text = "torn", !.lists = {}]} :
        file' = [Rebuilt(ids) EXCEPT ![Index(id)] = z]
  BY <1>4
<1>6. Index(id) \in Paths /\ Index(id)[1] = "index" /\ Index(id)[2] = id
  BY PathFacts
<1>7. IsFile(w) /\ w.at = today /\ OwnedBy(w)
  <2>1. PICK f : f = file[Index(id)]
    OBVIOUS
  <2>2. IsFile(f) /\ OwnedBy(f)
    BY <1>1, <1>6, <2>1 DEF FilesSound, EvidenceTypeOK, OwnersSound
  <2>3. w = [f EXCEPT !.at = today, !.text = "whole", !.lists = Of(id)]
    BY <1>3, <2>1 DEF IndexOf
  <2>4. IsFile(w) /\ w.at = today /\ w.born = f.born /\ w.owner = f.owner
    BY <1>1, <2>2, <2>3 DEF IsFile
  <2> QED
    BY <2>2, <2>4 DEF OwnedBy
<1>8. IsFile(z) /\ z.at = today /\ OwnedBy(z)
  <2>1. CASE z = w
    BY <1>7, <2>1
  <2>2. CASE z = NoSidecar(w)
    BY <1>7, <2>2, SidecarOf DEF NoSidecar, OwnedBy
  <2>3. CASE z = [w EXCEPT !.text = "torn", !.lists = {}]
    <3>1. IsFile(z) /\ z.at = today /\ z.born = w.born /\ z.owner = w.owner
      BY <1>1, <1>7, <2>3 DEF IsFile
    <3> QED
      BY <1>7, <3>1 DEF OwnedBy
  <2> QED
    BY <1>5, <2>1, <2>2, <2>3
<1>9. PICK g : g = Rebuilt(ids)
  OBVIOUS
<1>10. g = [p \in Paths |-> g[p]]
  BY <1>9 DEF Rebuilt
<1>11. /\ file' = [p \in Paths |-> file'[p]] /\ file'[Index(id)] = z
       /\ \A p \in Paths : p # Index(id) => file'[p] = g[p]
  BY <1>5, <1>6, <1>9, <1>10
<1>12. ASSUME NEW p \in Paths
       PROVE  /\ IsFile(g[p]) /\ g[p].at <= today /\ OwnedBy(g[p])
              /\ p[1] # "index" => g[p] = file[p]
  BY <1>1, <1>4, <1>9, RebuiltOf
<1>13. ASSUME NEW p \in Paths
       PROVE  /\ IsFile(file'[p]) /\ file'[p].at <= today /\ OwnedBy(file'[p])
              /\ p[1] # "index" => file'[p] = file[p]
  <2>1. CASE p = Index(id)
    BY <2>1, <1>8, <1>11, <1>6, <1>1
  <2>2. CASE p # Index(id)
    BY <2>2, <1>11, <1>12
  <2> QED
    BY <2>1, <2>2
<1>14. FilesSound'
  BY <1>1, <1>2, <1>11, <1>13, IndexStep
<1>15. AuditSound'
  BY <1>2 DEF AuditSound
<1> QED
  BY <1>14, <1>15 DEF EvidenceInv

LEMMA CheckUnindexedKeeps == EvidenceInv /\ CheckUnindexed => EvidenceInv'
<1> SUFFICES ASSUME EvidenceInv, CheckUnindexed PROVE EvidenceInv'
  OBVIOUS
<1>1. /\ EvidenceTypeOK /\ AuditSound /\ UNCHANGED <<file, evRun, today, cut>>
      /\ audit.pc = "unindexed"
  BY DEF CheckUnindexed, EvidenceInv, FilesSound
<1> DEFINE passes == There(Shot) =>
                        /\ HasSidecar(Shot) /\ file[Index(file[Shot].owner)].text = "whole"
                        /\ Shot \in file[Index(file[Shot].owner)].lists
<1>2. /\ audit' = [pc |-> audit'.pc, quiet |-> audit'.quiet] /\ audit'.quiet = audit.quiet
      /\ audit'.pc = IF passes THEN "manifests" ELSE "failed"
  BY <1>1 DEF CheckUnindexed, Check, Step, EvidenceTypeOK
<1>3. Clean /\ Listed => passes
  BY PathFacts DEF Clean, Listed
<1>4. AuditSound'
  <2> SUFFICES ASSUME audit'.quiet PROVE audit'.pc = "manifests" /\ Clean' /\ Listed'
    BY DEF AuditSound
  <2>1. Clean /\ Listed
    BY <1>1, <1>2 DEF AuditSound
  <2>2. Clean' /\ Listed'
    BY <2>1, <1>1 DEF Clean, Listed, There, HasSidecar, Overdue, age, Index
  <2> QED
    BY <2>1, <2>2, <1>2, <1>3
<1> QED
  BY <1>1, <1>2, <1>4, EvAuditStep

\* What the last check finds of a run that was not cut short.
LEMMA ManifestComplete ==
  ASSUME FilesSound, Clean, Listed, NEW r \in EvRuns, r \notin cut PROVE Passes(r)
<1> SUFFICES ASSUME There(Manifest(r)) PROVE Complete(r)
  BY DEF Passes
<1>1. Log(r) \in Paths /\ Manifest(r) \in Paths /\ Log(r)[1] = "log" /\ Log(r)[2] = r /\ r \in Ids
  BY PathFacts DEF Ids
<1>2. /\ IsFile(file[Log(r)]) /\ IsFile(file[Manifest(r)])
      /\ file[Manifest(r)].at > 0 => file[Manifest(r)].text = "whole"
      /\ OwnLog(file[Log(r)], r) /\ LogOutlives(file[Log(r)], file[Manifest(r)])
  BY <1>1 DEF FilesSound, EvidenceTypeOK, RunLogged
<1>3. There(Log(r)) /\ file[Manifest(r)].text = "whole"
  BY <1>2 DEF LogOutlives, There, IsFile
<1>4. HasSidecar(Log(r)) /\ file[Log(r)].owner = r
  BY <1>1, <1>2, <1>3 DEF Clean, OwnLog, HasSidecar
<1>5. Log(r) \in Artifacts(r)
  BY <1>1, <1>3, <1>4 DEF Artifacts, Of, Indexed
<1>6. file[Index(r)].text = "whole" /\ There(Index(r))
  <2>1. file[Index(r)].text = "whole"
    BY <1>1, <1>3, <1>4 DEF Listed
  <2>2. IsFile(file[Index(r)])
    BY <1>1, PathFacts DEF FilesSound, EvidenceTypeOK
  <2> QED
    BY <2>1, <2>2 DEF IsFile, There
<1>7. ASSUME NEW p \in Artifacts(r) PROVE p \in file[Index(r)].lists
  <2>1. p \in Paths /\ p[1] # "manifest" /\ p[1] # "index" /\ There(p) /\ HasSidecar(p)
        /\ file[p].owner = r
    BY DEF Artifacts, Of, Indexed
  <2>2. p[1] \in {"log", "evidence"}
    BY <2>1, PathFacts
  <2> QED
    BY <2>1, <2>2 DEF Listed
<1> QED
  BY <1>3, <1>4, <1>5, <1>6, <1>7 DEF Complete

\* What the last check finds is what is in the files.
LEMMA AuditSees ==
  ASSUME UNCHANGED <<file, cut>>, \A r \in EvRuns \ cut : Passes(r)
  PROVE  (\A r \in EvRuns \ cut : Passes(r))'
<1>1. ASSUME NEW r PROVE Of(r)' = Of(r)
  BY DEF Of, Indexed, There, HasSidecar
<1>2. ASSUME NEW r PROVE Artifacts(r)' = Artifacts(r)
  BY <1>1 DEF Artifacts
<1>3. ASSUME NEW r PROVE Complete(r)' = Complete(r)
  BY <1>2 DEF Complete, There, HasSidecar, run_complete, Log, Manifest, Index
<1> QED
  BY <1>3 DEF Passes, There, Manifest

LEMMA CheckManifestsKeeps == EvidenceInv /\ CheckManifests => EvidenceInv'
<1> SUFFICES ASSUME EvidenceInv, CheckManifests PROVE EvidenceInv'
  OBVIOUS
<1>1. /\ FilesSound /\ EvidenceTypeOK /\ AuditSound /\ UNCHANGED <<file, evRun, today, cut>>
      /\ audit.pc = "manifests"
  BY DEF CheckManifests, EvidenceInv, FilesSound
<1>2. /\ audit' = [pc |-> audit'.pc, quiet |-> audit'.quiet]
      /\ audit'.quiet => audit.quiet /\ audit'.pc = "incomplete"
  BY <1>1 DEF CheckManifests, Step, NoAudit, EvidenceTypeOK
<1>3. AuditSound'
  <2> SUFFICES ASSUME audit'.quiet PROVE (\A r \in EvRuns \ cut : Passes(r))'
    BY <1>2 DEF AuditSound
  <2>1. Clean /\ Listed
    BY <1>1, <1>2 DEF AuditSound
  <2>2. \A r \in EvRuns \ cut : Passes(r)
    BY <1>1, <2>1, ManifestComplete
  <2> QED
    BY <2>2, <1>1, AuditSees
<1> QED
  BY <1>1, <1>2, <1>3, EvAuditStep

\* QuietAuditPasses, whatever the runs, their number, the days files are kept and the writers
\* that die: an audit during which nobody writes fails at most its last check, and of no run
\* but those cut short.
THEOREM AuditHeals == EvidenceSpec => []QuietAuditPasses
<1>1. EvidenceInv /\ EvidenceNext => EvidenceInv'
  <2> SUFFICES ASSUME EvidenceInv, EvidenceNext PROVE EvidenceInv'
    OBVIOUS
  <2>1. ASSUME NEW r \in EvRuns, RunWrites(r) \/ WriterDies(r) PROVE EvidenceInv'
    BY <2>1, RunWritesKeeps, WriterDiesKeeps
  <2>2. ASSUME NEW id \in Ids, BuildIndexDies(id) PROVE EvidenceInv'
    BY <2>2, BuildIndexDiesKeeps
  <2> QED
    BY <2>1, <2>2, NextDayKeeps, AuditBeginsKeeps, PruneKeeps, PruneDiesKeeps, BuildIndexKeeps,
       CheckRetentionKeeps, CheckFreshnessKeeps, CheckUnindexedKeeps, CheckManifestsKeeps,
       AuditDiesKeeps
       DEF EvidenceNext
<1>2. EvidenceInv /\ UNCHANGED evidenceVars => EvidenceInv'
  <2> SUFFICES ASSUME EvidenceInv, UNCHANGED evidenceVars PROVE EvidenceInv'
    OBVIOUS
  <2>1. UNCHANGED <<file, evRun, today, cut>> /\ audit' = audit
    BY DEF evidenceVars
  <2>2. AuditSound'
    <3>1. (\A r \in EvRuns \ cut : Passes(r)) => (\A r \in EvRuns \ cut : Passes(r))'
      BY <2>1, AuditSees
    <3> QED
      BY <2>1, <3>1
         DEF EvidenceInv, AuditSound, Clean, Listed, There, HasSidecar, Overdue, age, Index
  <2>3. audit' = [pc |-> audit'.pc, quiet |-> audit'.quiet]
    BY <2>1 DEF EvidenceInv, FilesSound, EvidenceTypeOK
  <2> QED
    BY <2>1, <2>2, <2>3, EvAuditStep
<1>3. EvidenceInv => QuietAuditPasses
  BY DEF EvidenceInv, AuditSound, QuietAuditPasses
<1> QED
  BY <1>1, <1>2, <1>3, EvidenceStarts, PTL DEF EvidenceSpec

-----------------------------------------------------------------------------
(*****************************************************************************)
(* Release.  A report is backed when its prechecks are (PrecheckSound), and  *)
(* a baseline when three samples in four are within it (Measured), which is  *)
(* what the p75 gives (Percentile).                                          *)
(*****************************************************************************)
IsTree(t) ==
    /\ t = [tag |-> t.tag, down |-> t.down, blocked |-> t.blocked, bundle |-> t.bundle,
            documents |-> t.documents, serves |-> t.serves, budget |-> t.budget,
            baseline |-> t.baseline, samples |-> t.samples, ci |-> t.ci]
    /\ t.tag \in 0..Tags /\ t.documents \subseteq Documents
    /\ t.budget \in Nat /\ t.baseline \in Nat /\ t.ci \in CiRuns

\* The values of s that v is not below.
Within(s, v) == {i \in DOMAIN s : s[i] <= v}

\* Three samples in four are within a baseline that can be used.
Measured(t) ==
    t.baseline > 0 =>
        /\ t.samples \in Seq(Nat) \ {<<>>}
        /\ 4 * Cardinality(Within(t.samples, t.baseline)) >= 3 * Len(t.samples)

TreeSound == IsTree(tree) /\ Measured(tree)

KpiNames == {"junit_pass_rate", "junit_failed_total", "python_coverage_lines",
             "web_coverage_lines", "mutation_score"}

\* A report of prechecks that all hold is about a tree that can be released.
PrecheckSound(p) ==
    /\ (\A c \in DOMAIN p.checks : p.checks[c]) => p.backed
    /\ DOMAIN p.checks \intersect KpiNames = {}

PrechecksSound == \A p \in prechecks : prechecks = {p} /\ PrecheckSound(p)

ReleaseInv == TreeSound /\ PrechecksSound /\ kpi \subseteq CiRuns /\ NotRedIsBacked
\* A set of natural numbers has a least one.
LEMMA LeastNatural ==
  ASSUME NEW T \in SUBSET Nat, T # {} PROVE \E x \in T : \A y \in T : x <= y
<1>1. PICK x \in T : \A y \in T : <<y, x>> \notin OpToRel(<, Nat)
  BY NatLessThanWellFounded, WFMin
<1>2. \A y \in T : ~(y < x)
  BY <1>1 DEF OpToRel
<1> QED
  BY <1>2

\* A list of natural numbers has a largest one.
LEMMA LargestSample ==
  ASSUME NEW s \in Seq(Nat), s # <<>>
  PROVE  \E m \in 1..Len(s) : \A i \in 1..Len(s) : s[i] <= s[m]
<1> DEFINE Bounded(k) == \E m \in 1..Len(s) : \A i \in 1..k : s[i] <= s[m]
           bad == {k \in 1..Len(s) : ~Bounded(k)}
<1>1. Len(s) \in Nat \ {0} /\ \A i \in 1..Len(s) : s[i] \in Nat
  OBVIOUS
<1>2. bad = {}
  <2> SUFFICES ASSUME bad # {} PROVE FALSE
    OBVIOUS
  <2>1. bad \in SUBSET Nat
    BY <1>1
  <2>2. PICK k \in bad : \A l \in bad : k <= l
    BY <2>1, LeastNatural
  <2>3. k \in 1..Len(s) /\ ~Bounded(k)
    OBVIOUS
  <2>4. CASE k = 1
    <3>1. 1 \in 1..Len(s) /\ \A i \in 1..1 : s[i] <= s[1]
      BY <1>1
    <3> QED
      BY <3>1, <2>3, <2>4
  <2>5. CASE k > 1
    <3>0. k \in Nat /\ k - 1 \in 1..Len(s) /\ ~(k <= k - 1)
      BY <2>3, <2>5, <1>1
    <3>1. k - 1 \in 1..Len(s) /\ k - 1 \notin bad
      <4> HIDE DEF bad
      <4> QED
        BY <2>2, <3>0
    <3>2. PICK m \in 1..Len(s) : \A i \in 1..(k - 1) : s[i] <= s[m]
      BY <3>1
    <3>3. \A i \in 1..k : i \in 1..(k - 1) \/ i = k
      BY <2>3, <1>1
    <3>4. CASE s[k] <= s[m]
      BY <3>2, <3>3, <3>4, <2>3
    <3>5. CASE s[m] < s[k]
      <4>1. \A i \in 1..(k - 1) : i \in 1..Len(s)
        BY <2>3, <1>1
      <4>2. s[k] \in Nat /\ s[m] \in Nat
        BY <2>3, <1>1
      <4>3. ASSUME NEW i \in 1..k PROVE s[i] <= s[k]
        <5>1. CASE i = k
          BY <5>1, <4>2
        <5>2. CASE i \in 1..(k - 1)
          <6>1. s[i] \in Nat /\ s[i] <= s[m]
            BY <5>2, <4>1, <3>2, <1>1
          <6>2. \A a, b, c \in Nat : a <= b /\ b < c => a <= c
            OBVIOUS
          <6> QED
            BY <6>1, <6>2, <4>2, <3>5
        <5> QED
          BY <5>1, <5>2, <3>3
      <4> QED
        BY <4>3, <2>3
    <3> QED
      BY <3>4, <3>5, <2>3, <1>1
  <2> QED
    BY <2>3, <2>4, <2>5, <1>1
<1>3. Len(s) \in 1..Len(s)
  BY <1>1
<1> QED
  BY <1>2, <1>3

\* The place of the p75 is in the list, three quarters up or more.
LEMMA RankOf ==
  ASSUME NEW n \in Nat \ {0} PROVE Rank(n) \in 1..n /\ 4 * Rank(n) >= 3 * n
<1> DEFINE q == (n * 75 + 99) \div 100
<1>1. q \in 1..n /\ 4 * q >= 3 * n
  OBVIOUS
<1>2. q - 1 \in Nat
  BY <1>1
<1>3. Max({0, q - 1}) = q - 1
  <2>1. Max({0, q - 1}) \in {0, q - 1} /\ \A y \in {0, q - 1} : Max({0, q - 1}) >= y
    <3>1. \E x \in {0, q - 1} : \A y \in {0, q - 1} : x >= y
      BY <1>2
    <3> QED
      BY <3>1 DEF Max
  <2> QED
    BY <2>1, <1>2
<1> QED
  BY <1>1, <1>3 DEF Rank

\* generate_rum_baseline: three samples in four are within the baseline it makes.
LEMMA Percentile ==
  ASSUME NEW s \in Seq(Nat), s # <<>>
  PROVE  p75(s) \in Nat /\ 4 * Cardinality(Within(s, p75(s))) >= 3 * Len(s)
<1> DEFINE n == Len(s)
           k == Rank(n)
           placed == {i \in DOMAIN s : Cardinality({j \in DOMAIN s : s[j] <= s[i]}) >= k}
           V == {s[i] : i \in placed}
<1>1. n \in Nat \ {0} /\ DOMAIN s = 1..n /\ \A i \in 1..n : s[i] \in Nat
  OBVIOUS
<1>2. k \in 1..n /\ 4 * k >= 3 * n
  BY <1>1, RankOf
<1>3. V # {}
  <2>1. PICK m \in 1..n : \A i \in 1..n : s[i] <= s[m]
    BY LargestSample
  <2>2. {j \in DOMAIN s : s[j] <= s[m]} = 1..n
    BY <2>1, <1>1
  <2>3. Cardinality(1..n) = n
    <3>1. n \in Int /\ 1 \in Int /\ n - 1 + 1 = n /\ ~(1 > n)
      BY <1>1
    <3> HIDE DEF n
    <3> QED
      BY <3>1, FS_Interval
  <2>4. m \in placed
    <3>1. n >= k
      BY <1>1, <1>2
    <3> HIDE DEF n, k
    <3> QED
      BY <2>1, <2>2, <2>3, <3>1, <1>1
  <2> QED
    BY <2>4
<1>4. V \in SUBSET Nat
  BY <1>1
<1>5. Min(V) \in V
  <2>1. \E x \in V : \A y \in V : x <= y
    BY <1>3, <1>4, LeastNatural
  <2> HIDE DEF V
  <2> QED
    BY <2>1 DEF Min
<1>6. p75(s) = Min(V)
  BY DEF p75, AtPlace
<1>7. PICK i \in placed : Min(V) = s[i]
  <2> HIDE DEF placed
  <2> QED
    BY <1>5
<1>8. Cardinality(Within(s, s[i])) >= k /\ s[i] \in Nat
  BY <1>7, <1>1 DEF Within
<1>9. Cardinality(Within(s, s[i])) \in Nat
  <2>1. IsFiniteSet(1..n) /\ Within(s, s[i]) \subseteq 1..n
    BY <1>1, FS_Interval DEF Within
  <2> QED
    BY <2>1, FS_Subset, FS_CardinalityType
<1> HIDE DEF k, n, placed
<1> QED
  BY <1>1, <1>2, <1>6, <1>7, <1>8, <1>9 DEF n

\* A change of the tree that leaves the measurements.
LEMMA TreeChanges_Keep ==
  ASSUME ReleaseInv, NEW z, IsTree(z), z.samples = tree.samples, z.baseline = tree.baseline,
         tree' = z, UNCHANGED <<prechecks, kpi, readiness>>
  PROVE  ReleaseInv'
<1>1. TreeSound'
  BY DEF ReleaseInv, TreeSound, Measured
<1> QED
  BY <1>1 DEF ReleaseInv, PrechecksSound, NotRedIsBacked

\* What developers change leaves no baseline behind that was measured on other samples.
LEMMA DevelopersKeep ==
  ASSUME ReleaseInv,
         \/ TagRelease \/ BreakApi
         \/ \E m \in Migrations, d \in {"none", "empty", "sql"} : ChangeDown(m, d)
         \/ \E m \in Migrations : ListBlocker(m)
         \/ \E d \in Documents : LoseDocument(d)
         \/ \E b \in 0..3 : SetBudget(b)
         \/ \E c \in CiRuns : RunCi(c)
         \/ \E t \in 1..Tags : RunDrill(t)
  PROVE  ReleaseInv'
<1>1. IsTree(tree) /\ Tags \in Nat
  BY ReleaseAssumption DEF ReleaseInv, TreeSound
<1> DEFINE Fits(z) == /\ IsTree(z) /\ z.samples = tree.samples /\ z.baseline = tree.baseline
                      /\ tree' = z
<1>2. CASE TagRelease
  <2>1. PICK z : z = [tree EXCEPT !.tag = tree.tag + 1]
    OBVIOUS
  <2>2. tree' = z /\ tree.tag < Tags
    BY <1>2, <2>1 DEF TagRelease, Change
  <2>3. Fits(z)
    BY <1>1, <2>1, <2>2 DEF IsTree
  <2> QED
    BY <2>3, <1>2, TreeChanges_Keep DEF TagRelease, Change
<1>3. CASE BreakApi
  <2>1. PICK z : z = [tree EXCEPT !.serves = FALSE]
    OBVIOUS
  <2>2. tree' = z
    BY <1>3, <2>1 DEF BreakApi, Change
  <2>3. Fits(z)
    BY <1>1, <2>1, <2>2 DEF IsTree
  <2> QED
    BY <2>3, <1>3, TreeChanges_Keep DEF BreakApi, Change
<1>4. ASSUME NEW m, NEW d, ChangeDown(m, d) PROVE ReleaseInv'
  <2>1. PICK z : z = [tree EXCEPT !.down[m] = d]
    OBVIOUS
  <2>2. tree' = z
    BY <1>4, <2>1 DEF ChangeDown, Change
  <2>3. Fits(z)
    BY <1>1, <2>1, <2>2 DEF IsTree
  <2> QED
    BY <2>3, <1>4, TreeChanges_Keep DEF ChangeDown, Change
<1>5. ASSUME NEW m, ListBlocker(m) PROVE ReleaseInv'
  <2>1. PICK z : z = [tree EXCEPT !.blocked = tree.blocked \union {m}]
    OBVIOUS
  <2>2. tree' = z
    BY <1>5, <2>1 DEF ListBlocker, Change
  <2>3. Fits(z)
    BY <1>1, <2>1, <2>2 DEF IsTree
  <2> QED
    BY <2>3, <1>5, TreeChanges_Keep DEF ListBlocker, Change
<1>6. ASSUME NEW d \in Documents, LoseDocument(d) PROVE ReleaseInv'
  <2>1. PICK z : z = [tree EXCEPT !.documents = tree.documents \ {d}]
    OBVIOUS
  <2>2. tree' = z
    BY <1>6, <2>1 DEF LoseDocument, Change
  <2>3. Fits(z)
    BY <1>1, <2>1, <2>2 DEF IsTree
  <2> QED
    BY <2>3, <1>6, TreeChanges_Keep DEF LoseDocument, Change
<1>7. ASSUME NEW b \in 0..3, SetBudget(b) PROVE ReleaseInv'
  <2>1. PICK z : z = [tree EXCEPT !.budget = b]
    OBVIOUS
  <2>2. tree' = z
    BY <1>7, <2>1 DEF SetBudget, Change
  <2>3. Fits(z)
    BY <1>1, <2>1, <2>2 DEF IsTree
  <2> QED
    BY <2>3, <1>7, TreeChanges_Keep DEF SetBudget, Change
<1>8. ASSUME NEW c \in CiRuns, RunCi(c) PROVE ReleaseInv'
  <2>1. PICK z : z = [tree EXCEPT !.ci = c]
    OBVIOUS
  <2>2. tree' = z
    BY <1>8, <2>1 DEF RunCi, Change
  <2>3. Fits(z)
    BY <1>1, <2>1, <2>2 DEF IsTree
  <2> QED
    BY <2>3, <1>8, TreeChanges_Keep DEF RunCi, Change
<1>9. ASSUME NEW t, RunDrill(t) PROVE ReleaseInv'
  <2>1. PICK z : z = [tree EXCEPT !.bundle[t] = (@ \ {"template"}) \union {"drill"}]
    OBVIOUS
  <2>2. tree' = z
    BY <1>9, <2>1 DEF RunDrill, Change
  <2>3. Fits(z)
    BY <1>1, <2>1, <2>2 DEF IsTree
  <2> QED
    BY <2>3, <1>9, TreeChanges_Keep DEF RunDrill, Change
<1> HIDE DEF Fits
<1> QED
  BY <1>2, <1>3, <1>4, <1>5, <1>6, <1>7, <1>8, <1>9

LEMMA CapturesKeep ==
  ASSUME ReleaseInv, NEW t \in 1..Tags,
         verify_db_rollback_readiness(t) \/ CaptureManifest(t) \/ CaptureCanary(t)
  PROVE  ReleaseInv'
<1>1. IsTree(tree)
  BY DEF ReleaseInv, TreeSound
<1>2. ASSUME NEW files, Capture([tree EXCEPT !.bundle[t] = files]) PROVE ReleaseInv'
  <2>1. PICK z : z = [tree EXCEPT !.bundle[t] = files]
    OBVIOUS
  <2>2. tree' = z
    BY <1>2, <2>1 DEF Capture
  <2>3. IsTree(z) /\ z.samples = tree.samples /\ z.baseline = tree.baseline
    BY <1>1, <2>1 DEF IsTree
  <2> QED
    BY <2>2, <2>3, <1>2, TreeChanges_Keep DEF Capture
<1>3. PICK files : Capture([tree EXCEPT !.bundle[t] = files])
  BY DEF verify_db_rollback_readiness, CaptureManifest, CaptureCanary
<1> QED
  BY <1>2, <1>3

LEMMA BaselineKeeps ==
  ASSUME ReleaseInv, NEW s \in Samples, generate_rum_baseline(s) PROVE ReleaseInv'
<1>1. IsTree(tree) /\ s \in Seq(Nat) /\ s # <<>>
  BY ReleaseAssumption DEF ReleaseInv, TreeSound
<1>2. PICK v : v = p75(s)
  OBVIOUS
<1>3. v \in Nat /\ 4 * Cardinality(Within(s, v)) >= 3 * Len(s)
  BY <1>1, <1>2, Percentile
<1>4. PICK z : z = [tree EXCEPT !.samples = s, !.baseline = v]
  OBVIOUS
<1>5. IsTree(z) /\ z.samples = s /\ z.baseline = v
  BY <1>1, <1>3, <1>4 DEF IsTree
<1>6. tree' = z /\ UNCHANGED <<prechecks, kpi, readiness>>
  BY <1>2, <1>4 DEF generate_rum_baseline, Capture
<1>7. TreeSound'
  BY <1>1, <1>3, <1>5, <1>6 DEF TreeSound, Measured
<1> QED
  BY <1>6, <1>7 DEF ReleaseInv, PrechecksSound, NotRedIsBacked

SoundNames == {"release_tag_exists", "changelog_exists", "performance_budget_present",
               "rum_baseline_present", "rum_within_budget_thresholds",
               "slo_thresholds_documented", "db_rollback_paths_covered",
               "db_rollback_blocker_gate"}
EvidentNames == {"release_manifest_artifact_present", "rollback_runbook_present",
                 "canary_rollout_script_present", "db_rollback_drill_evidence_present"}

\* All the prechecks hold only of a tree that can be released.
LEMMA ChecksHold ==
  ASSUME TreeSound, NEW bundle \in Evidences,
         \A c \in SoundNames : Sound[c], \A c \in EvidentNames : Evident(bundle)[c]
  PROVE  Releasable(tree)
<1>1. /\ tree.tag \in Nat /\ tree.documents \subseteq Documents /\ tree.budget \in Nat
      /\ tree.baseline \in Nat /\ Tags \in Nat
  BY ReleaseAssumption DEF TreeSound, IsTree
<1>2. /\ tree.tag > 0 /\ "changelog" \in tree.documents /\ tree.baseline > 0
      /\ tree.baseline \in 1..tree.budget /\ "slo" \in tree.documents
      /\ With("missing_policy") = {} /\ With("blocked") = {}
  BY DEF SoundNames, Sound
<1>3. /\ {"manifest", "checksums"} \subseteq bundle
      /\ "runbook" \in tree.documents /\ "readiness" \in bundle
      /\ "canary_script" \in tree.documents /\ "canary" \in bundle
  BY DEF EvidentNames, Evident
<1>4. tree.documents = Documents
  BY <1>1, <1>2, <1>3 DEF Documents
<1>5. \A m \in Migrations : tree.down[m] # "none"
  <2> SUFFICES ASSUME NEW m \in Migrations, tree.down[m] = "none" PROVE FALSE
    OBVIOUS
  <2>1. status(m) \in {"blocked", "missing_policy"}
    BY DEF status
  <2> QED
    BY <2>1, <1>2 DEF With
<1>6. bundle = tree.bundle[tree.tag]
  BY <1>2 DEF Evidences
<1>7. {"checksums", "manifest", "readiness", "canary"} \subseteq tree.bundle[tree.tag]
  BY <1>3, <1>6
<1>8. /\ tree.samples \in Seq(Nat) \ {<<>>}
      /\ 4 * Cardinality(Within(tree.samples, tree.baseline)) >= 3 * Len(tree.samples)
  BY <1>2 DEF TreeSound, Measured
<1>9. 4 * Cardinality(Within(tree.samples, tree.budget)) >= 3 * Len(tree.samples)
  <2> DEFINE low == Within(tree.samples, tree.baseline)
             all == Within(tree.samples, tree.budget)
             n == Len(tree.samples)
  <2>1. n \in Nat /\ DOMAIN tree.samples = 1..n
    BY <1>8
  <2>2. \A i \in DOMAIN tree.samples : tree.samples[i] \in Nat
    BY <1>8
  <2>3. low \subseteq all
    <3>1. \A a, b, c \in Nat : a <= b /\ b <= c => a <= c
      OBVIOUS
    <3>2. tree.baseline <= tree.budget
      BY <1>1, <1>2
    <3> QED
      BY <2>2, <3>1, <3>2, <1>1 DEF Within
  <2>4. IsFiniteSet(1..n)
    BY <2>1, FS_Interval
  <2>5. IsFiniteSet(all)
    BY <2>1, <2>4, FS_Subset DEF Within
  <2>6. Cardinality(low) <= Cardinality(all) /\ IsFiniteSet(low)
    BY <2>3, <2>5, FS_Subset
  <2>7. Cardinality(low) \in Nat /\ Cardinality(all) \in Nat
    BY <2>5, <2>6, FS_CardinalityType
  <2> HIDE DEF low, all, n
  <2>8. 4 * Cardinality(all) >= 3 * n
    BY <2>1, <2>6, <2>7, <1>8 DEF low, n
  <2> QED
    BY <2>8 DEF all, n
<1> QED
  BY <1>2, <1>4, <1>5, <1>7, <1>8, <1>9 DEF Releasable, Within

LEMMA PrechecksKeep ==
  ASSUME ReleaseInv, NEW skip \in BOOLEAN, generate_release_prechecks(skip) PROVE ReleaseInv'
<1>1. TreeSound /\ UNCHANGED <<tree, treeMoves, kpi, readiness>>
  BY DEF ReleaseInv, generate_release_prechecks
<1>2. PICK bundle \in Evidences :
        prechecks' = {[backed |-> Releasable(tree), reversible |-> Reversible(tree),
                       checks |-> Joined(Joined(Sound, Evident(bundle)),
                                         IF skip THEN <<>> ELSE Observed)]}
  BY DEF generate_release_prechecks
<1>3. PICK first : first = Joined(Sound, Evident(bundle))
  OBVIOUS
<1>4. PICK last : last = IF skip THEN <<>> ELSE Observed
  OBVIOUS
<1>5. PICK checks : checks = Joined(first, last)
  OBVIOUS
<1>6. PICK backed : backed = Releasable(tree)
  OBVIOUS
<1>7. PICK p : p = [backed |-> backed, reversible |-> Reversible(tree), checks |-> checks]
  OBVIOUS
<1>8. prechecks' = {p} /\ p.backed = backed /\ p.checks = checks
  BY <1>2, <1>3, <1>4, <1>5, <1>6, <1>7
<1>9. DOMAIN Sound = SoundNames
  BY DEF Sound, SoundNames
<1>10. DOMAIN Evident(bundle) = EvidentNames
  BY DEF Evident, EvidentNames
<1>11. DOMAIN last \subseteq {"api_red_metrics_minimum", "api_trace_header_echo"}
  <2>1. DOMAIN Observed = {"api_red_metrics_minimum", "api_trace_header_echo"}
    BY DEF Observed
  <2>2. DOMAIN <<>> = {}
    OBVIOUS
  <2> QED
    BY <1>4, <2>1, <2>2
<1>12. SoundNames \intersect EvidentNames = {}
  BY DEF SoundNames, EvidentNames
<1>13. /\ DOMAIN first = SoundNames \union EvidentNames
       /\ \A c \in SoundNames : first[c] = Sound[c]
       /\ \A c \in EvidentNames : first[c] = Evident(bundle)[c]
  <2>1. /\ DOMAIN first = DOMAIN Sound \union DOMAIN Evident(bundle)
        /\ \A c \in DOMAIN Sound : first[c] = Sound[c]
        /\ \A c \in DOMAIN Evident(bundle) :
              c \notin DOMAIN Sound => first[c] = Evident(bundle)[c]
    BY <1>3 DEF Joined
  <2>2. \A c \in EvidentNames : c \notin SoundNames
    BY <1>12
  <2> QED
    BY <2>1, <2>2, <1>9, <1>10, Zenon
<1>14. /\ DOMAIN checks = SoundNames \union EvidentNames \union DOMAIN last
       /\ \A c \in SoundNames \union EvidentNames : checks[c] = first[c]
  <2>1. /\ DOMAIN checks = DOMAIN first \union DOMAIN last
        /\ \A c \in DOMAIN first : checks[c] = first[c]
    BY <1>5 DEF Joined
  <2> QED
    BY <2>1, <1>13, Zenon
<1>15. (\A c \in DOMAIN checks : checks[c]) => backed
  <2> SUFFICES ASSUME \A c \in DOMAIN checks : checks[c] PROVE backed
    OBVIOUS
  <2>1. \A c \in SoundNames : Sound[c]
    BY <1>13, <1>14
  <2>2. \A c \in EvidentNames : Evident(bundle)[c]
    BY <1>13, <1>14
  <2> QED
    BY <2>1, <2>2, <1>1, <1>6, ChecksHold
<1>16. DOMAIN checks \intersect KpiNames = {}
  BY <1>11, <1>14 DEF SoundNames, EvidentNames, KpiNames
<1>17. PrechecksSound'
  BY <1>8, <1>15, <1>16 DEF PrechecksSound, PrecheckSound
<1>18. TreeSound'
  BY <1>1 DEF TreeSound
<1> QED
  BY <1>1, <1>17, <1>18 DEF ReleaseInv, NotRedIsBacked

\* What the CI's checks ask for, none of them failed.
LEMMA KpiHolds ==
  ASSUME NEW ci \in CiRuns, \A c \in KpiNames : KpiChecks(ci)[c] # 0
  PROVE  ci.failed <= 2 /\ 50 * (ci.failed + ci.skipped) <= ci.tests /\ ci.tests > 0
<1>1. ci.tests \in Nat /\ ci.failed \in Nat /\ ci.skipped \in Nat
  BY ReleaseAssumption
<1>2. /\ calc_status(pass_rate(ci), 100, 98) # 0
      /\ (IF ci.failed = 0 THEN 2 ELSE IF ci.failed <= 2 THEN 1 ELSE 0) # 0
  BY DEF KpiNames, KpiChecks
<1>3. ci.failed <= 2
  BY <1>1, <1>2
<1>4. ci.tests > 0
  BY <1>1, <1>2 DEF pass_rate, calc_status
<1>5. 50 * (ci.failed + ci.skipped) <= ci.tests
  <2> DEFINE n == passing(ci)
  <2>0. n \in Nat /\ (n > 0 => n = ci.tests - ci.failed - ci.skipped)
    BY <1>1 DEF passing
  <2> HIDE DEF n
  <2>1. pass_rate(ci) = (100 * n) \div ci.tests
    BY <1>4, <1>1 DEF pass_rate, n
  <2>2. pass_rate(ci) \in Int
    BY <2>0, <2>1, <1>1, <1>4
  <2>3. pass_rate(ci) >= 98
    BY <1>2, <2>2 DEF calc_status
  <2>4. \A a \in Int, b \in Nat \ {0} : a \div b >= 98 => a >= 98 * b
    OBVIOUS
  <2>5. 100 * n >= 98 * ci.tests
    BY <2>0, <2>1, <2>3, <2>4, <1>1, <1>4
  <2> QED
    BY <2>0, <2>5, <1>1, <1>4
<1> QED
  BY <1>3, <1>4, <1>5

LEMMA KpiKeeps == ReleaseInv /\ collect_kpi => ReleaseInv'
<1> SUFFICES ASSUME ReleaseInv, collect_kpi PROVE ReleaseInv'
  OBVIOUS
<1>1. kpi' = {tree.ci} /\ UNCHANGED <<tree, prechecks, readiness>> /\ tree.ci \in CiRuns
  BY DEF collect_kpi, ReleaseInv, TreeSound, IsTree
<1> QED
  BY <1>1 DEF ReleaseInv, TreeSound, PrechecksSound, NotRedIsBacked

LEMMA ReportKeeps ==
  ASSUME ReleaseInv, NEW given \in {{}, prechecks}, build_readiness_report(given)
  PROVE  ReleaseInv'
<1>1. UNCHANGED <<tree, treeMoves, prechecks, kpi>> /\ kpi \subseteq CiRuns
  BY DEF build_readiness_report, ReleaseInv
<1>2. PICK k \in kpi :
        readiness' = {[level |-> Aggregate(Joined(KpiChecks(k), External(given))),
                       from |-> {[backed |-> p.backed, reversible |-> p.reversible] : p \in given},
                       ci |-> k]}
  BY DEF build_readiness_report
<1>3. PICK external : external = External(given)
  OBVIOUS
<1>4. PICK checks : checks = Joined(KpiChecks(k), external)
  OBVIOUS
<1>5. PICK from : from = {[backed |-> p.backed, reversible |-> p.reversible] : p \in given}
  OBVIOUS
<1>6. PICK r : r = [level |-> Aggregate(checks), from |-> from, ci |-> k]
  OBVIOUS
<1>7. readiness' = {r} /\ r.level = Aggregate(checks) /\ r.from = from /\ r.ci = k
  BY <1>2, <1>3, <1>4, <1>5, <1>6
<1>8. DOMAIN KpiChecks(k) = KpiNames
  BY DEF KpiChecks, KpiNames
<1>9. /\ DOMAIN checks = KpiNames \union DOMAIN external
      /\ \A c \in KpiNames : checks[c] = KpiChecks(k)[c]
      /\ \A c \in DOMAIN external : c \notin KpiNames => checks[c] = external[c]
  <2>1. /\ DOMAIN checks = DOMAIN KpiChecks(k) \union DOMAIN external
        /\ \A c \in DOMAIN KpiChecks(k) : checks[c] = KpiChecks(k)[c]
        /\ \A c \in DOMAIN external : c \notin DOMAIN KpiChecks(k) => checks[c] = external[c]
    BY <1>4 DEF Joined
  <2> QED
    BY <2>1, <1>8, Zenon
<1>10. ASSUME r.level # "red"
       PROVE  /\ \A p \in r.from : p.backed
              /\ r.ci.failed <= 2 /\ 50 * (r.ci.failed + r.ci.skipped) <= r.ci.tests /\ r.ci.tests > 0
  <2>1. \A c \in DOMAIN checks : checks[c] # 0
    BY <1>7, <1>10 DEF Aggregate
  <2>2. \A c \in KpiNames : KpiChecks(k)[c] # 0
    BY <1>9, <2>1
  <2>3. k.failed <= 2 /\ 50 * (k.failed + k.skipped) <= k.tests /\ k.tests > 0
    BY <1>1, <2>2, KpiHolds
  <2>4. \A p \in from : p.backed
    <3>1. CASE given = {}
      BY <3>1, <1>5
    <3>2. CASE given # {}
      <4>1. PICK p : given = {p} /\ PrecheckSound(p)
        BY <3>2 DEF ReleaseInv, PrechecksSound
      <4>2. external = ExternalChecks(p)
        BY <4>1, <1>3, <3>2 DEF External
      <4>3. /\ DOMAIN external = DOMAIN p.checks
            /\ \A c \in DOMAIN p.checks : external[c] # 0 => p.checks[c]
        BY <4>2 DEF ExternalChecks
      <4>4. \A c \in DOMAIN p.checks : p.checks[c]
        <5>1. \A c \in DOMAIN p.checks : c \notin KpiNames
          BY <4>1 DEF PrecheckSound
        <5> QED
          BY <5>1, <4>3, <1>9, <2>1
      <4>5. p.backed
        BY <4>1, <4>4 DEF PrecheckSound
      <4> QED
        BY <4>1, <4>5, <1>5
    <3> QED
      BY <3>1, <3>2
  <2> QED
    BY <2>3, <2>4, <1>7
<1>11. NotRedIsBacked'
  BY <1>7, <1>10 DEF NotRedIsBacked
<1> QED
  BY <1>1, <1>11 DEF ReleaseInv, TreeSound, PrechecksSound

LEMMA ReleaseStarts == ReleaseInit => ReleaseInv
<1> SUFFICES ASSUME ReleaseInit PROVE ReleaseInv
  OBVIOUS
<1>1. PICK made \in BOOLEAN, ci \in CiRuns :
        tree = [tag |-> IF made THEN 1 ELSE 0,
                down |-> [m \in Migrations |-> IF made THEN "sql" ELSE "none"],
                blocked |-> {}, bundle |-> [t \in 1..Tags |-> {}],
                documents |-> IF made THEN Documents ELSE {"changelog"}, serves |-> TRUE,
                budget |-> IF made THEN 2 ELSE 0, baseline |-> 0, samples |-> <<>>, ci |-> ci]
  BY DEF ReleaseInit
<1>2. IsTree(tree)
  BY <1>1, ReleaseAssumption DEF IsTree, Documents
<1>3. ~(tree.baseline > 0)
  BY <1>1
<1> QED
  BY <1>2, <1>3 DEF ReleaseInit, ReleaseInv, TreeSound, Measured, PrechecksSound, NotRedIsBacked

\* NotRedIsBacked, whatever the migrations, tags, samples and runs of the CI: a report that is
\* not red looked at a tree that could be released and at a run of the CI that passed.
THEOREM ReleaseIsBacked == ReleaseSpec => []NotRedIsBacked
<1>1. ReleaseInv /\ ReleaseNext => ReleaseInv'
  <2> SUFFICES ASSUME ReleaseInv, ReleaseNext PROVE ReleaseInv'
    OBVIOUS
  <2>1. ASSUME NEW t \in 1..Tags,
               verify_db_rollback_readiness(t) \/ CaptureManifest(t) \/ CaptureCanary(t)
        PROVE  ReleaseInv'
    BY <2>1, CapturesKeep
  <2>2. ASSUME NEW s \in Samples, generate_rum_baseline(s) PROVE ReleaseInv'
    BY <2>2, BaselineKeeps
  <2>3. ASSUME NEW skip \in BOOLEAN, generate_release_prechecks(skip) PROVE ReleaseInv'
    BY <2>3, PrechecksKeep
  <2>4. ASSUME NEW given \in {{}, prechecks}, build_readiness_report(given) PROVE ReleaseInv'
    BY <2>4, ReportKeeps
  <2> QED
    BY <2>1, <2>2, <2>3, <2>4, DevelopersKeep, KpiKeeps DEF ReleaseNext
<1>2. ReleaseInv /\ UNCHANGED releaseVars => ReleaseInv'
  BY DEF releaseVars, ReleaseInv, TreeSound, PrechecksSound, NotRedIsBacked
<1>3. ReleaseInv => NotRedIsBacked
  BY DEF ReleaseInv
<1> QED
  BY <1>1, <1>2, <1>3, ReleaseStarts, PTL DEF ReleaseSpec
=============================================================================
