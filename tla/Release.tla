------------------------------- MODULE Release -------------------------------
(***************************************************************************)
(* scripts/release: the evidence of a release and what its scripts make of *)
(* it.  Developers change the tree; the operator captures bundles of       *)
(* evidence, makes the baseline of the page's measurements, and runs the   *)
(* prechecks, the CI's summary and the readiness report, each from what    *)
(* the others left, in any order.                                          *)
(***************************************************************************)
EXTENDS Naturals, Sequences, FiniteSets, FiniteSetsExt, SequencesExt

CONSTANTS
    Migrations,      \* the up migrations
    Tags,            \* bound: tags are 1..Tags
    Samples,         \* the sequences of measurements the operator may have
    CiRuns,          \* what the CI may have left, see collect_kpi
    TreeChanges      \* bound: changes of the tree

\* The CI counts its tests; without a sample generate_rum_baseline makes no baseline.
ASSUME ReleaseAssumption ==
    /\ Tags \in Nat \ {0}
    /\ Samples \subseteq Seq(Nat) \ {<<>>}
    /\ \A ci \in CiRuns : ci.tests \in Nat /\ ci.failed \in Nat /\ ci.skipped \in Nat

VARIABLES
    tree,            \* what the scripts read
    treeMoves,
    prechecks, kpi, readiness    \* the reports: sets of at most one

releaseVars == <<tree, treeMoves, prechecks, kpi, readiness>>

Documents == {"changelog", "slo", "runbook", "canary_script"}

\* A tree on the way to its next release, or one with little of it.  A budget or a baseline
\* of 0 is one that cannot be used.
ReleaseInit ==
    /\ \E ready \in BOOLEAN, ci \in CiRuns :
           tree = [tag |-> IF ready THEN 1 ELSE 0,
                   down |-> [m \in Migrations |-> IF ready THEN "sql" ELSE "none"],
                   blocked |-> {}, bundle |-> [t \in 1..Tags |-> {}],
                   documents |-> IF ready THEN Documents ELSE {"changelog"}, serves |-> TRUE,
                   budget |-> IF ready THEN 2 ELSE 0, baseline |-> 0, samples |-> <<>>, ci |-> ci]
    /\ prechecks = {} /\ kpi = {} /\ readiness = {}
    /\ treeMoves = 0

-----------------------------------------------------------------------------
(***************************************************************************)
(* The tree changes: the developers, the operator and the CI.              *)
(***************************************************************************)
Change(t) ==
    /\ treeMoves < TreeChanges
    /\ tree' = t /\ treeMoves' = treeMoves + 1
    /\ UNCHANGED <<prechecks, kpi, readiness>>

TagRelease == tree.tag < Tags /\ Change([tree EXCEPT !.tag = @ + 1])
ChangeDown(m, d) == tree.down[m] # d /\ Change([tree EXCEPT !.down[m] = d])
ListBlocker(m) == m \notin tree.blocked /\ Change([tree EXCEPT !.blocked = @ \union {m}])
LoseDocument(d) == d \in tree.documents /\ Change([tree EXCEPT !.documents = @ \ {d}])
BreakApi == tree.serves /\ Change([tree EXCEPT !.serves = FALSE])
SetBudget(b) == tree.budget # b /\ Change([tree EXCEPT !.budget = b])
RunDrill(t) ==
    /\ "drill" \notin tree.bundle[t]
    /\ Change([tree EXCEPT !.bundle[t] = (@ \ {"template"}) \union {"drill"}])
RunCi(c) == tree.ci # c /\ Change([tree EXCEPT !.ci = c])

-----------------------------------------------------------------------------
(***************************************************************************)
(* The scripts that make evidence.                                         *)
(***************************************************************************)
Capture(t) == tree' = t /\ UNCHANGED <<treeMoves, prechecks, kpi, readiness>>

Rank_Floor(n) == (n * 75) \div 100

\* The place, from 1, of the 75th percentile of n sorted values.
Rank(n) == Max({0, (n * 75 + 99) \div 100 - 1}) + 1

\* What stands at place k of s, sorted: the least value that k of them do not exceed.
AtPlace(s, k) ==
    Min({s[i] : i \in {i \in DOMAIN s : Cardinality({j \in DOMAIN s : s[j] <= s[i]}) >= k}})

p75(s) == AtPlace(s, Rank(Len(s)))

\* The page has one metric here.
generate_rum_baseline(s) == Capture([tree EXCEPT !.samples = s, !.baseline = p75(s)])

\* verify_db_rollback_readiness.
status(m) ==
    CASE tree.down[m] = "sql" -> "rehearsable"
      [] tree.down[m] = "empty" -> "invalid_down_sql"
      [] tree.down[m] = "none" /\ m \in tree.blocked -> "blocked"
      [] OTHER -> "missing_policy"
With(s) == {m \in Migrations : status(m) = s}

\* The drill counts by the keys of its file, which the template has.
drill_ok(bundle) == bundle \intersect {"template", "drill"} # {}

\* Run by hand it ends with 0 whatever it finds.
verify_db_rollback_readiness(t) ==
    Capture([tree EXCEPT !.bundle[t] = @ \union {"readiness"}])

\* The checksums; the rollback report, and a template of the drill when there is none;
\* the manifest.  It may be stopped between.
CaptureManifest(t) ==
    \E files \in {{"checksums"}, {"checksums", "readiness", "template", "manifest"}} :
        Capture([tree EXCEPT !.bundle[t] =
                    @ \union (files \ {f \in {"template"} : drill_ok(@)})])

\* Its log is there even when the dry run failed.
CaptureCanary(t) == Capture([tree EXCEPT !.bundle[t] = @ \union {"canary"}])

-----------------------------------------------------------------------------
(***************************************************************************)
(* generate_release_prechecks: the evidence is taken from the directory of *)
(* the latest tag, or from the newest one when there is no tag.            *)
(***************************************************************************)
Evidences ==
    IF tree.tag > 0 THEN {tree.bundle[tree.tag]} ELSE {{}} \union {tree.bundle[t] : t \in 1..Tags}

Sound == [
    release_tag_exists |-> tree.tag > 0,
    changelog_exists |-> "changelog" \in tree.documents,
    performance_budget_present |-> tree.budget > 0,
    rum_baseline_present |-> tree.baseline > 0,
    rum_within_budget_thresholds |-> tree.budget > 0 /\ tree.baseline \in 1..tree.budget,
    slo_thresholds_documented |-> "slo" \in tree.documents,
    db_rollback_paths_covered |-> With("missing_policy") = {},
    db_rollback_blocker_gate |-> With("blocked") = {}]

Evident(bundle) == [
    release_manifest_artifact_present |-> {"manifest", "checksums"} \subseteq bundle,
    rollback_runbook_present |-> "runbook" \in tree.documents /\ "readiness" \in bundle,
    canary_rollout_script_present |-> "canary_script" \in tree.documents /\ "canary" \in bundle,
    db_rollback_drill_evidence_present |-> drill_ok(bundle)]

Observed == [api_red_metrics_minimum |-> tree.serves, api_trace_header_echo |-> tree.serves]

\* Twice the weights.
Weight(c) ==
    CASE c \in {"release_tag_exists", "db_rollback_paths_covered", "db_rollback_blocker_gate",
                "junit_pass_rate", "junit_failed_total"} -> 4
      [] c \in {"changelog_exists", "db_rollback_drill_evidence_present",
                "python_coverage_lines", "web_coverage_lines"} -> 3
      [] OTHER -> 2

\* What a tree must have to be released: its tag and documents, a down file for every
\* migration, a bundle, and three pages in four within the budget.
Releasable(t) ==
    /\ t.tag > 0 /\ t.documents = Documents
    /\ \A m \in Migrations : t.down[m] # "none"
    /\ {"checksums", "manifest", "readiness", "canary"} \subseteq t.bundle[t.tag]
    /\ t.samples # <<>>
    /\ 4 * Cardinality({i \in DOMAIN t.samples : t.samples[i] <= t.budget}) >= 3 * Len(t.samples)
Reversible(t) == \A m \in Migrations : t.down[m] = "sql"

\* Checks of two sources; the names differ.
Joined(f, g) == [c \in DOMAIN f \union DOMAIN g |-> IF c \in DOMAIN f THEN f[c] ELSE g[c]]

\* "backed" and "reversible" are history, of the tree as it was: no script reads them.
generate_release_prechecks(skip) ==
    /\ \E bundle \in Evidences :
           prechecks' = {[backed |-> Releasable(tree), reversible |-> Reversible(tree),
                          checks |-> Joined(Joined(Sound, Evident(bundle)),
                                            IF skip THEN <<>> ELSE Observed)]}
    /\ UNCHANGED <<tree, treeMoves, kpi, readiness>>

-----------------------------------------------------------------------------
(***************************************************************************)
(* collect_kpi adds up the files that it can read and leaves out the       *)
(* others: a run of the CI is [tests, failed, skipped, unread, python, web, *)
(* mutation], where unread are failed tests of files that do not parse and *)
(* the last three are percentages, 0 when their files are missing.  (That  *)
(* percentages are rounded to four places shows above a million tests.)    *)
(***************************************************************************)
passing(ci) ==
    IF ci.failed + ci.skipped <= ci.tests THEN ci.tests - ci.failed - ci.skipped ELSE 0

pass_rate(ci) == IF ci.tests = 0 THEN 0 ELSE (100 * passing(ci)) \div ci.tests

collect_kpi ==
    /\ kpi' = {tree.ci}
    /\ UNCHANGED <<tree, treeMoves, prechecks, readiness>>

(***************************************************************************)
(* build_readiness_report.  A status is 0 for fail, 1 for warn and 2 for   *)
(* pass: what it earns of twice its weight.                                *)
(***************************************************************************)
calc_status(value, green, yellow) == IF value >= green THEN 2 ELSE IF value >= yellow THEN 1 ELSE 0

KpiChecks(ci) == [
    junit_pass_rate |-> calc_status(pass_rate(ci), 100, 98),
    junit_failed_total |-> IF ci.failed = 0 THEN 2 ELSE IF ci.failed <= 2 THEN 1 ELSE 0,
    python_coverage_lines |-> calc_status(ci.python, 80, 75),
    web_coverage_lines |-> calc_status(ci.web, 80, 75),
    mutation_score |-> calc_status(ci.mutation, 85, 60)]

ExternalChecks(p) == [c \in DOMAIN p.checks |-> IF p.checks[c] THEN 2 ELSE 0]

Scores(checks, percent) ==
    LET Earned(c) == Weight(c) * checks[c]
    IN  100 * MapThenSumSet(Earned, DOMAIN checks)
            >= 2 * percent * MapThenSumSet(Weight, DOMAIN checks)

Warned(checks) == \E c \in DOMAIN checks : checks[c] = 1

Aggregate_ByScore(checks) ==
    IF ~Scores(checks, 65) THEN "red"
    ELSE IF Warned(checks) \/ ~Scores(checks, 85) THEN "yellow"
    ELSE "green"

\* Every check is a required one.
Aggregate(checks) ==
    IF (\E c \in DOMAIN checks : checks[c] = 0) \/ ~Scores(checks, 65) THEN "red"
    ELSE IF Warned(checks) \/ ~Scores(checks, 85) THEN "yellow"
    ELSE "green"

External(given) == IF given = {} THEN <<>> ELSE ExternalChecks(CHOOSE p \in given : TRUE)

\* The prechecks are in it when the operator names their file.
build_readiness_report(given) ==
    /\ \E k \in kpi :
           readiness' = {[level |-> Aggregate(Joined(KpiChecks(k), External(given))),
                          from |-> {[backed |-> p.backed, reversible |-> p.reversible] : p \in given},
                          ci |-> k]}
    /\ UNCHANGED <<tree, treeMoves, prechecks, kpi>>

ReleaseNext ==
    \/ TagRelease \/ BreakApi
    \/ \E m \in Migrations, d \in {"none", "empty", "sql"} : ChangeDown(m, d)
    \/ \E m \in Migrations : ListBlocker(m)
    \/ \E d \in Documents : LoseDocument(d)
    \/ \E b \in 0..3 : SetBudget(b)
    \/ \E c \in CiRuns : RunCi(c)
    \/ \E s \in Samples : generate_rum_baseline(s)
    \/ \E t \in 1..Tags :
           RunDrill(t) \/ verify_db_rollback_readiness(t) \/ CaptureManifest(t) \/ CaptureCanary(t)
    \/ \E skip \in BOOLEAN : generate_release_prechecks(skip)
    \/ collect_kpi
    \/ \E given \in {{}, prechecks} : build_readiness_report(given)

ReleaseSpec == ReleaseInit /\ [][ReleaseNext]_releaseVars

-----------------------------------------------------------------------------
(***************************************************************************)
(* Properties.                                                             *)
(***************************************************************************)

\* A report that names the prechecks is red unless the tree they looked at had all of it and
\* the CI's run had tests of which at most two failed, and no more than two in a hundred
\* failed or were skipped: no score of the other checks makes up for one that failed
\* (build_readiness_report.py:155).  The tree may have changed since: no script compares.
NotRedIsBacked ==
    \A r \in readiness : r.level # "red" =>
        /\ \A p \in r.from : p.backed
        /\ r.ci.failed <= 2 /\ 50 * (r.ci.failed + r.ci.skipped) <= r.ci.tests /\ r.ci.tests > 0

\* The rollback runbook: a down file that holds no statement blocks the release
\* (docs/deploy/rollback-runbook.md).  The report counts such files, and the prechecks do
\* not read that count (generate_release_prechecks.py:440).
NotRedIsReversible ==
    \A r \in readiness : r.level # "red" =>
        \A p \in r.from : p.reversible
=============================================================================
