------------------------------ MODULE Evidence ------------------------------
(***************************************************************************)
(* .runtime-cache: the logs, manifests and evidence of the entry points'   *)
(* runs, each with a sidecar of metadata that is written after it, and the *)
(* maintenance and checks of governance-audit: normalise, prune, index by  *)
(* run, check freshness, that no evidence is outside the index and that    *)
(* the evidence of the runs that have completed is all there.  A run may   *)
(* end at any point, within a write too, and so may an audit.              *)
(***************************************************************************)
EXTENDS Naturals, FiniteSets

CONSTANTS
    EvRuns,      \* runs of entry points: strings, none of them "legacy"
    RunTtl,      \* days a manifest is kept
    LogTtl,      \* days a log is kept
    FileTtl,     \* days a report or evidence is kept
    LastDay,     \* bound: the last day
    Deaths       \* bound: writers, of a run or of the audit, that end within their work

\* runtime-outputs.json: 1 day for run, 30 for logs, 30 and 14 for reports and evidence.
ASSUME TtlAssumption ==
    /\ RunTtl \in Nat /\ LogTtl \in Nat /\ FileTtl \in Nat
    /\ RunTtl <= LogTtl

VARIABLES
    file,        \* path -> the file and its sidecar
    evRun,       \* run -> how far it is
    today,
    audit,       \* [pc, quiet]: governance-audit, and that nobody wrote meanwhile
    cut,         \* the runs whose manifest or log, still without a sidecar, was cut short
    deaths

evidenceVars == <<file, evRun, today, audit, cut, deaths>>

Ids == EvRuns \union {"legacy"}
Shot == <<"evidence", "shot">>
Log(r) == <<"log", r>>
Manifest(r) == <<"manifest", r>>
Index(id) == <<"index", id>>
Paths == ({"log", "manifest", "index"} \X Ids) \union {Shot}

\* at: when it was written, 0 for no file.  text: "torn" when it (a log: its last line) does
\* not parse, "unended" when only the end of the line is wanting.  born and owner: the
\* sidecar's, 0 for none; one that does not parse is none (read_runtime_metadata).
NoFile == [at |-> 0, text |-> "none", done |-> FALSE, lists |-> {},
           born |-> 0, owner |-> "none", window |-> 0]

\* An audit that has ended is as one that was not begun, unless a check of it has failed: the
\* last one, of the runs, or another.
NoAudit == [pc |-> "idle", quiet |-> FALSE]
AuditEnds == {"idle", "incomplete", "failed"}

EvidenceInit ==
    /\ file = [p \in Paths |-> NoFile]
    /\ evRun = [r \in EvRuns |-> 1]
    /\ today = 1 /\ audit = NoAudit
    /\ cut = {} /\ deaths = 0

There(p) == file[p].at > 0
HasSidecar(p) == file[p].born > 0
Sidecar(f, born, owner, window) == [f EXCEPT !.born = born, !.owner = owner, !.window = window]
NoSidecar(f) == Sidecar(f, 0, "none", 0)
Dies == deaths < Deaths /\ deaths' = deaths + 1
Disturbed == audit' = [audit EXCEPT !.quiet = FALSE]

-----------------------------------------------------------------------------
(***************************************************************************)
(* A run: its bootstrap logs an event and writes the manifest; a tool      *)
(* leaves its file, the same for every run; the completion is logged.      *)
(***************************************************************************)
Plan(r) == <<Log(r), Manifest(r), Shot, Log(r)>>
Ended == 5
PathOf(r) == Plan(r)[evRun[r]]
WriterWindow(p) == IF p[1] = "log" THEN LogTtl ELSE RunTtl

\* A log is appended to, and what follows a line without its end becomes part of it.
TextAfter(p, text) ==
    IF p[1] = "log" /\ file[p].text \in {"torn", "unended"} THEN "torn" ELSE text

Written(r, text) ==
    LET t == TextAfter(PathOf(r), text) IN
    [file[PathOf(r)] EXCEPT !.at = today, !.text = t,
                            !.done = evRun[r] = 4 /\ t \in {"unended", "whole"}]

RunWrites(r) ==
    /\ evRun[r] < Ended
    /\ file' = [file EXCEPT ![PathOf(r)] =
                   Sidecar(Written(r, "whole"), today, r, WriterWindow(PathOf(r)))]
    /\ evRun' = [evRun EXCEPT ![r] = @ + 1]
    /\ Disturbed /\ UNCHANGED <<today, cut, deaths>>

\* Neither write_text nor an append is atomic: what a writer that ends within it leaves.  An
\* empty manifest is as good as a torn one; a tool's file is not read.
CutTexts(p) ==
    CASE p[1] = "manifest" -> {"torn"}
      [] p[1] = "log" -> {"torn", "unended"} \union (IF There(p) THEN {} ELSE {"empty"})
      [] OTHER -> {}

\* Nothing, part of the file, the file with the sidecar of the one before, or the file with
\* its own sidecar cut short.
LeftBy(r) ==
    LET whole == Written(r, "whole") IN
    {file[PathOf(r)], whole, NoSidecar(whole)} \union
        {Written(r, text) : text \in CutTexts(PathOf(r))}

\* Manifest or log, short and with no sidecar that says whose it is.
CutShort(p, f) == p # Shot /\ f.text # "whole" /\ f.born = 0

\* The run ends with its writer, save that a log's may fail without the run's notice.  A run
\* that ends between two writes is one that goes no further.
WriterDies(r) ==
    /\ evRun[r] < Ended
    /\ \E f \in LeftBy(r) :
          /\ file' = [file EXCEPT ![PathOf(r)] = f]
          /\ cut' = IF CutShort(PathOf(r), f) THEN cut \union {r} ELSE cut
    /\ evRun' = [evRun EXCEPT ![r] = IF PathOf(r) = Log(r) THEN @ + 1 ELSE Ended]
    /\ Disturbed /\ Dies /\ UNCHANGED today

\* A bootstrap, from its log line to the manifest, takes less than a day.
NextDay ==
    /\ today < LastDay /\ audit.pc \in AuditEnds
    /\ \A r \in EvRuns : evRun[r] # 2
    /\ today' = today + 1
    /\ Disturbed /\ UNCHANGED <<file, evRun, cut, deaths>>

-----------------------------------------------------------------------------
(***************************************************************************)
(* prune_runtime_cache.  A file without a sidecar is given one: its run is *)
(* the last line's of a log, the payload's of a manifest or an index, and  *)
(* "legacy" for what does not parse or names none ("legacy-<stem>": one id *)
(* stands for them all); it is as old as the file.                         *)
(***************************************************************************)
Infer_Legacy(p) == "legacy"

infer_source_run_id(p) ==
    IF p = Shot \/ file[p].text \in {"empty", "torn"} THEN "legacy" ELSE p[2]

Ttl(p) == CASE p[1] = "manifest" -> RunTtl [] p[1] = "log" -> LogTtl [] OTHER -> FileTtl

Normalized(p) ==
    IF There(p) /\ ~HasSidecar(p)
    THEN Sidecar(file[p], file[p].at, infer_source_run_id(p), Ttl(p)) ELSE file[p]

Earlier(a, b) == IF a < b THEN a ELSE b
age(f) == today - Earlier(f.at, f.born)
FreshnessRequired(p) == p[1] \in {"index", "evidence"}

\* Past its days, or past the window of its sidecar.
Overdue(p, f) == f.at > 0 /\ (age(f) > Ttl(p) \/ (FreshnessRequired(p) /\ age(f) > f.window))

Step(pc) == audit' = [audit EXCEPT !.pc = pc]
Check(holds, pc) == Step(IF holds THEN pc ELSE "failed")

AuditBegins ==
    /\ audit.pc \in AuditEnds
    /\ audit' = [pc |-> "prune", quiet |-> TRUE]
    /\ UNCHANGED <<file, evRun, today, cut, deaths>>

Pruned(p) == IF Overdue(p, Normalized(p)) THEN NoFile ELSE Normalized(p)

\* The budgets of a directory, its files counted before any is removed, are those of all the
\* files in it: an audit that finds one exceeded, which is left open, ends there.
Prune ==
    /\ audit.pc = "prune"
    /\ file' = [p \in Paths |-> Pruned(p)]
    /\ Step("index") \/ audit' = NoAudit
    /\ UNCHANGED <<evRun, today, cut, deaths>>

\* It ends among the files, of which the manifests come first.
PruneDies ==
    /\ audit.pc = "prune"
    /\ \E ps \in SUBSET {p \in Paths : Pruned(p) # file[p]} :
          /\ \A p \in Paths \ ps : p[1] = "manifest" /\ Pruned(p) # file[p] =>
                ps \subseteq {q \in Paths : q[1] = "manifest"}
          /\ file' = [p \in Paths |-> IF p \in ps THEN Pruned(p) ELSE file[p]]
    /\ audit' = NoAudit /\ Dies /\ UNCHANGED <<evRun, today, cut>>

\* check_runtime_cache_retention: the same without removing, which must find nothing to remove.
CheckRetention ==
    /\ audit.pc = "retention"
    /\ file' = [p \in Paths |-> Normalized(p)]
    /\ \/ Check(\A p \in Paths : ~Overdue(p, Normalized(p)), "freshness")
       \/ audit' = NoAudit
    /\ UNCHANGED <<evRun, today, cut, deaths>>

CheckFreshness ==
    /\ audit.pc = "freshness"
    /\ Check(\A p \in Paths : There(p) /\ FreshnessRequired(p) =>
                 HasSidecar(p) /\ age(file[p]) <= file[p].window, "index again")
    /\ UNCHANGED <<file, evRun, today, cut, deaths>>

-----------------------------------------------------------------------------
(***************************************************************************)
(* build_evidence_index: the files of each run, the run's former index     *)
(* among them.                                                             *)
(***************************************************************************)
Indexed(p) == p[1] # "manifest"
Of(id) == {p \in Paths : Indexed(p) /\ There(p) /\ HasSidecar(p) /\ file[p].owner = id}

IndexOf(id, former) ==
    [former EXCEPT !.at = today, !.text = "whole", !.lists = Of(id)]

Rebuilt(ids) ==
    [p \in Paths |-> IF p[1] = "index" /\ p[2] \in ids /\ Of(p[2]) # {}
                     THEN Sidecar(IndexOf(p[2], NoFile), today, p[2], RunTtl)
                     ELSE file[p]]

BuildIndex ==
    /\ audit.pc \in {"index", "index again"}
    /\ file' = Rebuilt(Ids)
    /\ Step(IF audit.pc = "index" THEN "retention" ELSE "unindexed")
    /\ UNCHANGED <<evRun, today, cut, deaths>>

\* It ends among the indexes, the last one torn, or without its own sidecar.
BuildIndexDies(id) ==
    /\ audit.pc \in {"index", "index again"} /\ Of(id) # {}
    /\ LET whole == IndexOf(id, file[Index(id)]) IN
       \E ids \in SUBSET (Ids \ {id}),
          f \in {whole, NoSidecar(whole), [whole EXCEPT !.text = "torn", !.lists = {}]} :
             file' = [Rebuilt(ids) EXCEPT ![Index(id)] = f]
    /\ audit' = NoAudit /\ Dies /\ UNCHANGED <<evRun, today, cut>>

AuditDies ==
    /\ audit.pc \notin AuditEnds
    /\ audit' = NoAudit /\ UNCHANGED <<file, evRun, today, cut, deaths>>

-----------------------------------------------------------------------------
CheckUnindexed ==
    /\ audit.pc = "unindexed"
    /\ Check(There(Shot) => /\ HasSidecar(Shot) /\ file[Index(file[Shot].owner)].text = "whole"
                            /\ Shot \in file[Index(file[Shot].owner)].lists, "manifests")
    /\ UNCHANGED <<file, evRun, today, cut, deaths>>

run_complete(r) == file[Log(r)].done
Artifacts(r) == {p \in Of(r) : p[1] # "index"}

Complete(r) ==
    /\ file[Manifest(r)].text = "whole"
    /\ There(Log(r)) /\ HasSidecar(Log(r)) /\ file[Log(r)].owner = r
    /\ Artifacts(r) # {} /\ There(Index(r)) => file[Index(r)].text = "whole"
    /\ run_complete(r) => /\ Artifacts(r) # {} /\ There(Index(r))
                          /\ Artifacts(r) \subseteq file[Index(r)].lists

Passes(r) == There(Manifest(r)) => Complete(r)

CheckManifests ==
    /\ audit.pc = "manifests"
    /\ IF \A r \in EvRuns : Passes(r) THEN audit' = NoAudit ELSE Step("incomplete")
    /\ UNCHANGED <<file, evRun, today, cut, deaths>>

EvidenceNext ==
    \/ \E r \in EvRuns : RunWrites(r) \/ WriterDies(r)
    \/ NextDay
    \/ AuditBegins \/ Prune \/ PruneDies \/ BuildIndex \/ CheckRetention \/ CheckFreshness
    \/ CheckUnindexed \/ CheckManifests
    \/ \E id \in Ids : BuildIndexDies(id)
    \/ AuditDies

EvidenceSpec == EvidenceInit /\ [][EvidenceNext]_evidenceVars

-----------------------------------------------------------------------------
(***************************************************************************)
(* The audit heals what it checks: with nobody writing during it, no check *)
(* fails (within the budgets), whatever interrupted runs and audits have   *)
(* left behind and on whatever days, save the last, and that one on no run *)
(* but those one of whose writers was killed within its manifest or its    *)
(* log, or before, and left it without a sidecar.  A torn manifest makes   *)
(* it raise, and a log that is missing, or that maintenance has to call    *)
(* "legacy", makes it fail; both last until the manifest is pruned.        *)
(***************************************************************************)
QuietAuditPasses ==
    audit.quiet => /\ audit.pc # "failed"
                   /\ audit.pc = "incomplete" => \A r \in EvRuns \ cut : Passes(r)

=============================================================================
