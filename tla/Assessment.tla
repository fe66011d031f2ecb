------------------------------ MODULE Assessment ------------------------------
(***************************************************************************)
(* propose_fixes (arguss/engine/propose.py) on a repository, with what can *)
(* change under it: pushes to the repository, advisories published, npm    *)
(* metadata and outages, the operator's kill switch.  It runs in one       *)
(* worker thread; a step here is what it reads from one source.            *)
(***************************************************************************)
EXTENDS FixEngine

VARIABLES
    repo,       \* the repository: its lockfile and the tests its CI runs
    osv,        \* the advisories OSV has published
    npm,        \* npm[p]: what the registry says of package p
    killed,     \* the kill switch
    moves,      \* how often any of these changed
    step,       \* where the analysis stands
    tree,       \* the clone or download being analysed
    pending,    \* consolidated candidates without a verdict yet
    report      \* the ProposalReport under construction

world == <<repo, osv, npm, killed, moves>>
scan == <<step, tree, pending, report>>

ScanSteps == {"idle", "fetching", "fetched", "queried", "judging", "failed"}

Candidates == [package : Packages, from : Versions, to : Versions,
               kind : {"patch", "minor", "major"}, findings : SUBSET Finding]

Entries == [candidate : Candidates, tier : {"AUTO_MERGE", "REVIEW_REQUIRED", "DECLINE"}]

\* No tests, or CI without them; tests told by the name of their directory
\* (test/, __tests__/); tests told by the name of the file (x.test.js).
TestFiles == {"none", "byDirectory", "byName"}

ASSUME FirstWorldsAssumption ==
    \A w \in FirstWorlds :
        /\ w.repo.lock \in Lockfiles /\ w.repo.tests \in TestFiles
        /\ w.osv \subseteq Advisories
        /\ w.npm \in [Packages -> Packuments]
        /\ w.killed \in BOOLEAN

\* The absent list is not a list of candidates.
ASSUME NoIdsAssumption == NoIds # {} /\ \A id \in NoIds : id \notin Candidates

EmptyReport ==
    [findings |-> {}, entries |-> {}, skipped |-> {}, lensFailed |-> FALSE]

AssessmentTypeOK ==
    /\ repo.lock \in Lockfiles /\ repo.tests \in TestFiles
    /\ osv \subseteq Advisories
    /\ npm \in [Packages -> Packuments]
    /\ killed \in BOOLEAN /\ moves \in 0..MaxMoves
    /\ step \in ScanSteps
    /\ tree.lock \in Lockfiles /\ tree.tested \in BOOLEAN
    /\ \A c \in pending \cup {e.candidate : e \in report.entries} :
          /\ c.package \in Packages /\ {c.from, c.to} \subseteq Versions
          /\ c.kind \in {"patch", "minor", "major"}
          /\ c.findings \subseteq report.findings /\ c.findings # {}
    /\ \A e \in report.entries : e.tier \in {"AUTO_MERGE", "REVIEW_REQUIRED", "DECLINE"}
    /\ report.findings \subseteq Finding /\ report.lensFailed \in BOOLEAN
    /\ \A s \in report.skipped : s.finding \in report.findings

AssessmentInit ==
    /\ \E w \in FirstWorlds :
          repo = w.repo /\ osv = w.osv /\ npm = w.npm /\ killed = w.killed
    /\ moves = 0
    /\ step = "idle" /\ tree = [lock |-> repo.lock, tested |-> FALSE]
    /\ pending = {} /\ report = EmptyReport

-----------------------------------------------------------------------------
(* The world *)

Push ==
    /\ \E lock \in Lockfiles, tests \in TestFiles :
          repo' = [lock |-> lock, tests |-> tests]
    /\ repo' # repo
    /\ UNCHANGED <<osv, npm, killed, scan>>

Publish(a) ==
    /\ a \notin osv
    /\ osv' = osv \cup {a}
    /\ UNCHANGED <<repo, npm, killed, scan>>

RegistryMoves(p) ==
    /\ \E m \in Packuments \ {npm[p]} : npm' = [npm EXCEPT ![p] = m]
    /\ UNCHANGED <<repo, osv, killed, scan>>

\* The environment variable or the file of is_kill_switch_active.
SwitchKill ==
    /\ killed' = ~killed
    /\ UNCHANGED <<repo, osv, npm, scan>>

WorldMoves ==
    /\ moves < MaxMoves /\ moves' = moves + 1
    /\ \/ Push
       \/ \E a \in Advisories : Publish(a)
       \/ \E p \in Packages : RegistryMoves(p)
       \/ SwitchKill

-----------------------------------------------------------------------------
(* The analysis *)

\* A bad url, a failed clone or download, a repository without a lockfile,
\* a lockfile that does not parse.
FetchFails ==
    /\ step = "fetching"
    /\ step' = "failed"
    /\ UNCHANGED <<tree, pending, report>>

\* A clone holds every file.  The Contents API of an assessment fetches the
\* manifests and the workflows, and leaves an empty file for each x.test.* and
\* x.spec.*: test_reality does not see the tests under test/.
Fetch(cloned) ==
    /\ step = "fetching"
    /\ tree' = [lock |-> repo.lock,
                tested |-> \/ repo.tests = "byName"
                           \/ cloned /\ repo.tests = "byDirectory"]
    /\ step' = "fetched"
    /\ report' = EmptyReport
    /\ pending' = {}

QueryOsv ==
    /\ step = "fetched"
    /\ step' = "queried"
    /\ report' = [report EXCEPT !.findings = FindingsIn(tree.lock, osv)]
    /\ UNCHANGED <<tree, pending>>

\* OsvError: no findings, and a lens_failure among the skipped ones.
OsvFails ==
    /\ step = "fetched"
    /\ step' = "queried"
    /\ report' = [report EXCEPT !.lensFailed = TRUE]
    /\ UNCHANGED <<tree, pending>>

\* The pipeline snapshot, then discovery and consolidation, which read
\* nothing but the findings.
Discover ==
    /\ step = "queried"
    /\ step' = "judging"
    /\ pending' = Consolidate(Discovered(report.findings))
    /\ report' = [report EXCEPT !.skipped =
          {[finding |-> f, reason |-> SkipReason(f)] :
              f \in {g \in report.findings : Target(g) = NoVersion}}]
    /\ UNCHANGED tree

\* ZizmorClientError
PipelineFails ==
    /\ step = "queried"
    /\ step' = "failed"
    /\ UNCHANGED <<tree, pending, report>>

\* The verdict on one candidate: the trust delta is fetched and the kill
\* switch read now, the pipeline was read from the tree.
Judge(c) ==
    /\ step = "judging"
    /\ c \in pending
    /\ \A d \in pending : ~ComesBefore(d, c)
    /\ pending' = pending \ {c}
    /\ report' = [report EXCEPT !.entries = @ \cup
          {[candidate |-> c,
            tier |-> Verdict(c, npm[c.package], tree.tested, killed).tier]}]
    /\ UNCHANGED <<step, tree>>

Reported == step = "judging" /\ pending = {}

ScanMoves(cloned) ==
    /\ \/ Fetch(cloned) \/ FetchFails \/ QueryOsv \/ OsvFails \/ Discover \/ PipelineFails
       \/ \E c \in pending : Judge(c)
    /\ UNCHANGED world
==============================================================================
