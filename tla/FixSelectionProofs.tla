-------------------------- MODULE FixSelectionProofs ---------------------------
(***************************************************************************)
(* What holds of every analysis and of the merges authorized on it, for    *)
(* any repository, any advisories and any answers of the registry.         *)
(***************************************************************************)
EXTENDS FixSelection, FixEngineProofs

-----------------------------------------------------------------------------
(* The inductive invariant *)

\* The upgrades of the findings of the report.
Proposed == Consolidate(Discovered(report.findings))

SkippedFindings ==
    {[finding |-> f, reason |-> SkipReason(f)] :
        f \in {g \in report.findings : Target(g) = NoVersion}}

\* Between discovery and the last verdict every upgrade is pending or judged.
ScanOK ==
    /\ report = [findings |-> report.findings, entries |-> report.entries,
                 skipped |-> report.skipped, lensFailed |-> report.lensFailed]
    /\ report.findings \in SUBSET Finding /\ IsFiniteSet(report.findings)
    /\ Upgrades = {} \/ Upgrades = Proposed
    /\ pending # {} => step = "judging"
    /\ step \in {"fetched", "queried"} => Upgrades = {}
    /\ step = "fetched" => report.findings = {}
    /\ step = "judging" => Upgrades = Proposed /\ report.skipped = SkippedFindings
    /\ step \in {"fetched", "queried"} => report.skipped = {}

\* What a verdict was given on, and when.
VerdictsOK ==
    /\ step = "judging" => \A e \in report.entries :
          /\ e.tier = "AUTO_MERGE" => e.candidate.kind # "major" /\ tree.tested
          /\ e.tier # "DECLINE" => wasOff
    /\ step # "idle" /\ ~killed => wasOff

PhaseOK ==
    /\ phase = "start" <=> step = "idle"
    /\ phase = "start" => cached = {}
    /\ phase \in {"start", "assessing", "plan"} => selected = {} /\ ticked = {}
    /\ phase \in {"plan", "selected"} => Reported
    /\ phase = "done" => Reported \/ step = "failed"
    /\ phase # "done" => prs = {} /\ rows = {}

\* The selection of a wizard is made of what the page showed.
ChoiceOK ==
    /\ \A e \in cached : e.candidate \in Candidates /\ e.candidate.findings # {}
    /\ cached # {} => /\ selected # NoIds /\ ticked # NoIds
                      /\ selected \subseteq Ids(cached) /\ ticked \subseteq selected

IInv ==
    TypeOK /\ ScanOK /\ VerdictsOK /\ PhaseOK /\ ChoiceOK /\ MergedAsShown /\ EngineMergeIsEarned

-----------------------------------------------------------------------------
(* The analysis *)

\* Every upgrade of a report has the type of a candidate.
LEMMA UpgradesTyped ==
    ASSUME report.findings \in SUBSET Finding, IsFiniteSet(report.findings),
           Upgrades = {} \/ Upgrades = Proposed
    PROVE  \A c \in Upgrades :
              /\ c.package \in Packages /\ {c.from, c.to} \subseteq Versions
              /\ c.kind \in {"patch", "minor", "major"}
              /\ c.findings \subseteq report.findings /\ c.findings # {}
              /\ c \in Candidates
    BY UpgradesAre DEF Proposed, Candidates

\* A step of the analysis leaves everything else as it is.
LEMMA AnalysisFrame ==
    ASSUME IInv, Analysis
    PROVE  /\ UNCHANGED <<world, choice, prs, rows, allowDecline, wasOff>>
           /\ UNCHANGED <<repo, osv, npm, killed, moves, phase, cached, selected, ticked>>
           /\ phase \in {"assessing", "acting"} /\ prs = {} /\ rows = {}
           /\ step \in {"fetching", "fetched", "queried", "judging"}
           /\ step = "judging" => pending # {}
    <1>1. /\ UNCHANGED <<world, choice, prs, rows, allowDecline, wasOff>>
          /\ step \in {"fetching", "fetched", "queried", "judging"}
          /\ step = "judging" => pending # {}
        BY DEF Analysis, ScanMoves, Fetch, FetchFails, QueryOsv, OsvFails, Discover,
               PipelineFails, Judge
    <1> QED
        BY <1>1 DEF world, choice, IInv, TypeOK, Phases, PhaseOK, Reported

\* What the other invariants ask of a step of the analysis.
LEMMA AnalysisStep ==
    ASSUME IInv, Analysis, ScanOK',
           step' \in ScanSteps \ {"idle"},
           tree' = tree \/ (tree'.lock \in Lockfiles /\ tree'.tested \in BOOLEAN),
           \A e \in report'.entries : e.tier \in {"AUTO_MERGE", "REVIEW_REQUIRED", "DECLINE"},
           report'.lensFailed \in BOOLEAN,
           \A s \in report'.skipped : s.finding \in report'.findings,
           step' = "judging" => \A e \in report'.entries :
              /\ e.tier = "AUTO_MERGE" => e.candidate.kind # "major" /\ tree'.tested
              /\ e.tier # "DECLINE" => wasOff
    PROVE  IInv'
    <1>1. /\ UNCHANGED <<repo, osv, npm, killed, moves, phase, cached, selected, ticked, prs, rows,
                         allowDecline, wasOff>>
          /\ phase \in {"assessing", "acting"} /\ prs = {} /\ rows = {}
          /\ step # "idle"
        BY AnalysisFrame
    <1>2. \A c \in Upgrades' :
              /\ c.package \in Packages /\ {c.from, c.to} \subseteq Versions
              /\ c.kind \in {"patch", "minor", "major"}
              /\ c.findings \subseteq report'.findings /\ c.findings # {}
        BY UpgradesAre DEF ScanOK, Proposed
    <1>3. AssessmentTypeOK'
        <2>1. /\ tree'.lock \in Lockfiles /\ tree'.tested \in BOOLEAN
            BY DEF IInv, TypeOK, AssessmentTypeOK
        <2>2. report'.findings \subseteq Finding
            BY DEF ScanOK
        <2> QED
            BY <1>1, <1>2, <2>1, <2>2
               DEF IInv, TypeOK, AssessmentTypeOK, Upgrades, Ids
    <1>4. TypeOK'
        BY <1>1, <1>3 DEF IInv, TypeOK
    <1>5. VerdictsOK'
        BY <1>1 DEF IInv, VerdictsOK
    <1>6. PhaseOK'
        BY <1>1 DEF IInv, PhaseOK
    <1>7. ChoiceOK'
        BY <1>1 DEF IInv, ChoiceOK, Ids
    <1>8. MergedAsShown' /\ EngineMergeIsEarned'
        BY <1>1 DEF MergedAsShown, EngineMergeIsEarned
    <1> QED
        BY <1>4, <1>5, <1>6, <1>7, <1>8 DEF IInv

LEMMA FetchKeeps ==
    ASSUME IInv, Analysis, Fetch(phase = "acting") \/ FetchFails
    PROVE  IInv'
    <1>1. CASE Fetch(phase = "acting")
        <2>1. /\ step' = "fetched" /\ report' = EmptyReport /\ pending' = {}
              /\ tree'.lock = repo.lock /\ tree'.tested \in BOOLEAN
            BY <1>1 DEF Fetch
        <2>2. Upgrades' = {}
            BY <2>1 DEF Upgrades, Ids, EmptyReport
        <2>3. ScanOK'
            BY <2>1, <2>2, FS_EmptySet DEF ScanOK, EmptyReport
        <2> QED
            BY <2>1, <2>3, AnalysisStep
               DEF IInv, TypeOK, AssessmentTypeOK, ScanSteps, EmptyReport
    <1>2. CASE FetchFails
        <2>1. step' = "failed" /\ UNCHANGED <<tree, pending, report>> /\ step = "fetching"
            BY <1>2 DEF FetchFails
        <2>2. ScanOK'
            BY <2>1 DEF IInv, ScanOK, Upgrades, Ids, Proposed
        <2> QED
            BY <2>1, <2>2, AnalysisStep DEF IInv, TypeOK, AssessmentTypeOK, ScanSteps
    <1> QED
        BY <1>1, <1>2

LEMMA QueryKeeps ==
    ASSUME IInv, Analysis, QueryOsv \/ OsvFails
    PROVE  IInv'
    <1>1. /\ report' = [findings |-> report'.findings, entries |-> report.entries,
                        skipped |-> report.skipped, lensFailed |-> report'.lensFailed]
          /\ report'.findings \in SUBSET Finding /\ IsFiniteSet(report'.findings)
          /\ report'.lensFailed \in BOOLEAN
        <2>1. ScanOK /\ report.lensFailed \in BOOLEAN
            BY DEF IInv, TypeOK, AssessmentTypeOK
        <2>2. CASE QueryOsv
            <3>1. report' = [findings |-> FindingsIn(tree.lock, osv), entries |-> report.entries,
                             skipped |-> report.skipped, lensFailed |-> report.lensFailed]
                BY <2>1, <2>2 DEF QueryOsv, ScanOK
            <3>2. /\ FindingsIn(tree.lock, osv) \in SUBSET Finding
                  /\ IsFiniteSet(FindingsIn(tree.lock, osv))
                BY FindingsAreFinite DEF IInv, TypeOK, AssessmentTypeOK
            <3> HIDE DEF FindingsIn
            <3> QED
                BY <2>1, <3>1, <3>2
        <2>3. CASE OsvFails
            <3>1. report' = [findings |-> report.findings, entries |-> report.entries,
                             skipped |-> report.skipped, lensFailed |-> TRUE]
                BY <2>1, <2>3 DEF OsvFails, ScanOK
            <3>2. report.findings \in SUBSET Finding /\ IsFiniteSet(report.findings)
                BY <2>1 DEF ScanOK
            <3> QED
                BY <3>1, <3>2
        <2> QED
            BY <2>2, <2>3
    <1>2. step = "fetched" /\ step' = "queried" /\ UNCHANGED <<tree, pending>>
        BY DEF QueryOsv, OsvFails
    <1>3. Upgrades = {} /\ Upgrades' = {} /\ report.skipped = {} /\ report.entries = {} /\ pending = {}
        BY <1>1, <1>2 DEF IInv, ScanOK, Upgrades, Ids
    <1>4. ScanOK'
        BY <1>1, <1>2, <1>3 DEF ScanOK
    <1> QED
        BY <1>1, <1>2, <1>3, <1>4, AnalysisStep DEF ScanSteps

LEMMA DiscoverKeeps ==
    ASSUME IInv, Analysis, Discover \/ PipelineFails
    PROVE  IInv'
    <1>1. /\ step = "queried" /\ tree' = tree /\ ScanOK
          /\ pending = {} /\ report.entries = {} /\ report.skipped = {}
          /\ report.lensFailed \in BOOLEAN
        <2>1. step = "queried" /\ tree' = tree /\ ScanOK
            BY DEF Discover, PipelineFails, IInv
        <2>2. Upgrades = {} /\ report.skipped = {}
            BY <2>1 DEF ScanOK
        <2>3. pending = {} /\ report.entries = {}
            BY <2>2 DEF Upgrades, Ids
        <2>4. report.lensFailed \in BOOLEAN
            BY DEF IInv, TypeOK, AssessmentTypeOK
        <2> QED
            BY <2>1, <2>2, <2>3, <2>4
    <1>2. CASE Discover
        <2>1. /\ step' = "judging" /\ pending' = Proposed
              /\ report' = [findings |-> report.findings, entries |-> {},
                            skipped |-> SkippedFindings, lensFailed |-> report.lensFailed]
            BY <1>1, <1>2 DEF Discover, ScanOK, Proposed, SkippedFindings
        <2>2. /\ report'.findings = report.findings /\ report'.entries = {}
              /\ report'.skipped = SkippedFindings /\ report'.lensFailed = report.lensFailed
            BY <2>1
        <2>3. Upgrades' = Proposed' /\ report'.skipped = SkippedFindings'
            BY <2>1, <2>2 DEF Upgrades, Ids, Proposed, SkippedFindings
        <2>4. ScanOK'
            BY <1>1, <2>1, <2>2, <2>3 DEF ScanOK
        <2>5. \A s \in report'.skipped : s.finding \in report'.findings
            BY <2>2 DEF SkippedFindings
        <2> QED
            BY <1>1, <2>1, <2>2, <2>4, <2>5, AnalysisStep DEF ScanSteps
    <1>3. CASE PipelineFails
        <2>1. step' = "failed" /\ UNCHANGED <<pending, report>>
            BY <1>3 DEF PipelineFails
        <2>2. ScanOK'
            BY <1>1, <2>1 DEF ScanOK, Upgrades, Ids, Proposed
        <2> QED
            BY <1>1, <2>1, <2>2, AnalysisStep DEF ScanSteps
    <1> QED
        BY <1>2, <1>3

\* compute_fix_confidence: AUTO_MERGE needs tests and no major upgrade, and
\* nothing but a decline comes out while the kill switch is on.
LEMMA VerdictIs ==
    ASSUME NEW c, NEW packument, NEW tested \in BOOLEAN, NEW off \in BOOLEAN
    PROVE  LET tier == Verdict(c, packument, tested, off).tier
           IN  /\ tier \in {"AUTO_MERGE", "REVIEW_REQUIRED", "DECLINE"}
               /\ tier = "AUTO_MERGE" => c.kind # "major" /\ tested
               /\ tier # "DECLINE" => ~off
    <1>1. Vetoes(c, packument, tested) = {} => c.kind # "major" /\ tested
        BY DEF Vetoes
    <1> QED
        BY <1>1 DEF Verdict

LEMMA JudgeKeeps ==
    ASSUME IInv, Analysis, NEW c \in pending, Judge(c)
    PROVE  IInv'
    <1> DEFINE tier == Verdict(c, npm[c.package], tree.tested, killed).tier
               entry == [candidate |-> c, tier |-> tier]
    <1>1. /\ ScanOK /\ VerdictsOK /\ tree.tested \in BOOLEAN /\ killed \in BOOLEAN
          /\ report.lensFailed \in BOOLEAN
          /\ \A e \in report.entries : e.tier \in {"AUTO_MERGE", "REVIEW_REQUIRED", "DECLINE"}
          /\ \A s \in report.skipped : s.finding \in report.findings
        BY DEF IInv, TypeOK, AssessmentTypeOK
    <1>2. /\ tier \in {"AUTO_MERGE", "REVIEW_REQUIRED", "DECLINE"}
          /\ tier = "AUTO_MERGE" => c.kind # "major" /\ tree.tested
          /\ tier # "DECLINE" => ~killed
        BY <1>1, VerdictIs
    <1> HIDE DEF tier
    <1>3. /\ step = "judging" /\ step' = step /\ tree' = tree /\ pending' = pending \ {c}
          /\ report' = [findings |-> report.findings, entries |-> report.entries \cup {entry},
                        skipped |-> report.skipped, lensFailed |-> report.lensFailed]
        BY <1>1 DEF Judge, ScanOK, tier
    <1>4. /\ report'.findings = report.findings /\ report'.entries = report.entries \cup {entry}
          /\ report'.skipped = report.skipped /\ report'.lensFailed = report.lensFailed
        BY <1>3
    <1>5. Upgrades' = Upgrades
        <2>1. Ids(report'.entries) = Ids(report.entries) \cup {c}
            <3>1. entry.candidate = c
                OBVIOUS
            <3> HIDE DEF entry
            <3> QED
                BY <1>4, <3>1 DEF Ids
        <2> QED
            BY <1>3, <2>1 DEF Upgrades, Ids
    <1>6. ScanOK'
        BY <1>1, <1>3, <1>4, <1>5 DEF ScanOK, Proposed, SkippedFindings
    <1>7. \A e \in report'.entries :
              /\ e.tier \in {"AUTO_MERGE", "REVIEW_REQUIRED", "DECLINE"}
              /\ e.tier = "AUTO_MERGE" => e.candidate.kind # "major" /\ tree'.tested
              /\ e.tier # "DECLINE" => wasOff
        BY <1>1, <1>2, <1>3, <1>4 DEF VerdictsOK
    <1> QED
        BY <1>1, <1>3, <1>4, <1>6, <1>7, AnalysisStep DEF ScanSteps

LEMMA AnalysisKeeps ==
    ASSUME IInv, Analysis
    PROVE  IInv'
    BY FetchKeeps, QueryKeeps, DiscoverKeeps, JudgeKeeps DEF Analysis, ScanMoves

-----------------------------------------------------------------------------
(* The world, the user and the action *)

\* A step that leaves the analysis where it was.
LEMMA ScanRests ==
    ASSUME IInv, UNCHANGED scan
    PROVE  /\ ScanOK' /\ Upgrades' = Upgrades /\ Reported' = Reported
           /\ UNCHANGED <<step, tree, pending, report>>
    <1>1. UNCHANGED <<step, tree, pending, report>>
        BY DEF scan
    <1>2. Upgrades' = Upgrades /\ Proposed' = Proposed /\ SkippedFindings' = SkippedFindings
        BY <1>1 DEF Upgrades, Ids, Proposed, SkippedFindings
    <1> QED
        BY <1>1, <1>2 DEF IInv, ScanOK, Reported

LEMMA WorldKeeps ==
    ASSUME IInv, World
    PROVE  IInv'
    <1>1. /\ phase # "done" /\ UNCHANGED scan
          /\ wasOff' = (wasOff \/ ~killed')
          /\ UNCHANGED <<phase, cached, selected, ticked, prs, rows, allowDecline>>
          /\ prs = {} /\ rows = {}
        <2>1. /\ phase # "done" /\ UNCHANGED scan
              /\ wasOff' = (wasOff \/ ~killed')
              /\ UNCHANGED <<phase, cached, selected, ticked, prs, rows, allowDecline>>
            BY DEF World, WorldMoves, Push, Publish, RegistryMoves, SwitchKill, choice
        <2> QED
            BY <2>1 DEF IInv, PhaseOK
    <1>2. /\ ScanOK' /\ Reported' = Reported
          /\ UNCHANGED <<step, tree, pending, report>>
        BY <1>1, ScanRests
    <1>3. moves' \in 0..MaxMoves
        BY MovesAssumption DEF IInv, TypeOK, AssessmentTypeOK, World, WorldMoves
    <1>4. /\ repo'.lock \in Lockfiles /\ repo'.tests \in TestFiles
          /\ osv' \subseteq Advisories
          /\ npm' \in [Packages -> Packuments] /\ killed' \in BOOLEAN
        <2>1. /\ repo.lock \in Lockfiles /\ repo.tests \in TestFiles
              /\ osv \subseteq Advisories
              /\ npm \in [Packages -> Packuments] /\ killed \in BOOLEAN
            BY DEF IInv, TypeOK, AssessmentTypeOK
        <2>2. CASE Push
            BY <2>1, <2>2 DEF Push
        <2>3. CASE \E a \in Advisories : Publish(a)
            BY <2>1, <2>3 DEF Publish
        <2>4. CASE \E p \in Packages : RegistryMoves(p)
            <3>1. PICK p \in Packages, m \in Packuments : npm' = [npm EXCEPT ![p] = m]
                BY <2>4 DEF RegistryMoves
            <3> QED
                BY <2>1, <2>4, <3>1 DEF RegistryMoves
        <2>5. CASE SwitchKill
            BY <2>1, <2>5 DEF SwitchKill
        <2> QED
            BY <2>2, <2>3, <2>4, <2>5 DEF World, WorldMoves
    <1>5. TypeOK'
        <2>1. AssessmentTypeOK'
            BY <1>2, <1>3, <1>4 DEF IInv, TypeOK, AssessmentTypeOK
        <2> QED
            BY <1>1, <1>2, <1>4, <2>1 DEF IInv, TypeOK, Ids
    <1>6. VerdictsOK'
        BY <1>1, <1>2, <1>4 DEF IInv, VerdictsOK, TypeOK
    <1>7. PhaseOK'
        BY <1>1, <1>2 DEF IInv, PhaseOK
    <1>8. ChoiceOK' /\ MergedAsShown' /\ EngineMergeIsEarned'
        BY <1>1 DEF IInv, ChoiceOK, Ids, MergedAsShown, EngineMergeIsEarned
    <1> QED
        BY <1>2, <1>5, <1>6, <1>7, <1>8 DEF IInv

LEMMA StartKeeps ==
    ASSUME IInv, StartScan, phase \in {"start", "selected"},
           phase' \in {"assessing", "acting"}, cached' = cached, ChoiceOK',
           phase' = "assessing" => selected' = {} /\ ticked' = {},
           selected' # NoIds => \A c \in selected' : c.findings # {},
           ticked' # NoIds => \A c \in ticked' : c.findings # {}
    PROVE  IInv'
    <1>1. /\ step' = "fetching" /\ wasOff' = ~killed
          /\ UNCHANGED <<repo, osv, npm, killed, moves, allowDecline, tree, pending, report, prs, rows>>
        BY DEF StartScan, world
    <1>2. prs = {} /\ rows = {} /\ pending = {} /\ ScanOK /\ killed \in BOOLEAN
        <2>1. pending = {}
            BY DEF IInv, PhaseOK, ScanOK, Reported
        <2> QED
            BY <2>1 DEF IInv, PhaseOK, TypeOK, AssessmentTypeOK
    <1>3. ScanOK'
        BY <1>1, <1>2 DEF ScanOK, Upgrades, Ids, Proposed
    <1>4. TypeOK'
        <2>1. AssessmentTypeOK'
            BY <1>1 DEF IInv, TypeOK, AssessmentTypeOK, ScanSteps
        <2> QED
            BY <1>1, <1>2, <2>1 DEF IInv, TypeOK, Phases
    <1>5. VerdictsOK' /\ PhaseOK'
        BY <1>1, <1>2 DEF VerdictsOK, PhaseOK
    <1>6. MergedAsShown' /\ EngineMergeIsEarned'
        BY <1>1, <1>2 DEF MergedAsShown, EngineMergeIsEarned
    <1> QED
        BY <1>3, <1>4, <1>5, <1>6 DEF IInv

\* The assessment, the authorized action, and the two in one request.
LEMMA ScansStart ==
    ASSUME IInv, Assess \/ AuthorizePost \/ ScanWithAction
    PROVE  IInv'
    <1>1. CASE Assess \/ AuthorizePost
        <2>1. /\ UNCHANGED <<cached, selected, ticked>> /\ StartScan
              /\ phase \in {"start", "selected"} /\ phase' \in {"assessing", "acting"}
              /\ phase' = "assessing" => phase = "start"
            BY <1>1 DEF Assess, AuthorizePost
        <2>2. ChoiceOK'
            BY <2>1 DEF IInv, ChoiceOK, Ids
        <2>3. phase' = "assessing" => selected' = {} /\ ticked' = {}
            BY <2>1 DEF IInv, PhaseOK
        <2>4. /\ selected' # NoIds => \A c \in selected' : c.findings # {}
              /\ ticked' # NoIds => \A c \in ticked' : c.findings # {}
            BY <2>1 DEF IInv, TypeOK
        <2> QED
            BY <2>1, <2>2, <2>3, <2>4, StartKeeps
    <1>2. CASE ScanWithAction
        <2> DEFINE ids == Consolidate(Discovered(FindingsIn(repo.lock, osv)))
        <2>1. /\ phase = "start" /\ phase' = "acting" /\ StartScan /\ cached' = cached
              /\ selected' \in {NoIds} \cup SUBSET ids /\ ticked' \in {NoIds} \cup SUBSET ids
            BY <1>2 DEF ScanWithAction
        <2>2. \A c \in ids : c.findings # {}
            BY FindingsAreFinite, UpgradesAre
        <2>3. cached' = {}
            BY <2>1 DEF IInv, PhaseOK
        <2>4. ChoiceOK'
            BY <2>3 DEF ChoiceOK
        <2> HIDE DEF ids
        <2> QED
            BY <2>1, <2>2, <2>4, StartKeeps
    <1> QED
        BY <1>1, <1>2

\* A step of the user while the report stands.
LEMMA PlanKeeps ==
    ASSUME IInv, Reported, phase \in {"assessing", "plan", "selected"},
           UNCHANGED <<world, allowDecline, scan, prs, rows, wasOff>>,
           phase' \in {"plan", "selected"}, ChoiceOK',
           phase' = "plan" => selected' = {} /\ ticked' = {},
           selected' # NoIds => \A c \in selected' : c.findings # {},
           ticked' # NoIds => \A c \in ticked' : c.findings # {}
    PROVE  IInv'
    <1>1. /\ ScanOK' /\ Reported' = Reported
          /\ UNCHANGED <<step, tree, pending, report>>
        BY ScanRests
    <1>2. UNCHANGED <<repo, osv, npm, killed, moves>> /\ prs = {} /\ rows = {}
        BY DEF world, IInv, PhaseOK
    <1>3. TypeOK'
        <2>1. AssessmentTypeOK'
            BY <1>1, <1>2 DEF IInv, TypeOK, AssessmentTypeOK
        <2> QED
            BY <1>1, <1>2, <2>1 DEF IInv, TypeOK, Phases
    <1>4. VerdictsOK'
        BY <1>1, <1>2 DEF IInv, VerdictsOK
    <1>5. PhaseOK'
        BY <1>1, <1>2 DEF IInv, PhaseOK
    <1>6. MergedAsShown' /\ EngineMergeIsEarned'
        BY <1>2 DEF MergedAsShown, EngineMergeIsEarned
    <1> QED
        BY <1>1, <1>3, <1>4, <1>5, <1>6 DEF IInv

LEMMA ShowPlanKeeps ==
    ASSUME IInv, ShowPlan
    PROVE  IInv'
    <1>1. /\ phase = "assessing" /\ Reported /\ phase' = "plan" /\ cached' = report.entries
          /\ UNCHANGED <<world, allowDecline, scan, selected, ticked, prs, rows, wasOff>>
        BY DEF ShowPlan
    <1>2. selected = {} /\ ticked = {}
        BY <1>1 DEF IInv, PhaseOK
    <1>3. \A e \in report.entries : e.candidate \in Candidates /\ e.candidate.findings # {}
        <2>1. \A c \in Upgrades : c \in Candidates /\ c.findings # {}
            BY UpgradesTyped DEF IInv, ScanOK
        <2> QED
            BY <2>1 DEF Upgrades, Ids
    <1>4. ChoiceOK'
        BY <1>1, <1>2, <1>3, NoIdsAssumption DEF ChoiceOK
    <1> QED
        BY <1>1, <1>2, <1>4, PlanKeeps

LEMMA SelectPostKeeps ==
    ASSUME IInv, SelectPost
    PROVE  IInv'
    <1>1. PICK ids \in SUBSET Ids(cached) : ids # {} /\ selected' = ids /\ ticked' \in SUBSET ids
        BY DEF SelectPost, ValidIn
    <1>2. /\ phase \in {"plan", "selected"} /\ phase' = "selected"
          /\ UNCHANGED <<world, allowDecline, scan, cached, prs, rows, wasOff>>
        BY DEF SelectPost
    <1>3. Reported
        BY <1>2 DEF IInv, PhaseOK
    <1>4. \A c \in Ids(cached) : c \in Candidates /\ c.findings # {}
        BY DEF IInv, ChoiceOK, Ids
    <1>5. ids # NoIds /\ ticked' # NoIds
        BY <1>1, <1>4, NoIdsAssumption
    <1>6. ChoiceOK'
        BY <1>1, <1>2, <1>5 DEF IInv, ChoiceOK, Ids
    <1> QED
        BY <1>1, <1>2, <1>3, <1>4, <1>6, PlanKeeps

\* The flow ends.
LEMMA EndKeeps ==
    ASSUME IInv, phase \in {"assessing", "acting"}, Reported \/ step = "failed",
           phase' = "done",
           UNCHANGED <<world, allowDecline, scan, cached, selected, ticked, wasOff>>,
           prs' \subseteq Ids(report.entries),
           \A r \in rows' : r.candidate \in prs' /\ r.authorization \in Authorizations,
           MergedAsShown', EngineMergeIsEarned'
    PROVE  IInv'
    <1>1. /\ ScanOK' /\ Reported' = Reported
          /\ UNCHANGED <<step, tree, pending, report>>
          /\ UNCHANGED <<repo, osv, npm, killed, moves>>
        BY ScanRests DEF world
    <1>2. TypeOK'
        <2>1. AssessmentTypeOK'
            BY <1>1 DEF IInv, TypeOK, AssessmentTypeOK
        <2> QED
            BY <1>1, <2>1 DEF IInv, TypeOK, Phases
    <1>3. VerdictsOK'
        BY <1>1 DEF IInv, VerdictsOK
    <1>4. PhaseOK'
        BY <1>1 DEF IInv, PhaseOK
    <1>5. ChoiceOK'
        BY DEF IInv, ChoiceOK, Ids
    <1> QED
        BY <1>1, <1>2, <1>3, <1>4, <1>5 DEF IInv

LEMMA FailuresKeep ==
    ASSUME IInv, RejectSelection \/ ScanFailed
    PROVE  IInv'
    <1>1. /\ phase \in {"assessing", "acting"} /\ (Reported \/ step = "failed")
          /\ phase' = "done"
          /\ UNCHANGED <<world, allowDecline, scan, cached, selected, ticked, wasOff, prs, rows>>
        BY DEF RejectSelection, ScanFailed
    <1>2. prs' = {} /\ rows' = {}
        BY <1>1 DEF IInv, PhaseOK
    <1>3. MergedAsShown' /\ EngineMergeIsEarned'
        BY <1>2 DEF MergedAsShown, EngineMergeIsEarned
    <1> QED
        BY <1>1, <1>2, <1>3, EndKeeps

\* What the action opens and hands to the merge task.
LEMMA ActKeeps ==
    ASSUME IInv, Act
    PROVE  IInv'
    <1>1. PICK opened \in SUBSET Ids(ActionEntries) : prs' = opened /\ rows' = RowsFor(opened)
        BY DEF Act
    <1>2. /\ phase = "acting" /\ Reported /\ phase' = "done" /\ step = "judging"
          /\ selected # NoIds => ValidIn(report.entries, selected)
          /\ UNCHANGED <<world, allowDecline, scan, cached, selected, ticked, wasOff>>
        BY DEF Act, Reported
    <1>3. UNCHANGED <<tree, report>>
        BY <1>2 DEF scan
    <1>4. \A e \in ActionEntries : e \in report.entries
        BY DEF ActionEntries
    <1>5. \A r \in rows' : \E e \in report.entries :
            /\ r.candidate = e.candidate /\ r.candidate \in opened
            /\ \/ r.authorization = "none"
               \/ /\ r.authorization = AuthorizationFor(e.tier)
                  /\ r.candidate \in EffectiveMergeIds(opened)
        BY <1>1, <1>4 DEF RowsFor
    <1>6. \A r \in rows' : r.candidate \in prs' /\ r.authorization \in Authorizations
        BY <1>1, <1>5 DEF AuthorizationFor, Authorizations
    <1>7. prs' \subseteq Ids(report.entries)
        BY <1>1, <1>4 DEF Ids
    <1>8. \A c \in EffectiveMergeIds(opened) :
            /\ ticked # NoIds => c \in ticked
            /\ \E e \in report.entries : e.tier # "DECLINE"
        BY <1>4 DEF EffectiveMergeIds
    <1>9. MergedAsShown'
        <2>1. cached # {} => ticked # NoIds /\ ticked \subseteq Ids(cached)
            BY DEF IInv, ChoiceOK
        <2> QED
            BY <1>2, <1>5, <1>8, <2>1 DEF MergedAsShown, Ids
    <1>10. EngineMergeIsEarned'
        <2>1. \A e \in report.entries :
                /\ e.tier = "AUTO_MERGE" => e.candidate.kind # "major" /\ tree.tested
                /\ e.tier # "DECLINE" => wasOff
            BY <1>2 DEF IInv, VerdictsOK
        <2>2. ASSUME NEW r \in rows', r.authorization = "engine"
              PROVE  r.candidate.kind # "major" /\ tree.tested /\ wasOff
            BY <1>5, <2>1, <2>2 DEF AuthorizationFor
        <2>3. ASSUME ~wasOff, NEW r \in rows'
              PROVE  r.authorization = "none"
            BY <1>5, <1>8, <2>1, <2>3
        <2>4. ASSUME ~wasOff, ~allowDecline
              PROVE  prs' = {}
            <3>1. \A e \in report.entries : e.tier = "DECLINE"
                BY <2>1, <2>4
            <3>2. selected = NoIds
                BY <1>2, <2>4, <3>1 DEF ValidIn, DeclineAllowed
            <3>3. ActionEntries = {}
                BY <3>1, <3>2 DEF ActionEntries
            <3> QED
                BY <1>1, <3>3 DEF Ids
        <2> QED
            BY <1>2, <1>3, <2>2, <2>3, <2>4 DEF EngineMergeIsEarned
    <1> QED
        BY <1>2, <1>6, <1>7, <1>9, <1>10, EndKeeps

-----------------------------------------------------------------------------
(* The theorems *)

LEMMA InitHolds ==
    ASSUME Init
    PROVE  IInv
    <1>1. /\ phase = "start" /\ step = "idle" /\ cached = {} /\ selected = {} /\ ticked = {}
          /\ prs = {} /\ rows = {} /\ wasOff = FALSE /\ allowDecline \in BOOLEAN
          /\ pending = {} /\ report = EmptyReport /\ moves = 0
          /\ tree.lock = repo.lock /\ tree.tested = FALSE
        BY OverrideAssumption DEF Init, AssessmentInit
    <1>2. /\ repo.lock \in Lockfiles /\ repo.tests \in TestFiles
          /\ osv \subseteq Advisories
          /\ npm \in [Packages -> Packuments] /\ killed \in BOOLEAN
        BY FirstWorldsAssumption DEF Init, AssessmentInit
    <1>3. /\ report.findings = {} /\ report.entries = {} /\ report.skipped = {}
          /\ report.lensFailed = FALSE
        BY <1>1 DEF EmptyReport
    <1>4. TypeOK
        <2>1. pending \cup {e.candidate : e \in report.entries} = {}
            BY <1>1, <1>3
        <2>2. 0 \in 0..MaxMoves
            BY MovesAssumption
        <2>3. AssessmentTypeOK
            BY <1>1, <1>2, <1>3, <2>1, <2>2 DEF AssessmentTypeOK, ScanSteps
        <2> QED
            BY <1>1, <2>3 DEF TypeOK, Phases
    <1>5. ScanOK
        <2>1. Upgrades = {}
            BY <1>1, <1>3 DEF Upgrades, Ids
        <2> QED
            BY <1>1, <1>3, <2>1, FS_EmptySet DEF ScanOK, EmptyReport
    <1>6. VerdictsOK /\ PhaseOK /\ ChoiceOK /\ MergedAsShown /\ EngineMergeIsEarned
        BY <1>1, <1>3 DEF VerdictsOK, PhaseOK, ChoiceOK, MergedAsShown, EngineMergeIsEarned
    <1> QED
        BY <1>4, <1>5, <1>6 DEF IInv

LEMMA StutterKeeps ==
    ASSUME IInv, UNCHANGED vars
    PROVE  IInv'
    <1>1. /\ UNCHANGED <<repo, osv, npm, killed, moves, phase, cached, selected, ticked, prs, rows,
                         allowDecline, wasOff>>
          /\ UNCHANGED scan
        BY DEF vars, world, choice
    <1>2. /\ ScanOK' /\ Reported' = Reported
          /\ UNCHANGED <<step, tree, pending, report>>
        BY <1>1, ScanRests
    <1>3. AssessmentTypeOK'
        BY <1>1, <1>2 DEF IInv, TypeOK, AssessmentTypeOK
    <1>4. TypeOK'
        BY <1>1, <1>2, <1>3 DEF IInv, TypeOK, Ids
    <1>5. VerdictsOK' /\ PhaseOK' /\ ChoiceOK'
        BY <1>1, <1>2 DEF IInv, VerdictsOK, PhaseOK, ChoiceOK, Ids
    <1>6. MergedAsShown' /\ EngineMergeIsEarned'
        BY <1>1, <1>2 DEF IInv, MergedAsShown, EngineMergeIsEarned, Ids
    <1> QED
        BY <1>2, <1>4, <1>5, <1>6 DEF IInv

\* The inductive invariant holds of every step of the world, of the analysis,
\* of the user and of the action.
THEOREM Invariance == Spec => []IInv
    <1>1. Init => IInv
        BY InitHolds
    <1>2. IInv /\ [Next]_vars => IInv'
        BY AnalysisKeeps, WorldKeeps, ScansStart, ShowPlanKeeps, SelectPostKeeps, FailuresKeep,
           ActKeeps, StutterKeeps DEF Next
    <1> QED
        BY <1>1, <1>2, PTL DEF Spec

\* The state of an analysis, of the user's choices and of the rows keeps its type.
THEOREM TypeCorrect == Spec => []TypeOK
    BY Invariance, PTL DEF IInv

LEMMA AccountHolds ==
    ASSUME ScanOK
    PROVE  EveryFindingAccounted
    <1> SUFFICES ASSUME step = "judging", NEW f \in report.findings
                 PROVE  Cardinality({c \in Upgrades : f \in c.findings})
                            + Cardinality({s \in report.skipped : s.finding = f}) = 1
        BY DEF EveryFindingAccounted
    <1> DEFINE fixes == {c \in Upgrades : f \in c.findings}
               skips == {s \in report.skipped : s.finding = f}
    <1>1. /\ report.findings \in SUBSET Finding /\ IsFiniteSet(report.findings)
          /\ Upgrades = Proposed /\ report.skipped = SkippedFindings
        BY DEF ScanOK
    <1>2. \A c \in Upgrades :
            /\ c.findings = {g \in Fixable(report.findings) : g.package = c.package /\ g.version = c.from}
            /\ \A d \in Upgrades : d.package = c.package /\ d.from = c.from => d = c
        BY <1>1, UpgradesAre DEF Proposed
    <1>3. CASE Target(f) = NoVersion
        <2>1. fixes = {}
            BY <1>2, <1>3 DEF Fixable
        <2>2. skips = {[finding |-> f, reason |-> SkipReason(f)]}
            BY <1>1, <1>3 DEF SkippedFindings
        <2>3. Cardinality(fixes) = 0
            BY <2>1, FS_EmptySet
        <2>4. Cardinality(skips) = 1
            BY <2>2, FS_Singleton
        <2> QED
            BY <2>3, <2>4
    <1>4. CASE Target(f) # NoVersion
        <2>1. PICK c \in Upgrades : f \in c.findings
            BY <1>1, <1>4, EveryFixIsProposed DEF Fixable, Proposed
        <2>2. \A d \in fixes : d = c
            BY <1>2, <2>1
        <2>3. fixes = {c}
            BY <2>1, <2>2
        <2>4. skips = {}
            BY <1>1, <1>4 DEF SkippedFindings
        <2>5. Cardinality(skips) = 0
            BY <2>4, FS_EmptySet
        <2>6. Cardinality(fixes) = 1
            BY <2>3, FS_Singleton
        <2> QED
            BY <2>5, <2>6
    <1> QED
        BY <1>3, <1>4

\* No finding is lost between discovery and consolidation, none is fixed twice
\* and none both fixed and skipped, however many findings share a package.
THEOREM EveryFindingIsAccounted == Spec => []EveryFindingAccounted
    <1>1. IInv => EveryFindingAccounted
        BY AccountHolds DEF IInv
    <1> QED
        BY <1>1, Invariance, PTL

\* Two upgrades of one package at one version are one: every group of findings
\* has a greatest target, and that target satisfies the whole group.
THEOREM OneUpgrade == Spec => []OneUpgradePerVersion
    <1>1. IInv => OneUpgradePerVersion
        BY UpgradesAre DEF IInv, ScanOK, Proposed, OneUpgradePerVersion
    <1> QED
        BY <1>1, Invariance, PTL

\* The target of an upgrade is above the installed version and not below the
\* first fix of any finding it closes.
THEOREM TargetsMeetEveryFix == Spec => []TargetMeetsEveryFix
    <1>1. IInv => TargetMeetsEveryFix
        BY UpgradesAre DEF IInv, ScanOK, Proposed, TargetMeetsEveryFix
    <1> QED
        BY <1>1, Invariance, PTL

\* What a wizard's action hands to the merge task was on the page and ticked,
\* whatever was pushed and published between the two analyses.
THEOREM MergesWereShown == Spec => []MergedAsShown
    BY Invariance, PTL DEF IInv

\* No merge on the engine's word of a major upgrade, without tests in CI or
\* under the kill switch, and none at all while the switch stays on.
THEOREM EngineMergesAreEarned == Spec => []EngineMergeIsEarned
    BY Invariance, PTL DEF IInv

=============================================================================
