------------------------------ MODULE FixEngine -------------------------------
(***************************************************************************)
(* The pure part of the analysis (arguss/engine): versions, the fix of one *)
(* finding, the merging of the fixes of one package, and the verdict.      *)
(* EPSS, KEV, CVSS, the score and every text are left out: no decision     *)
(* below reads them.                                                       *)
(***************************************************************************)
EXTENDS AssessmentParameters

Parses(v) == v.core # <<>>

CoreLess(a, b) ==
    \E i \in 1..3 : a[i] < b[i] /\ \A j \in 1..(i - 1) : a[j] = b[j]

\* compare_versions(l, r) = -1.  A prerelease has the triplet of its release.
Below(l, r) == Parses(l) /\ Parses(r) /\ CoreLess(l.core, r.core)

\* l > r as _max_target and _max_target_satisfies_all decide it: by text when
\* compare_versions cannot tell.
Higher(l, r) ==
    IF Parses(l) /\ Parses(r) THEN CoreLess(r.core, l.core) ELSE l.text > r.text

\* Variant: any fixed version will do.
PickLowest(from, fixed) ==
    LET parsed == {v \in fixed : Parses(v)}
    IN  IF parsed = {} THEN NoVersion
        ELSE CHOOSE v \in parsed : \A w \in parsed :
                 Below(v, w) \/ (~Below(w, v) /\ v.text <= w.text)

\* fixed_versions is sorted as text, so the first spelling wins a tie.
PickLowestGt(from, fixed) ==
    LET eligible == {v \in fixed : Below(from, v)}
    IN  IF eligible = {} THEN NoVersion
        ELSE CHOOSE v \in eligible : \A w \in eligible :
                 Below(v, w) \/ (~Below(w, v) /\ v.text <= w.text)

ClassifyFixKind(from, to) ==
    IF ~Parses(from) \/ ~Parses(to) \/ from.core[1] # to.core[1] THEN "major"
    ELSE IF from.core[2] # to.core[2] THEN "minor" ELSE "patch"

-----------------------------------------------------------------------------

\* derive_finding_id hashes exactly these fields, so the record is the id.
Finding == [install : Installs, package : Packages, version : Versions, adv : Advisories]

FindingsIn(lock, published) ==
    {f \in Finding :
        /\ lock[f.install] = [package |-> f.package, version |-> f.version]
        /\ f.adv \in published
        /\ About[f.adv] = f.package
        /\ f.version \in Affected[f.adv]}

\* discover_fix_candidates.  The vulnerability lens sets every advisory_id.
Target(f) == PickLowestGt(f.version, Fixed[f.adv])

SkipReason(f) ==
    IF Fixed[f.adv] = {} THEN "no_fix_version_in_osv" ELSE "no_fix_version_gt_current"

\* _derive_candidate_id hashes these fields, so the record is the id.
Candidate(package, from, to, findings) ==
    [package |-> package, from |-> from, to |-> to,
     kind |-> ClassifyFixKind(from, to), findings |-> findings]

Discovered(findings) ==
    {Candidate(f.package, f.version, Target(f), {f}) :
        f \in {g \in findings : Target(g) # NoVersion}}

\* The order of the findings of one package and version in the report.
Precedes(f, g) == f.install < g.install \/ (f.install = g.install /\ f.adv < g.adv)

\* Variant: the target every fix reaches is taken for the lowest one.
MinTarget(group) == (CHOOSE c \in group : \A d \in group : ~Higher(c.to, d.to)).to

\* _max_target: of equal targets the one met first.
MaxTarget(group) ==
    (CHOOSE c \in group : \A d \in group \ {c} :
        \/ Higher(c.to, d.to)
        \/ /\ ~Higher(d.to, c.to)
           /\ \E f \in c.findings, g \in d.findings : Precedes(f, g)).to

\* _max_target_satisfies_all
SatisfiesAll(findings, target) ==
    \A f \in findings : Target(f) # NoVersion /\ ~Higher(Target(f), target)

\* Variant: the merged candidate keeps the findings of the one it is based on.
ConsolidateOnBase(group) ==
    {CHOOSE c \in group : c.to = MaxTarget(group)}

ConsolidateGroup(group) ==
    LET findings == UNION {c.findings : c \in group}
        target == MaxTarget(group)
        one == CHOOSE c \in group : TRUE
    IN  IF Cardinality(group) = 1 \/ ~SatisfiesAll(findings, target) THEN group
        ELSE {Candidate(one.package, one.from, target, findings)}

\* consolidate_candidates: one group per package and installed version.
Consolidate(raw) ==
    UNION {ConsolidateGroup({d \in raw : d.package = c.package /\ d.from = c.from}) : c \in raw}

\* The order in which the report lists the upgrades.
ComesBefore(c, d) ==
    c.package < d.package \/ (c.package = d.package /\ c.from.text < d.from.text)

-----------------------------------------------------------------------------

\* fetch_delta.  Both snapshots carry the same weekly download count, that of
\* the package, so the flag for a collapse is left out.
TrustFlags(before, after) ==
    {flag \in {"ownership_transferred", "new_maintainer", "cadence_anomaly"} :
        CASE flag = "ownership_transferred" ->
                /\ before.maintainers # {}
                /\ 2 * Cardinality(before.maintainers \cap after.maintainers)
                        < Cardinality(before.maintainers)
          [] flag = "new_maintainer" -> after.maintainers \ before.maintainers # {}
          [] flag = "cadence_anomaly" -> after.rushed}

\* Variant: the reality of the tests is not asked for.
VetoesWithoutTests(c, packument, tested) ==
    IF c.kind = "major" THEN {"fix_kind.major"} ELSE {}

\* _collect_review_vetoes on what _fetch_trust_delta_or_none returns and on
\* test_reality.safe_to_auto_merge.
Vetoes(c, packument, tested) ==
    UNION {
        IF c.kind = "major" THEN {"fix_kind.major"} ELSE {},
        IF packument = Unavailable THEN {"trust.unavailable"}
        ELSE IF ~({c.from, c.to} \subseteq DOMAIN packument) THEN {"trust.unavailable"}
        ELSE TrustFlags(packument[c.from], packument[c.to]),
        IF tested THEN {} ELSE {"pipeline.test_reality"}}

\* compute_fix_confidence
Verdict(c, packument, tested, switchedOff) ==
    IF switchedOff THEN [tier |-> "DECLINE", vetoes |-> {"kill_switch"}]
    ELSE LET vetoes == Vetoes(c, packument, tested)
         IN  [tier |-> IF vetoes = {} THEN "AUTO_MERGE" ELSE "REVIEW_REQUIRED",
              vetoes |-> vetoes]
==============================================================================
