----------------------------- MODULE ResultsPage ------------------------------
(***************************************************************************)
(* build_results_context (arguss/web/results_context.py): the page of one  *)
(* cached report [report, deps, counts, mode].  It works the packages, the *)
(* tiers and the findings without a fix out of the report a second time,   *)
(* beside the counts the report carries.  Scores, texts and the order of   *)
(* rows are left out.                                                      *)
(***************************************************************************)
EXTENDS ScanCounts, DependencyGraph

\* related[0]: a CVSS score, the advisory and the id decide; the smallest
\* advisory and install stand for them.
PrimaryFinding(e) ==
    CHOOSE f \in e.candidate.findings : \A g \in e.candidate.findings :
        f.adv < g.adv \/ (f.adv = g.adv /\ f.install <= g.install)

\* Variant: a view does not say how many installs it stands for.
ViewsUncounted(findings) == {[adv |-> a, installs |-> 1] : a \in {f.adv : f \in findings}}

\* _findings_for_entry and _findings_for_package: one view per advisory, with
\* the number of installs it stands for.
Views(findings) ==
    {[adv |-> a, installs |-> Cardinality({f \in findings : f.adv = a})] :
        a \in {f.adv : f \in findings}}

Card(e, counts) ==
    [candidate |-> e.candidate, checked |-> e.tier = "AUTO_MERGE",
     views |-> Views(e.candidate.findings), explains |-> PrimaryFinding(e),
     count |-> counts.related[e.candidate]]

CandidatesByTier(cached) ==
    [t \in Tiers |-> {Card(e, cached.counts) : e \in {d \in cached.report.entries : d.tier = t}}]

\* lookup_cached_entry_by_finding_id, for the explanation of a card.
EntryExplained(entries, finding) == {e \in entries : PrimaryFinding(e) = finding}

-----------------------------------------------------------------------------

\* _TIER_SEVERITY_ORDER: here the heaviest tier of a node wins.
PageNodeTiers(entries) == NodeTiersBy(entries, <<"DECLINE", "REVIEW_REQUIRED", "AUTO_MERGE">>)

AllNoFixKeys(report) == {NodeOf(f) : f \in report.skipped}

ExclusiveNoFixKeys(report) == AllNoFixKeys(report) \ DOMAIN PageNodeTiers(report.entries)

Buckets(report) ==
    LET tiers == PageNodeTiers(report.entries)
    IN  [t \in Tiers |->
            {n \in DOMAIN tiers \ ExclusiveNoFixKeys(report) : tiers[n] = t}]

WithFindings(report) == {EntryNode(e) : e \in report.entries} \cup AllNoFixKeys(report)

\* Variant: a package that only has findings without a fix counts as clean.
CleanIgnoringNoFix(report, deps) == NodesOf(deps) \ {EntryNode(e) : e \in report.entries}

CleanNodes(report, deps) == NodesOf(deps) \ WithFindings(report)

\* What the summary shows: its own list of clean packages, and the numbers of
\* the counts in place of its own.
PackageStatus(cached) ==
    [clean |-> CleanNodes(cached.report, cached.deps), total |-> cached.counts.nodes,
     status |-> cached.counts.status, noFix |-> cached.counts.onlyNoFix,
     mixed |-> cached.counts.mixed,
     ok |-> Imbalances(cached.report, cached.counts) = {}]

\* The panel of findings without a fix; there is none without such findings.
NoFixPanel(cached) ==
    IF cached.counts.noFix <= 0 THEN [primary |-> {}, trailing |-> {}, findings |-> {}]
    ELSE LET exclusive == ExclusiveNoFixKeys(cached.report)
         IN  [primary |-> AllNoFixKeys(cached.report) \cap exclusive,
              trailing |-> AllNoFixKeys(cached.report) \ exclusive,
              findings |-> cached.report.skipped]

-----------------------------------------------------------------------------

Entries(cached, name) == {e \in cached.report.entries : e.candidate.package = name}

\* One row of build_packages.  Its version, and with it the graph and the
\* findings without a fix listed in it, is that of the first entry; its total
\* is over all versions.
PackageRow(cached, name) ==
    LET entries == Entries(cached, name)
        first == CHOOSE e \in entries : \A d \in entries : e.candidate.from.text <= d.candidate.from.text
        tiers == {e.tier : e \in entries}
    IN  [package |-> name, version |-> first.candidate.from,
         total |-> cached.counts.rollups[name],
         tier |-> IF Cardinality(tiers) = 1 THEN CHOOSE t \in tiers : TRUE ELSE "mixed",
         views |-> Views(RelatedOf(entries)),
         noFix |-> {f \in cached.report.skipped : NodeOf(f) = EntryNode(first)},
         miss |-> SubgraphMiss(cached.deps, name, first.candidate.from)]

CleanRow(cached, node) ==
    [package |-> node[1], version |-> node[2], total |-> 0, tier |-> "clean",
     views |-> {}, noFix |-> {}, miss |-> SubgraphMiss(cached.deps, node[1], node[2])]

\* _require_package_finding_count raises.
LacksRollup(cached) ==
    \E e \in cached.report.entries : e.candidate.package \notin DOMAIN cached.counts.rollups

PackageRows(cached) ==
    IF cached.report.entries = {}
    THEN {CleanRow(cached, n) : n \in CleanNodes(cached.report, cached.deps)}
    ELSE {PackageRow(cached, n) : n \in {e.candidate.package : e \in cached.report.entries}}

ResultsContext(cached) ==
    [rows |-> PackageRows(cached), tiers |-> CandidatesByTier(cached),
     status |-> PackageStatus(cached), noFix |-> NoFixPanel(cached),
     lensFailed |-> cached.report.lensFailed,
     plan |-> cached.mode = "A" /\ cached.report.entries # {},
     graph |-> FullGraph(cached.deps, cached.report.entries)]
==============================================================================
