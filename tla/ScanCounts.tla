------------------------------ MODULE ScanCounts ------------------------------
(***************************************************************************)
(* build_scan_counts (arguss/engine/scan_counts.py): what a report and its *)
(* lockfile rows add up to, and the checks it makes of its own sums.  An   *)
(* entry is [candidate, tier]; severities and EPSS are left out.           *)
(***************************************************************************)
EXTENDS FixEngine, LockfileTree

Tiers == {"AUTO_MERGE", "REVIEW_REQUIRED", "DECLINE"}

\* A package at a version.
NodesOf(deps) == {<<deps[i].package, deps[i].version>> : i \in DOMAIN deps}
NodeOf(f) == <<f.package, f.version>>
EntryNode(e) == <<e.candidate.package, e.candidate.from>>

\* Of the tiers of the entries of a node, the one that comes first in order.
NodeTiersBy(entries, order) ==
    [n \in {EntryNode(e) : e \in entries} |->
        LET tiers == {e.tier : e \in {d \in entries : EntryNode(d) = n}}
        IN  order[Min({i \in 1..3 : order[i] \in tiers})]]

\* _PACKAGE_TIER_ORDER: the lightest tier wins.
NodeTiers(entries) == NodeTiersBy(entries, <<"AUTO_MERGE", "REVIEW_REQUIRED", "DECLINE">>)

NoFixNodes(report, nodes) == {NodeOf(f) : f \in report.skipped} \cap nodes

RelatedOf(entries) == UNION {e.candidate.findings : e \in entries}

\* The findings of one package name, of all its versions, with a fix or not.
Rollup(report, name) ==
    {f \in RelatedOf(report.entries) \cup report.skipped : f.package = name}

Count(report, deps) ==
    LET nodes == NodesOf(deps)
        tiers == NodeTiers(report.entries)
        affected == {NodeOf(f) : f \in report.findings} \cap nodes
        noFix == NoFixNodes(report, nodes)
        withFix == Cardinality(RelatedOf(report.entries))
    IN  [total |-> Cardinality(report.findings),
         withFix |-> withFix,
         noFix |-> Cardinality(report.findings) - withFix,
         candidates |-> [t \in Tiers |-> Cardinality({e \in report.entries : e.tier = t})],
         nodes |-> Cardinality(nodes),
         affected |-> Cardinality(affected),
         clean |-> Cardinality(nodes) - Cardinality(affected),
         status |-> [t \in Tiers |-> Cardinality({n \in DOMAIN tiers : tiers[n] = t})],
         onlyNoFix |-> Cardinality(noFix \ DOMAIN tiers),
         mixed |-> Cardinality(noFix \cap DOMAIN tiers),
         rollups |-> [n \in {f.package : f \in RelatedOf(report.entries) \cup report.skipped} |->
                         Cardinality(Rollup(report, n))],
         related |-> [c \in {e.candidate : e \in report.entries} |->
                         Cardinality(c.findings)]]

\* The messages of the balance: those that can fail at all.
Imbalances(report, counts) ==
    {m \in {"findings_no_fix_skip_count", "candidate_empty_related",
            "package_status_partition"} :
        CASE m = "findings_no_fix_skip_count" -> counts.noFix # Cardinality(report.skipped)
          [] m = "candidate_empty_related" ->
                \E e \in report.entries : e.candidate.findings = {}
          [] m = "package_status_partition" ->
                counts.status["AUTO_MERGE"] + counts.status["REVIEW_REQUIRED"]
                    + counts.status["DECLINE"] + counts.onlyNoFix + counts.clean # counts.nodes}
==============================================================================
