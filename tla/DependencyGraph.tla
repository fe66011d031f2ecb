--------------------------- MODULE DependencyGraph ----------------------------
(***************************************************************************)
(* The graphs of the results page (arguss/web/graph_data.py), whose nodes  *)
(* are names: the rows of one name are merged.                             *)
(***************************************************************************)
EXTENDS LockfileTree

Names(deps) == {deps[i].package : i \in DOMAIN deps}

RowsNamed(deps, n) == {i \in DOMAIN deps : deps[i].package = n}

\* Rows come sorted by name and version, and the first one gives the version.
IndexVersion(deps, n) ==
    LET versions == {deps[i].version : i \in RowsNamed(deps, n)}
    IN  CHOOSE v \in versions : \A w \in versions : v.text <= w.text

IndexDirect(deps, n) == \E i \in RowsNamed(deps, n) : deps[i].direct

IndexParents(deps, n) == UNION {deps[i].parents : i \in RowsNamed(deps, n)}

AllEdges(deps) == UNION {IndexParents(deps, n) \X {n} : n \in Names(deps)}

GraphNodes(deps) == {Root} \cup Names(deps) \cup {e[1] : e \in AllEdges(deps)}

\* _collect_nodes_and_edges: everything the target can be reached from.
Walk(deps, target) ==
    LET up[d \in 0..(Cardinality(Packages) + 1)] ==
            IF d = 0 THEN {target}
            ELSE up[d - 1] \cup UNION {IndexParents(deps, n) : n \in up[d - 1] \ {Root}}
    IN  up[Cardinality(Packages) + 1]

WalkEdges(deps, target) ==
    UNION {IndexParents(deps, n) \X {n} : n \in Walk(deps, target) \cap Names(deps)}

HasRow(deps, target, version) == \E i \in RowsNamed(deps, target) : deps[i].version = version

\* explain_subgraph_miss; "none" where build_subgraph_elements has elements.
SubgraphMiss(deps, target, version) ==
    IF DOMAIN deps = {} THEN "no graph"
    ELSE IF target \notin Names(deps) THEN "package_not_in_deps_index"
    ELSE IF ~HasRow(deps, target, version) THEN "target_version_mismatch"
    ELSE "none"

Subgraph(deps, target, version) ==
    IF SubgraphMiss(deps, target, version) # "none" THEN [nodes |-> {}, edges |-> {}]
    ELSE [nodes |-> Walk(deps, target), edges |-> WalkEdges(deps, target)]

\* Variant: a displayed route counts the project too.
DepthWithRoot(deps, n) ==
    IF n \notin Names(deps) THEN 0
    ELSE Min({Len(deps[i].path) : i \in RowsNamed(deps, n)})

\* _depth_by_package: the shortest displayed route, then a search by layers
\* that goes on only through the nodes it improves.
Depth(deps, n) ==
    LET routed == [m \in Names(deps) |->
                      Min({Len(deps[i].path) - 1 : i \in RowsNamed(deps, m)})]
        layer[d \in 0..Cardinality(Packages)] ==
            IF d = 0 THEN {Root}
            ELSE {m \in Names(deps) :
                    d < routed[m] /\ \E p \in layer[d - 1] : <<p, m>> \in AllEdges(deps)}
    IN  IF n \notin Names(deps) THEN 0
        ELSE Min({routed[n]} \cup {d \in DOMAIN layer : n \in layer[d]})

\* finding_dicts_from_cached lists the main finding of an entry once more
\* after its related ones.  Findings without a fix are not in it.
VulnCount(deps, entries, n) ==
    FoldSet(LAMBDA e, sum :
                IF e.candidate.package = n /\ e.candidate.from = IndexVersion(deps, n)
                THEN sum + Cardinality(e.candidate.findings) + 1 ELSE sum,
            0, entries)

FullGraph(deps, entries) ==
    IF DOMAIN deps = {} THEN {}
    ELSE {[id |-> n,
           class |-> IF n = Root THEN "root"
                     ELSE IF n \in Names(deps) /\ IndexDirect(deps, n) THEN "direct"
                     ELSE "transitive",
           vulns |-> IF n \in Names(deps) THEN VulnCount(deps, entries, n) ELSE 0,
           depth |-> Depth(deps, n)] : n \in GraphNodes(deps)}
==============================================================================
