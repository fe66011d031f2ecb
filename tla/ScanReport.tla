------------------------------ MODULE ScanReport ------------------------------
(***************************************************************************)
(* A scan from the lockfile to the results page: parse_lockfile, the lens  *)
(* and the engine, finalize_scan_payload, and build_results_context on the *)
(* cached payload.  The verdicts are any tiers: FixSelection is about      *)
(* them.  The lockfile is parsed twice, for the engine and for the deps of *)
(* the payload, from the same file.                                        *)
(***************************************************************************)
EXTENDS ResultsPage

CONSTANT
    Worlds      \* the [tree, published, mode] a scan may meet

ASSUME WorldsAssumption ==
    \A w \in Worlds :
        w.tree \in LockfileTrees /\ w.published \subseteq Advisories /\ w.mode \in {"A", "B", "C"}

VARIABLES
    world,      \* the lockfile, what OSV has published, the mode
    step,       \* where the scan stands
    cached,     \* the payload under construction: report, deps, counts, mode
    page        \* the context of the results page

vars == <<world, step, cached, page>>

NoReport == [findings |-> {}, entries |-> {}, skipped |-> {}, lensFailed |-> FALSE]

NothingCached == [report |-> NoReport, deps |-> <<>>, counts |-> <<>>, mode |-> "A"]

Init ==
    /\ world \in Worlds
    /\ step = "start"
    /\ cached = NothingCached
    /\ page = <<>>

\* A lockfile of an unsupported version, or one that is not JSON.
ParseFails ==
    /\ step = "start"
    /\ step' = "failed"
    /\ UNCHANGED <<world, cached, page>>

Parse ==
    /\ step = "start"
    /\ step' = "parsed"
    /\ cached' = [cached EXCEPT !.deps = Parsed(world.tree)]
    /\ UNCHANGED <<world, page>>

\* propose_fixes, with any verdicts.
Analyse ==
    /\ step = "parsed"
    /\ step' = "analysed"
    /\ LET findings == FindingsIn(LockOf(cached.deps), world.published)
           upgrades == Consolidate(Discovered(findings))
       IN  \E tier \in [upgrades -> Tiers] :
              cached' = [cached EXCEPT !.report =
                  [findings |-> findings,
                   entries |-> {[candidate |-> c, tier |-> tier[c]] : c \in upgrades},
                   skipped |-> {f \in findings : Target(f) = NoVersion},
                   lensFailed |-> FALSE]]
    /\ UNCHANGED <<world, page>>

\* OsvError: a report without findings that says so.
OsvFails ==
    /\ step = "parsed"
    /\ step' = "analysed"
    /\ cached' = [cached EXCEPT !.report = [NoReport EXCEPT !.lensFailed = TRUE]]
    /\ UNCHANGED <<world, page>>

Finalize ==
    /\ step = "analysed"
    /\ step' = "cached"
    /\ cached' = [cached EXCEPT !.counts = Count(cached.report, cached.deps),
                                !.mode = world.mode]
    /\ UNCHANGED <<world, page>>

\* Without a rollup of each package it would raise ScanCountsRollupError.
Render ==
    /\ step = "cached" /\ ~LacksRollup(cached)
    /\ step' = "shown"
    /\ page' = ResultsContext(cached)
    /\ UNCHANGED <<world, cached>>

Next == ParseFails \/ Parse \/ Analyse \/ OsvFails \/ Finalize \/ Render

Spec == Init /\ [][Next]_vars

-----------------------------------------------------------------------------
(* Properties *)

\* Each x of S stands for F(x) units.
SumOf(F(_), S) == Cardinality(UNION {{x} \X (1..F(x)) : x \in S})

Counted == step \in {"cached", "shown"}

Shown == step = "shown"

\* Every count that build_scan_counts checks against another adds up, for
\* every report the engine makes of a lockfile, so ScanBalance.ok is true, and
\* the page can be built from it.
BalanceHolds ==
    Counted => Imbalances(cached.report, cached.counts) = {} /\ ~LacksRollup(cached)

Cards == UNION {page.tiers[t] : t \in Tiers}

InstallsShown(card) == SumOf(LAMBDA v : v.installs, card.views)

\* No finding is lost or shown twice on the way to the page: the installs
\* behind the cards of the upgrades and the panel of findings without a fix
\* make up the total, a card says how many it stands for, and the finding
\* sent for its explanation leads back to its own entry.
PageAccountsForFindings ==
    Shown =>
        /\ SumOf(InstallsShown, Cards) + Cardinality(page.noFix.findings) = cached.counts.total
        /\ \A card \in Cards :
              /\ card.count = InstallsShown(card)
              /\ {e.candidate : e \in EntryExplained(cached.report.entries, card.explains)}
                    = {card.candidate}

\* What the page works out by itself agrees with the counts it prints beside:
\* the list of clean packages, the packages of each tier and those in the
\* panel.  The lightest tier of a node is counted, the heaviest is listed.
PageAgreesWithCounts ==
    Shown =>
        /\ Cardinality(page.status.clean) = page.status.total - cached.counts.affected
        /\ \A t \in Tiers : Cardinality(Buckets(cached.report)[t]) = page.status.status[t]
        /\ Cardinality(page.noFix.primary) = page.status.noFix
        /\ Cardinality(page.noFix.trailing) = page.status.mixed

\* npm's rule: of the installs of n beside k or above it, the innermost.
Serves(tree, i, k, n) ==
    LET Sees(j) == Last(Key[j]) = n /\ IsPrefix(Front(Key[j]), k)
    IN  /\ i \in Parseable(tree) /\ Sees(i)
        /\ \A j \in Parseable(tree) : Sees(j) => Len(Key[j]) <= Len(Key[i])

\* k declares the name of install i, which serves it.
ServesFor(tree, i, k) ==
    Last(Key[i]) \in Declared(tree, k) /\ Serves(tree, i, k, Last(Key[i]))

\* A lockfile whose declarations are all served and whose installs are all
\* reached by them, as npm writes it without optional and peer dependencies:
\* no fewer declarers contain the project and the installs that serve them.
WellFormed(tree) ==
    LET served == {e \in Declarers(tree) \X Parseable(tree) : ServesFor(tree, e[2], e[1])}
    IN  /\ \A K \in SUBSET Declarers(tree) :
              <<>> \in K /\ (\A e \in served : e[1] \in K => Key[e[2]] \in K)
                  => K = Declarers(tree)
        /\ \A k \in Declarers(tree) : \A n \in Declared(tree, k) :
              \E i \in Installs : Serves(tree, i, k, n)

\* What the parser works out from names and what it works out from installs
\* agree: the installs of a name share out those who declare it, and the route
\* shown for a finding, found by names, runs inside the graph shown for its
\* package, drawn from the installs, which hangs on the root.
RouteIsInGraph ==
    Shown /\ WellFormed(world.tree) =>
        /\ \A n \in Names(cached.deps) :
              IndexParents(cached.deps, n) = NameParents(world.tree)[n]
        /\ \A i \in DOMAIN cached.deps :
            LET row == cached.deps[i]
                graph == Subgraph(cached.deps, row.package, row.version)
            IN  /\ Root \in graph.nodes
                /\ \A s \in 1..(Len(row.path) - 1) :
                      <<row.path[s], row.path[s + 1]>> \in graph.edges

\* The ways from the project to n of k declarations, as the graph has them.
WaysTo(deps, n, k) ==
    {way \in [1..(k + 1) -> GraphNodes(deps)] :
        /\ way[1] = Root /\ way[k + 1] = n
        /\ \A s \in 1..k : <<way[s], way[s + 1]>> \in AllEdges(deps)}

\* The depth of a node of the graph (_depth_by_package) is that of a way to it:
\* it may be more than the shortest distance, never less.
DepthIsOfAWay ==
    Shown /\ WellFormed(world.tree) =>
        \A n \in Names(cached.deps) :
            WaysTo(cached.deps, n, Depth(cached.deps, n)) # {}
==============================================================================
