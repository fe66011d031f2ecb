---------------------------- MODULE ScanReportProofs ----------------------------
(***************************************************************************)
(* The counts of a scan add up and the results page agrees with them, for  *)
(* any lockfile, any advisories and any verdicts; the parser resolves as   *)
(* npm does, and the routes it shows are shortest and inside the graphs.   *)
(***************************************************************************)
EXTENDS ScanReport, FixEngineProofs

-----------------------------------------------------------------------------
(* Sums and sizes *)

\* Three disjoint parts of a finite set.
LEMMA ThreeParts ==
    ASSUME NEW S, IsFiniteSet(S), NEW A \in SUBSET S, NEW B \in SUBSET S, NEW C \in SUBSET S,
           S = A \cup B \cup C, A \cap B = {}, A \cap C = {}, B \cap C = {}
    PROVE  Cardinality(S) = Cardinality(A) + Cardinality(B) + Cardinality(C)
    <1>1. IsFiniteSet(A) /\ IsFiniteSet(B) /\ IsFiniteSet(C) /\ IsFiniteSet(A \cup B)
        BY FS_Subset
    <1>2. Cardinality(A) \in Nat /\ Cardinality(B) \in Nat /\ Cardinality(C) \in Nat
        BY <1>1, FS_CardinalityType
    <1>3. Cardinality(A \cup B) = Cardinality(A) + Cardinality(B)
        BY <1>1, <1>2, FS_Union, FS_EmptySet
    <1>4. (A \cup B) \cap C = {}
        OBVIOUS
    <1>5. Cardinality((A \cup B) \cup C) = Cardinality(A \cup B) + Cardinality(C)
        <2>1. Cardinality((A \cup B) \cup C) =
                Cardinality(A \cup B) + Cardinality(C) - Cardinality((A \cup B) \cap C)
            BY <1>1, FS_Union
        <2> QED
            BY <1>2, <1>3, <1>4, <2>1, FS_EmptySet
    <1> QED
        BY <1>3, <1>5

\* Parts of a set, and as many units for each x as its size says.
AllOf(X, part) == UNION {part[x] : x \in X}
Units(X, size) == UNION {{x} \X (1..size[x]) : x \in X}

\* The sizes of disjoint parts add up to the size of their union.
LEMMA SumIs ==
    ASSUME NEW X, NEW part, NEW size, IsFiniteSet(AllOf(X, part)),
           \A x \in X : size[x] = Cardinality(part[x]),
           \A x, y \in X : x # y => part[x] \cap part[y] = {}
    PROVE  Cardinality(Units(X, size)) = Cardinality(AllOf(X, part))
    <1> DEFINE units == Units(X, size)
               all == AllOf(X, part)
               count == [x \in X |-> CHOOSE b : b \in Bijection(1..size[x], part[x])]
               g == [u \in units |-> count[u[1]][u[2]]]
    <1>1. \A x \in X : count[x] \in Bijection(1..size[x], part[x])
        <2> SUFFICES ASSUME NEW x \in X PROVE \E b : b \in Bijection(1..size[x], part[x])
            OBVIOUS
        <2>1. part[x] \in SUBSET all
            BY DEF AllOf
        <2>2. IsFiniteSet(part[x])
            BY <2>1, FS_Subset
        <2> QED
            BY <2>2, FS_CardinalityType DEF ExistsBijection
    <1> HIDE DEF count
    <1>2. \A u \in units : u[1] \in X /\ u[2] \in 1..size[u[1]] /\ u = <<u[1], u[2]>>
        BY DEF Units
    <1>3. \A x \in X : \A k \in 1..size[x] : <<x, k>> \in units
        BY DEF Units
    <1>4. \A x \in X : \A y \in part[x] : y \in all
        BY DEF AllOf
    <1>5. \A y \in all : \E x \in X : y \in part[x]
        BY DEF AllOf
    <1>0. IsFiniteSet(all)
        OBVIOUS
    <1> HIDE DEF units, all
    <1>6. \A x \in X :
            /\ \A k \in 1..size[x] : count[x][k] \in part[x]
            /\ \A k, m \in 1..size[x] : count[x][k] = count[x][m] => k = m
            /\ \A y \in part[x] : \E k \in 1..size[x] : count[x][k] = y
        <2> SUFFICES ASSUME NEW x \in X
                     PROVE  /\ \A k \in 1..size[x] : count[x][k] \in part[x]
                            /\ \A k, m \in 1..size[x] : count[x][k] = count[x][m] => k = m
                            /\ \A y \in part[x] : \E k \in 1..size[x] : count[x][k] = y
            OBVIOUS
        <2> DEFINE I == 1..size[x]
        <2>1. count[x] \in Bijection(I, part[x])
            BY <1>1
        <2> HIDE DEF I
        <2>2. /\ \A k \in I : count[x][k] \in part[x]
              /\ \A k, m \in I : count[x][k] = count[x][m] => k = m
              /\ \A y \in part[x] : \E k \in I : count[x][k] = y
            BY <2>1 DEF Bijection, Injection, Surjection, IsInjective
        <2> QED
            BY <2>2 DEF I
    <1>7. g \in [units -> all]
        BY <1>2, <1>4, <1>6
    <1>8. ASSUME NEW u \in units, NEW w \in units, g[u] = g[w] PROVE u = w
        <2>1. count[u[1]][u[2]] = count[w[1]][w[2]]
            BY <1>8
        <2>2. u[1] = w[1]
            BY <1>2, <1>6, <2>1
        <2>3. u[2] = w[2]
            BY <1>2, <1>6, <2>1, <2>2
        <2> QED
            BY <1>2, <2>2, <2>3
    <1>9. ASSUME NEW y \in all PROVE \E u \in units : g[u] = y
        <2>1. PICK x \in X : y \in part[x]
            BY <1>5
        <2>2. PICK k \in 1..size[x] : count[x][k] = y
            BY <1>6, <2>1
        <2>3. <<x, k>> \in units
            BY <1>3
        <2>4. g[<<x, k>>] = y
            BY <2>2, <2>3
        <2> QED
            BY <2>3, <2>4
    <1>10. g \in Injection(units, all) /\ g \in Surjection(units, all)
        <2> HIDE DEF g
        <2> QED
            BY <1>7, <1>8, <1>9 DEF Injection, Surjection, IsInjective
    <1>11. IsFiniteSet(units) /\ Cardinality(units) = Cardinality(all)
        <2> HIDE DEF g
        <2> QED
            BY <1>0, <1>10, FS_Injection
    <1> QED
        BY <1>11 DEF units, all

-----------------------------------------------------------------------------
(* What the engine reports *)

\* An upgrade per package and version, of the findings there; the others are
\* skipped; and every finding is of a row of the lockfile.
Sound(r, deps) ==
    /\ r.findings \in SUBSET Finding /\ IsFiniteSet(r.findings)
    /\ \A f \in r.findings : NodeOf(f) \in NodesOf(deps)
    /\ \A e \in r.entries :
          /\ e.tier \in Tiers
          /\ e.candidate.findings # {} /\ e.candidate.findings \subseteq r.findings
          /\ \A f \in e.candidate.findings : NodeOf(f) = EntryNode(e)
    /\ \A e, d \in r.entries : EntryNode(e) = EntryNode(d) => e = d
    /\ r.skipped = r.findings \ RelatedOf(r.entries)

Upgraded(r) == {EntryNode(e) : e \in r.entries}

LEMMA NodesAreFinite ==
    ASSUME NEW deps, IsFiniteSet(DOMAIN deps)
    PROVE  IsFiniteSet(NodesOf(deps))
    <1> DEFINE g == [i \in DOMAIN deps |-> <<deps[i].package, deps[i].version>>]
    <1>1. g \in Surjection(DOMAIN deps, NodesOf(deps))
        BY DEF NodesOf, Surjection
    <1> HIDE DEF g
    <1> QED
        BY <1>1, FS_Surjection

\* The packages of the findings, from the entries and the skipped findings.
LEMMA NodesOfFindings ==
    ASSUME NEW r, NEW deps, Sound(r, deps)
    PROVE  /\ Upgraded(r) \in SUBSET NodesOf(deps)
           /\ AllNoFixKeys(r) \in SUBSET NodesOf(deps)
           /\ {NodeOf(f) : f \in r.findings} = Upgraded(r) \cup AllNoFixKeys(r)
    <1>1. \A e \in r.entries : \E f \in r.findings : NodeOf(f) = EntryNode(e)
        BY DEF Sound
    <1>2. \A f \in r.findings :
            f \in r.skipped \/ \E e \in r.entries : NodeOf(f) = EntryNode(e)
        BY DEF Sound, RelatedOf
    <1>3. r.skipped \subseteq r.findings
        BY DEF Sound
    <1>4. Upgraded(r) \subseteq {NodeOf(f) : f \in r.findings}
        BY <1>1 DEF Upgraded
    <1>5. AllNoFixKeys(r) \subseteq {NodeOf(f) : f \in r.findings}
        BY <1>3 DEF AllNoFixKeys
    <1>6. {NodeOf(f) : f \in r.findings} \subseteq Upgraded(r) \cup AllNoFixKeys(r)
        BY <1>2 DEF Upgraded, AllNoFixKeys
    <1>7. {NodeOf(f) : f \in r.findings} \subseteq NodesOf(deps)
        BY DEF Sound
    <1> QED
        BY <1>4, <1>5, <1>6, <1>7

\* A package at a version has one upgrade, so whichever tier the code lets win
\* is the tier of that one.
LEMMA TierIs ==
    ASSUME NEW r, NEW deps, Sound(r, deps), NEW e \in r.entries,
           NEW order \in {<<"AUTO_MERGE", "REVIEW_REQUIRED", "DECLINE">>,
                          <<"DECLINE", "REVIEW_REQUIRED", "AUTO_MERGE">>}
    PROVE  /\ DOMAIN NodeTiersBy(r.entries, order) = Upgraded(r)
           /\ NodeTiersBy(r.entries, order)[EntryNode(e)] = e.tier
    <1> DEFINE same == {d \in r.entries : EntryNode(d) = EntryNode(e)}
               tiers == {d.tier : d \in same}
    <1>1. DOMAIN NodeTiersBy(r.entries, order) = Upgraded(r)
        BY DEF NodeTiersBy, Upgraded
    <1>2. same = {e}
        BY DEF Sound
    <1>3. tiers = {e.tier}
        BY <1>2
    <1>4. EntryNode(e) \in {EntryNode(d) : d \in r.entries}
        OBVIOUS
    <1>5. NodeTiersBy(r.entries, order)[EntryNode(e)] = order[Min({i \in 1..3 : order[i] \in tiers})]
        BY <1>4 DEF NodeTiersBy
    <1>6. PICK j \in 1..3 : \A i \in 1..3 : order[i] = e.tier <=> i = j
        <2>1. e.tier \in {"AUTO_MERGE", "REVIEW_REQUIRED", "DECLINE"}
            BY DEF Sound, Tiers
        <2>2. 1..3 = {1, 2, 3}
            OBVIOUS
        <2>3. CASE order = <<"AUTO_MERGE", "REVIEW_REQUIRED", "DECLINE">>
            <3>1. order[1] = "AUTO_MERGE" /\ order[2] = "REVIEW_REQUIRED" /\ order[3] = "DECLINE"
                BY <2>3
            <3> QED
                BY <2>1, <2>2, <3>1
        <2>4. CASE order = <<"DECLINE", "REVIEW_REQUIRED", "AUTO_MERGE">>
            <3>1. order[1] = "DECLINE" /\ order[2] = "REVIEW_REQUIRED" /\ order[3] = "AUTO_MERGE"
                BY <2>4
            <3> QED
                BY <2>1, <2>2, <3>1
        <2> QED
            BY <2>3, <2>4
    <1>7. {i \in 1..3 : order[i] \in tiers} = {j}
        BY <1>3, <1>6
    <1>8. Min({j}) = j
        BY DEF Min
    <1>9. order[j] = e.tier
        BY <1>6
    <1> HIDE DEF tiers
    <1> QED
        BY <1>1, <1>5, <1>7, <1>8, <1>9

\* The two orders give the same tiers.
LEMMA TiersAgree ==
    ASSUME NEW r, NEW deps, Sound(r, deps)
    PROVE  /\ DOMAIN NodeTiers(r.entries) = Upgraded(r)
           /\ DOMAIN PageNodeTiers(r.entries) = Upgraded(r)
           /\ \A n \in Upgraded(r) :
                 /\ NodeTiers(r.entries)[n] \in Tiers
                 /\ PageNodeTiers(r.entries)[n] = NodeTiers(r.entries)[n]
    <1>1. /\ DOMAIN NodeTiers(r.entries) = Upgraded(r)
          /\ DOMAIN PageNodeTiers(r.entries) = Upgraded(r)
        BY DEF NodeTiers, PageNodeTiers, NodeTiersBy, Upgraded
    <1>2. ASSUME NEW e \in r.entries
          PROVE  /\ NodeTiers(r.entries)[EntryNode(e)] = e.tier
                 /\ PageNodeTiers(r.entries)[EntryNode(e)] = e.tier
                 /\ e.tier \in Tiers
        <2>1. e.tier \in Tiers
            BY DEF Sound
        <2> QED
            BY <2>1, TierIs DEF NodeTiers, PageNodeTiers
    <1> QED
        BY <1>1, <1>2 DEF Upgraded

LEMMA CountIs ==
    ASSUME NEW r, NEW deps
    PROVE  LET c == Count(r, deps)
               affected == {NodeOf(f) : f \in r.findings} \cap NodesOf(deps)
               tiers == NodeTiers(r.entries)
           IN  /\ c.total = Cardinality(r.findings)
               /\ c.noFix = Cardinality(r.findings) - Cardinality(RelatedOf(r.entries))
               /\ c.nodes = Cardinality(NodesOf(deps))
               /\ c.affected = Cardinality(affected)
               /\ c.clean = Cardinality(NodesOf(deps)) - Cardinality(affected)
               /\ c.onlyNoFix = Cardinality(NoFixNodes(r, NodesOf(deps)) \ DOMAIN tiers)
               /\ c.mixed = Cardinality(NoFixNodes(r, NodesOf(deps)) \cap DOMAIN tiers)
               /\ DOMAIN c.rollups = {f.package : f \in RelatedOf(r.entries) \cup r.skipped}
    BY DEF Count

LEMMA RelatedIs ==
    ASSUME NEW r, NEW deps, NEW e \in r.entries
    PROVE  Count(r, deps).related[e.candidate] = Cardinality(e.candidate.findings)
    BY DEF Count

InTier(r, t) == {n \in DOMAIN NodeTiers(r.entries) : NodeTiers(r.entries)[n] = t}

LEMMA StatusIs ==
    ASSUME NEW r, NEW deps, NEW t \in Tiers
    PROVE  Count(r, deps).status[t] = Cardinality(InTier(r, t))
    BY DEF Count, InTier

\* The findings are those with a fix and those skipped.
LEMMA NoFixIs ==
    ASSUME NEW r, NEW deps, Sound(r, deps)
    PROVE  /\ RelatedOf(r.entries) \in SUBSET r.findings
           /\ IsFiniteSet(RelatedOf(r.entries)) /\ IsFiniteSet(r.skipped)
           /\ Cardinality(r.skipped) \in Nat /\ Cardinality(RelatedOf(r.entries)) \in Nat
           /\ Count(r, deps).noFix = Cardinality(r.skipped)
           /\ Count(r, deps).total = Cardinality(RelatedOf(r.entries)) + Cardinality(r.skipped)
    <1>1. RelatedOf(r.entries) \in SUBSET r.findings
        BY DEF Sound, RelatedOf
    <1>2. /\ IsFiniteSet(r.findings) /\ r.skipped = r.findings \ RelatedOf(r.entries)
        BY DEF Sound
    <1>3. r.findings \cap RelatedOf(r.entries) = RelatedOf(r.entries)
        BY <1>1
    <1>4. /\ IsFiniteSet(r.skipped)
          /\ Cardinality(r.skipped) = Cardinality(r.findings) - Cardinality(RelatedOf(r.entries))
        BY <1>2, <1>3, FS_Difference
    <1>5. IsFiniteSet(RelatedOf(r.entries))
        BY <1>1, <1>2, FS_Subset
    <1>6. /\ Cardinality(r.findings) \in Nat /\ Cardinality(RelatedOf(r.entries)) \in Nat
          /\ Cardinality(r.skipped) \in Nat
        BY <1>2, <1>4, <1>5, FS_CardinalityType
    <1>7. /\ Count(r, deps).noFix = Cardinality(r.findings) - Cardinality(RelatedOf(r.entries))
          /\ Count(r, deps).total = Cardinality(r.findings)
        BY CountIs
    <1> QED
        BY <1>1, <1>4, <1>5, <1>6, <1>7

\* The tiers share out the packages with an upgrade.
LEMMA TiersPartition ==
    ASSUME NEW r, NEW deps, IsFiniteSet(DOMAIN deps), Sound(r, deps)
    PROVE  LET status == Count(r, deps).status
           IN  status["AUTO_MERGE"] + status["REVIEW_REQUIRED"] + status["DECLINE"]
                  = Cardinality(Upgraded(r))
    <1> DEFINE tiers == NodeTiers(r.entries)
               Of(t) == {n \in Upgraded(r) : tiers[n] = t}
    <1>1. \A t \in Tiers : Count(r, deps).status[t] = Cardinality(Of(t))
        <2> SUFFICES ASSUME NEW t \in Tiers
                     PROVE  Count(r, deps).status[t] = Cardinality(Of(t))
            OBVIOUS
        <2>1. Count(r, deps).status[t] = Cardinality(InTier(r, t))
            BY StatusIs
        <2>2. DOMAIN tiers = Upgraded(r)
            BY TiersAgree
        <2>3. InTier(r, t) = Of(t)
            BY <2>2 DEF InTier
        <2> QED
            BY <2>1, <2>3
    <1>2. \A n \in Upgraded(r) : tiers[n] \in Tiers
        BY TiersAgree
    <1>3. IsFiniteSet(Upgraded(r))
        BY NodesOfFindings, NodesAreFinite, FS_Subset
    <1> HIDE DEF tiers
    <1>4. Cardinality(Upgraded(r)) = Cardinality(Of("AUTO_MERGE"))
            + Cardinality(Of("REVIEW_REQUIRED")) + Cardinality(Of("DECLINE"))
        <2>1. Upgraded(r) = Of("AUTO_MERGE") \cup Of("REVIEW_REQUIRED") \cup Of("DECLINE")
            BY <1>2 DEF Tiers
        <2>2. /\ Of("AUTO_MERGE") \cap Of("REVIEW_REQUIRED") = {}
              /\ Of("AUTO_MERGE") \cap Of("DECLINE") = {}
              /\ Of("REVIEW_REQUIRED") \cap Of("DECLINE") = {}
            OBVIOUS
        <2>3. /\ Of("AUTO_MERGE") \in SUBSET Upgraded(r)
              /\ Of("REVIEW_REQUIRED") \in SUBSET Upgraded(r)
              /\ Of("DECLINE") \in SUBSET Upgraded(r)
            OBVIOUS
        <2> HIDE DEF Of
        <2> QED
            BY <1>3, <2>1, <2>2, <2>3, ThreeParts
    <1>5. Tiers = {"AUTO_MERGE", "REVIEW_REQUIRED", "DECLINE"}
        BY DEF Tiers
    <1> HIDE DEF Of
    <1> QED
        BY <1>1, <1>4, <1>5

\* The packages: with an upgrade, with findings that have no fix only, clean.
LEMMA NodesPartition ==
    ASSUME NEW r, NEW deps, IsFiniteSet(DOMAIN deps), Sound(r, deps)
    PROVE  LET c == Count(r, deps)
           IN  /\ c.onlyNoFix = Cardinality(AllNoFixKeys(r) \ Upgraded(r))
               /\ c.mixed = Cardinality(AllNoFixKeys(r) \cap Upgraded(r))
               /\ c.nodes = Cardinality(Upgraded(r)) + c.onlyNoFix + c.clean
               /\ c.nodes - c.affected = Cardinality(NodesOf(deps) \ (Upgraded(r) \cup AllNoFixKeys(r)))
               /\ c.clean = c.nodes - c.affected
    <1> DEFINE nodes == NodesOf(deps)
               with == Upgraded(r)
               without == AllNoFixKeys(r)
    <1>1. with \in SUBSET nodes /\ without \in SUBSET nodes /\ IsFiniteSet(nodes)
        BY NodesOfFindings, NodesAreFinite
    <1>2. {NodeOf(f) : f \in r.findings} \cap nodes = with \cup without
        BY <1>1, NodesOfFindings
    <1>3. NoFixNodes(r, nodes) = without
        BY <1>1 DEF NoFixNodes, AllNoFixKeys
    <1>4. DOMAIN NodeTiers(r.entries) = with
        BY TiersAgree
    <1>5. /\ Count(r, deps).nodes = Cardinality(nodes)
          /\ Count(r, deps).affected = Cardinality(with \cup without)
          /\ Count(r, deps).clean = Cardinality(nodes) - Cardinality(with \cup without)
          /\ Count(r, deps).onlyNoFix = Cardinality(without \ with)
          /\ Count(r, deps).mixed = Cardinality(without \cap with)
        <2> HIDE DEF nodes, with, without
        <2>1. /\ Count(r, deps).nodes = Cardinality(nodes)
              /\ Count(r, deps).affected = Cardinality({NodeOf(f) : f \in r.findings} \cap nodes)
              /\ Count(r, deps).clean =
                    Cardinality(nodes) - Cardinality({NodeOf(f) : f \in r.findings} \cap nodes)
              /\ Count(r, deps).onlyNoFix = Cardinality(NoFixNodes(r, nodes) \ DOMAIN NodeTiers(r.entries))
              /\ Count(r, deps).mixed = Cardinality(NoFixNodes(r, nodes) \cap DOMAIN NodeTiers(r.entries))
            BY CountIs DEF nodes
        <2> QED
            BY <1>2, <1>3, <1>4, <2>1
    <1> HIDE DEF nodes, with, without
    <1>6. /\ Cardinality(nodes) = Cardinality(with) + Cardinality(without \ with)
                                    + Cardinality(nodes \ (with \cup without))
          /\ Cardinality(with \cup without) = Cardinality(with) + Cardinality(without \ with)
        <2>1. Cardinality(nodes) = Cardinality(with) + Cardinality(without \ with)
                                    + Cardinality(nodes \ (with \cup without))
            BY <1>1, ThreeParts
        <2>2. IsFiniteSet(with \cup without)
            BY <1>1, FS_Subset
        <2>3. Cardinality(with \cup without) = Cardinality(with) + Cardinality(without \ with)
                                                 + Cardinality({})
            BY <2>2, ThreeParts
        <2>4. /\ IsFiniteSet(with) /\ IsFiniteSet(without \ with)
            BY <1>1, FS_Subset, FS_Difference
        <2>5. Cardinality(with) \in Nat /\ Cardinality(without \ with) \in Nat
            BY <2>4, FS_CardinalityType
        <2> QED
            BY <2>1, <2>3, <2>5, FS_EmptySet
    <1>7. /\ Cardinality(with) \in Nat /\ Cardinality(without \ with) \in Nat
          /\ Cardinality(nodes \ (with \cup without)) \in Nat
        <2>1. IsFiniteSet(with) /\ IsFiniteSet(without \ with) /\ IsFiniteSet(nodes \ (with \cup without))
            BY <1>1, FS_Subset, FS_Difference
        <2> QED
            BY <2>1, FS_CardinalityType
    <1> QED
        BY <1>5, <1>6, <1>7 DEF nodes, with, without

\* build_scan_counts finds nothing to complain of.
LEMMA NoImbalance ==
    ASSUME NEW r, NEW deps, IsFiniteSet(DOMAIN deps), Sound(r, deps)
    PROVE  Imbalances(r, Count(r, deps)) = {}
    <1>1. Count(r, deps).noFix = Cardinality(r.skipped)
        BY NoFixIs
    <1>2. \A e \in r.entries : e.candidate.findings # {}
        BY DEF Sound
    <1>3. Count(r, deps).status["AUTO_MERGE"] + Count(r, deps).status["REVIEW_REQUIRED"]
            + Count(r, deps).status["DECLINE"] + Count(r, deps).onlyNoFix
            + Count(r, deps).clean = Count(r, deps).nodes
        BY TiersPartition, NodesPartition
    <1> QED
        BY <1>1, <1>2, <1>3 DEF Imbalances

\* Every package with an upgrade has its rollup.
LEMMA RollupsAreThere ==
    ASSUME NEW r, NEW deps, Sound(r, deps)
    PROVE  \A e \in r.entries : e.candidate.package \in DOMAIN Count(r, deps).rollups
    <1>1. DOMAIN Count(r, deps).rollups = {f.package : f \in RelatedOf(r.entries) \cup r.skipped}
        BY CountIs
    <1>2. ASSUME NEW e \in r.entries
          PROVE  \E f \in RelatedOf(r.entries) : f.package = e.candidate.package
        <2>1. PICK f \in e.candidate.findings : NodeOf(f) = EntryNode(e)
            BY DEF Sound
        <2>2. f \in RelatedOf(r.entries)
            BY DEF RelatedOf
        <2> QED
            BY <2>1, <2>2 DEF NodeOf, EntryNode
    <1> QED
        BY <1>1, <1>2

-----------------------------------------------------------------------------
(* The page *)

\* A payload as it is cached: a sound report with its own counts.
Payload(c) ==
    /\ IsFiniteSet(DOMAIN c.deps) /\ Sound(c.report, c.deps)
    /\ c.counts = Count(c.report, c.deps)

LEMMA PageIs ==
    ASSUME NEW c
    PROVE  /\ ResultsContext(c).tiers = CandidatesByTier(c)
           /\ ResultsContext(c).noFix = NoFixPanel(c)
           /\ ResultsContext(c).status.clean = CleanNodes(c.report, c.deps)
           /\ ResultsContext(c).status.total = c.counts.nodes
           /\ ResultsContext(c).status.status = c.counts.status
           /\ ResultsContext(c).status.noFix = c.counts.onlyNoFix
           /\ ResultsContext(c).status.mixed = c.counts.mixed
    BY DEF ResultsContext, PackageStatus

\* The panel shows what was skipped, also where there is none.
LEMMA PanelIs ==
    ASSUME NEW c, Payload(c)
    PROVE  /\ NoFixPanel(c).primary = AllNoFixKeys(c.report) \ Upgraded(c.report)
           /\ NoFixPanel(c).trailing = AllNoFixKeys(c.report) \cap Upgraded(c.report)
           /\ NoFixPanel(c).findings = c.report.skipped
    <1>1. /\ c.counts.noFix = Cardinality(c.report.skipped)
          /\ IsFiniteSet(c.report.skipped) /\ Cardinality(c.report.skipped) \in Nat
        BY NoFixIs DEF Payload
    <1>2. ExclusiveNoFixKeys(c.report) = AllNoFixKeys(c.report) \ Upgraded(c.report)
        BY TiersAgree DEF Payload, ExclusiveNoFixKeys
    <1>3. CASE c.counts.noFix <= 0
        <2>1. c.report.skipped = {}
            BY <1>1, <1>3, FS_EmptySet
        <2>2. AllNoFixKeys(c.report) = {}
            BY <2>1 DEF AllNoFixKeys
        <2> QED
            BY <1>3, <2>1, <2>2 DEF NoFixPanel
    <1>4. CASE ~(c.counts.noFix <= 0)
        BY <1>2, <1>4 DEF NoFixPanel
    <1> QED
        BY <1>3, <1>4

LEMMA PageNumbers ==
    ASSUME NEW c, Payload(c)
    PROVE  /\ Cardinality(CleanNodes(c.report, c.deps)) = c.counts.nodes - c.counts.affected
           /\ \A t \in Tiers : Cardinality(Buckets(c.report)[t]) = c.counts.status[t]
           /\ Cardinality(NoFixPanel(c).primary) = c.counts.onlyNoFix
           /\ Cardinality(NoFixPanel(c).trailing) = c.counts.mixed
    <1> DEFINE r == c.report
    <1>1. IsFiniteSet(DOMAIN c.deps) /\ Sound(r, c.deps) /\ c.counts = Count(r, c.deps)
        BY DEF Payload
    <1>2. CleanNodes(r, c.deps) = NodesOf(c.deps) \ (Upgraded(r) \cup AllNoFixKeys(r))
        BY DEF CleanNodes, WithFindings, Upgraded
    <1>3. ASSUME NEW t \in Tiers
          PROVE  Cardinality(Buckets(r)[t]) = c.counts.status[t]
        <2>1. Buckets(r)[t] = {n \in DOMAIN PageNodeTiers(r.entries) \ ExclusiveNoFixKeys(r) :
                                  PageNodeTiers(r.entries)[n] = t}
            BY DEF Buckets
        <2>2. DOMAIN PageNodeTiers(r.entries) \ ExclusiveNoFixKeys(r) = Upgraded(r)
            BY <1>1, TiersAgree DEF ExclusiveNoFixKeys
        <2>3. Buckets(r)[t] = InTier(r, t)
            BY <1>1, <2>1, <2>2, TiersAgree DEF InTier
        <2> QED
            BY <1>1, <2>3, StatusIs
    <1> HIDE DEF r
    <1>4. /\ c.counts.onlyNoFix = Cardinality(AllNoFixKeys(r) \ Upgraded(r))
          /\ c.counts.mixed = Cardinality(AllNoFixKeys(r) \cap Upgraded(r))
          /\ c.counts.nodes - c.counts.affected =
                Cardinality(NodesOf(c.deps) \ (Upgraded(r) \cup AllNoFixKeys(r)))
        BY <1>1, NodesPartition
    <1>5. /\ NoFixPanel(c).primary = AllNoFixKeys(r) \ Upgraded(r)
          /\ NoFixPanel(c).trailing = AllNoFixKeys(r) \cap Upgraded(r)
        BY PanelIs DEF r
    <1> QED
        BY <1>2, <1>3, <1>4, <1>5 DEF r

\* The views of a card stand for all its findings.
LEMMA ViewsAddUp ==
    ASSUME NEW H, IsFiniteSet(H)
    PROVE  Cardinality(UNION {{v} \X (1..v.installs) : v \in Views(H)}) = Cardinality(H)
    <1> DEFINE X == Views(H)
               part == [v \in X |-> {f \in H : f.adv = v.adv}]
               size == [v \in X |-> v.installs]
    <1>1. \A v \in X : /\ v.installs = Cardinality({f \in H : f.adv = v.adv})
                       /\ v = [adv |-> v.adv, installs |-> v.installs]
        <2> SUFFICES ASSUME NEW v \in X
                     PROVE  /\ v.installs = Cardinality({f \in H : f.adv = v.adv})
                            /\ v = [adv |-> v.adv, installs |-> v.installs]
            OBVIOUS
        <2>1. PICK a : v = [adv |-> a, installs |-> Cardinality({f \in H : f.adv = a})]
            BY DEF Views
        <2>2. v.adv = a
            BY <2>1
        <2> QED
            BY <2>1, <2>2
    <1>2. \A f \in H : \E v \in X : v.adv = f.adv
        <2> SUFFICES ASSUME NEW f \in H PROVE \E v \in X : v.adv = f.adv
            OBVIOUS
        <2> DEFINE v == [adv |-> f.adv, installs |-> Cardinality({g \in H : g.adv = f.adv})]
        <2>1. v \in X
            BY DEF Views
        <2>2. v.adv = f.adv
            OBVIOUS
        <2> HIDE DEF X, v
        <2> QED
            BY <2>1, <2>2
    <1> HIDE DEF X
    <1>3. AllOf(X, part) = H
        BY <1>2 DEF AllOf
    <1>4. \A v, w \in X : v # w => part[v] \cap part[w] = {}
        <2> SUFFICES ASSUME NEW v \in X, NEW w \in X, NEW f \in part[v], f \in part[w]
                     PROVE  v = w
            OBVIOUS
        <2>1. v.adv = w.adv
            OBVIOUS
        <2>2. v.installs = w.installs
            BY <1>1, <2>1
        <2> QED
            BY <1>1, <2>1, <2>2
    <1>5. \A v \in X : size[v] = Cardinality(part[v])
        BY <1>1
    <1>6. Units(X, size) = UNION {{v} \X (1..v.installs) : v \in X}
        BY DEF Units
    <1>7. Cardinality(Units(X, size)) = Cardinality(AllOf(X, part))
        <2>1. IsFiniteSet(AllOf(X, part))
            BY <1>3
        <2> HIDE DEF part, size
        <2> QED
            BY <1>4, <1>5, <2>1, SumIs
    <1> QED
        BY <1>3, <1>6, <1>7 DEF X

\* The finding a card is explained by is one of its own.
LEMMA PrimaryIs ==
    ASSUME NEW e, e.candidate.findings \in SUBSET Finding,
           IsFiniteSet(e.candidate.findings), e.candidate.findings # {}
    PROVE  PrimaryFinding(e) \in e.candidate.findings
    <1> DEFINE H == e.candidate.findings
               First(f) == \A g \in H : f.adv < g.adv \/ (f.adv = g.adv /\ f.install <= g.install)
               Before(f, g) == f.adv < g.adv \/ (f.adv = g.adv /\ f.install < g.install)
               R == {p \in H \X H : Before(p[1], p[2])}
    <1>1. \A f \in H : f.adv \in Nat /\ f.install \in Nat
        BY FindingIs
    <1>2. \A f, g \in H : <<f, g>> \in R <=> Before(f, g)
        OBVIOUS
    <1>3. \A f \in H : <<f, f>> \notin R
        BY <1>1, <1>2
    <1>4. \A f, g, h \in H : <<f, g>> \in R /\ <<g, h>> \in R => <<f, h>> \in R
        BY <1>1, <1>2
    <1>5. PICK m \in H : \A f \in H : <<f, m>> \notin R
        <2>1. IsFiniteSet(H) /\ H # {}
            OBVIOUS
        <2> HIDE DEF R, H
        <2> QED
            BY <1>3, <1>4, <2>1, FiniteMinimal
    <1>6. First(m)
        <2> SUFFICES ASSUME NEW g \in H
                     PROVE  m.adv < g.adv \/ (m.adv = g.adv /\ m.install <= g.install)
            OBVIOUS
        <2>1. ~Before(g, m)
            BY <1>2, <1>5
        <2> QED
            BY <1>1, <2>1
    <1>7. PrimaryFinding(e) = CHOOSE f \in H : First(f)
        BY DEF PrimaryFinding
    <1> HIDE DEF First
    <1> QED
        BY <1>6, <1>7

\* A card stands for the findings of its upgrade, and each finding for itself.
LEMMA CardIs ==
    ASSUME NEW c, Payload(c), NEW e \in c.report.entries
    PROVE  LET card == Card(e, c.counts)
               n == Cardinality(e.candidate.findings)
           IN  /\ card.candidate = e.candidate
               /\ card.count = n /\ InstallsShown(card) = n
               /\ IsFiniteSet(e.candidate.findings)
               /\ EntryExplained(c.report.entries, card.explains) = {e}
    <1> DEFINE card == Card(e, c.counts)
               r == c.report
    <1>1. Sound(r, c.deps) /\ c.counts = Count(r, c.deps)
        BY DEF Payload
    <1>2. /\ card.candidate = e.candidate /\ card.views = Views(e.candidate.findings)
          /\ card.explains = PrimaryFinding(e) /\ card.count = c.counts.related[e.candidate]
        BY DEF Card
    <1> HIDE DEF card
    <1>3. \A d \in r.entries :
            /\ d.candidate.findings \in SUBSET Finding /\ d.candidate.findings # {}
            /\ IsFiniteSet(d.candidate.findings)
        BY <1>1, FS_Subset DEF Sound
    <1>4. card.count = Cardinality(e.candidate.findings)
        BY <1>1, <1>2, RelatedIs
    <1>5. InstallsShown(card) = Cardinality(e.candidate.findings)
        BY <1>2, <1>3, ViewsAddUp DEF InstallsShown, SumOf
    <1>6. \A d \in r.entries : PrimaryFinding(d) = PrimaryFinding(e) => d = e
        <2> SUFFICES ASSUME NEW d \in r.entries, PrimaryFinding(d) = PrimaryFinding(e) PROVE d = e
            OBVIOUS
        <2>1. /\ PrimaryFinding(e) \in e.candidate.findings
              /\ PrimaryFinding(d) \in d.candidate.findings
            BY <1>3, PrimaryIs
        <2>2. EntryNode(d) = EntryNode(e)
            BY <1>1, <2>1 DEF Sound
        <2> QED
            BY <1>1, <2>2 DEF Sound
    <1>7. EntryExplained(r.entries, card.explains) = {e}
        BY <1>2, <1>6 DEF EntryExplained
    <1> QED
        BY <1>2, <1>3, <1>4, <1>5, <1>7 DEF card

\* The installs behind all cards are the findings that have a fix.
LEMMA CardsAddUp ==
    ASSUME NEW c, Payload(c)
    PROVE  LET shown == {Card(e, c.counts) : e \in c.report.entries}
           IN  SumOf(InstallsShown, shown) = Cardinality(RelatedOf(c.report.entries))
    <1> DEFINE X == {Card(e, c.counts) : e \in c.report.entries}
               part == [x \in X |-> x.candidate.findings]
               size == [x \in X |-> InstallsShown(x)]
    <1>1. \A x \in X : \E e \in c.report.entries :
            /\ x = Card(e, c.counts) /\ x.candidate = e.candidate
            /\ InstallsShown(x) = Cardinality(x.candidate.findings)
        BY CardIs
    <1>2. \A e \in c.report.entries : \E x \in X : x.candidate = e.candidate
        <2> SUFFICES ASSUME NEW e \in c.report.entries PROVE \E x \in X : x.candidate = e.candidate
            OBVIOUS
        <2>1. Card(e, c.counts) \in X /\ Card(e, c.counts).candidate = e.candidate
            BY CardIs
        <2> HIDE DEF X
        <2> QED
            BY <2>1
    <1> HIDE DEF X
    <1>3. AllOf(X, part) = RelatedOf(c.report.entries)
        <2>1. \A x \in X : \E e \in c.report.entries : part[x] = e.candidate.findings
            BY <1>1
        <2>2. \A e \in c.report.entries : \E x \in X : part[x] = e.candidate.findings
            BY <1>2
        <2> HIDE DEF part
        <2> QED
            BY <2>1, <2>2 DEF RelatedOf, AllOf
    <1>4. \A x, y \in X : x # y => part[x] \cap part[y] = {}
        <2> SUFFICES ASSUME NEW x \in X, NEW y \in X, NEW f \in part[x], f \in part[y]
                     PROVE  x = y
            OBVIOUS
        <2>1. PICK e \in c.report.entries : x = Card(e, c.counts) /\ x.candidate = e.candidate
            BY <1>1
        <2>2. PICK d \in c.report.entries : y = Card(d, c.counts) /\ y.candidate = d.candidate
            BY <1>1
        <2>3. f \in e.candidate.findings /\ f \in d.candidate.findings
            BY <2>1, <2>2
        <2>4. EntryNode(e) = EntryNode(d)
            BY <2>3 DEF Payload, Sound
        <2>5. e = d
            BY <2>4 DEF Payload, Sound
        <2> QED
            BY <2>1, <2>2, <2>5
    <1>5. \A x \in X : size[x] = Cardinality(part[x])
        BY <1>1
    <1>6. IsFiniteSet(AllOf(X, part))
        BY <1>3, NoFixIs DEF Payload
    <1>7. Cardinality(Units(X, size)) = Cardinality(AllOf(X, part))
        <2> HIDE DEF part, size
        <2> QED
            BY <1>4, <1>5, <1>6, SumIs
    <1>8. Units(X, size) = UNION {{x} \X (1..InstallsShown(x)) : x \in X}
        BY DEF Units
    <1>9. SumOf(InstallsShown, X) = Cardinality(UNION {{x} \X (1..InstallsShown(x)) : x \in X})
        BY DEF SumOf
    <1> QED
        BY <1>3, <1>7, <1>8, <1>9 DEF X

-----------------------------------------------------------------------------
(* Numbers: least and greatest members *)

\* A set of numbers up to N has a least member, and a greatest one.
LEMMA LeastNumber ==
    ASSUME NEW N \in Nat, NEW T \in SUBSET (0..N), T # {}
    PROVE  \E m \in T : \A x \in T : m <= x
    <1> DEFINE R == {p \in T \X T : p[1] < p[2]}
    <1>1. IsFiniteSet(T)
        <2>1. 0 \in Int /\ N \in Int
            OBVIOUS
        <2>2. IsFiniteSet(0..N)
            BY <2>1, FS_Interval
        <2> QED
            BY <2>2, FS_Subset
    <1>2. \A x, y \in T : <<x, y>> \in R <=> x < y
        OBVIOUS
    <1>3. \A x \in T : x \in Nat
        OBVIOUS
    <1> HIDE DEF R
    <1>4. /\ \A x \in T : <<x, x>> \notin R
          /\ \A x, y, z \in T : <<x, y>> \in R /\ <<y, z>> \in R => <<x, z>> \in R
        BY <1>2, <1>3
    <1>5. PICK m \in T : \A x \in T : <<x, m>> \notin R
        BY <1>1, <1>4, FiniteMinimal
    <1>6. \A x \in T : ~(x < m)
        BY <1>2, <1>5
    <1>7. \A x \in T : m <= x
        BY <1>3, <1>6
    <1> QED
        BY <1>7

LEMMA GreatestNumber ==
    ASSUME NEW N \in Nat, NEW T \in SUBSET (0..N), T # {}
    PROVE  \E m \in T : \A x \in T : m >= x
    <1> DEFINE U == {k \in 0..N : N - k \in T}
    <1>1. U \in SUBSET (0..N) /\ U # {}
        <2>1. PICK x \in T : TRUE
            OBVIOUS
        <2>2. N - x \in U
            BY <2>1
        <2> QED
            BY <2>2
    <1>2. PICK m \in U : \A x \in U : m <= x
        <2> HIDE DEF U
        <2> QED
            BY <1>1, LeastNumber
    <1>3. \A x \in T : N - x \in U /\ x \in 0..N
        OBVIOUS
    <1>4. N - m \in T /\ \A x \in T : N - m >= x
        BY <1>2, <1>3
    <1> QED
        BY <1>4

LEMMA MinIs ==
    ASSUME NEW S \in SUBSET Nat, S # {}
    PROVE  Min(S) \in S /\ \A x \in S : Min(S) <= x
    <1>1. PICK N \in S : TRUE
        OBVIOUS
    <1> DEFINE T == {x \in S : x <= N}
    <1>2. PICK m \in T : \A x \in T : m <= x
        <2>1. N \in T
            OBVIOUS
        <2>2. \A x \in T : x \in 0..N
            OBVIOUS
        <2>3. T \in SUBSET (0..N) /\ T # {}
            BY <2>1, <2>2
        <2> HIDE DEF T
        <2> QED
            BY <1>1, <2>3, LeastNumber
    <1>3. \A x \in S : x \in Nat /\ (x \in T \/ x > N)
        OBVIOUS
    <1>4. m \in S /\ m <= N
        OBVIOUS
    <1>5. \A x \in S : m <= x
        BY <1>2, <1>3, <1>4
    <1> QED
        BY <1>4, <1>5 DEF Min

LEMMA MaxIs ==
    ASSUME NEW N \in Nat, NEW S \in SUBSET (0..N), S # {}
    PROVE  Max(S) \in S /\ \A x \in S : Max(S) >= x
    BY GreatestNumber DEF Max

-----------------------------------------------------------------------------
(* Searches by layers *)

\* S and what the edges E lead to from it, among the nodes U.
Layer(S, U, E) == S \cup {y \in U : \E x \in S : <<x, y>> \in E}

\* f is the search from the nodes of A along the edges E, N layers deep.
IsSearch(f, N, U, A, E) ==
    f = [d \in 0..N |-> IF d = 0 THEN A ELSE Layer(f[d - 1], U, E)]

LEMMA SearchExists ==
    ASSUME NEW N \in Nat, NEW U, NEW A \in SUBSET U, NEW E
    PROVE  \E layer : IsSearch(layer, N, U, A, E)
    <1> DEFINE Bad == {n \in 0..N : ~\E layer : IsSearch(layer, n, U, A, E)}
    <1>1. SUFFICES Bad = {}
        <2>1. N \in 0..N
            OBVIOUS
        <2> QED
            BY <2>1
    <1>2. SUFFICES ASSUME Bad # {} PROVE FALSE
        OBVIOUS
    <1>3. PICK n \in Bad : \A m \in Bad : n <= m
        <2>1. Bad \in SUBSET (0..N)
            OBVIOUS
        <2> HIDE DEF Bad
        <2> QED
            BY <1>2, <2>1, LeastNumber
    <1>4. CASE n = 0
        <2>1. IsSearch([d \in 0..0 |-> A], 0, U, A, E)
            BY DEF IsSearch
        <2> QED
            BY <1>3, <1>4, <2>1
    <1>5. CASE n # 0
        <2>1. n \in Nat /\ n - 1 \in 0..N /\ n - 1 \notin Bad
            BY <1>3, <1>5
        <2>2. PICK f : IsSearch(f, n - 1, U, A, E)
            BY <2>1
        <2> DEFINE g == [d \in 0..n |-> IF d = n THEN Layer(f[n - 1], U, E) ELSE f[d]]
        <2>3. \A d \in 0..(n - 1) : f[d] = IF d = 0 THEN A ELSE Layer(f[d - 1], U, E)
            BY <2>2 DEF IsSearch
        <2>4. \A d \in 0..n : g[d] = IF d = 0 THEN A ELSE Layer(g[d - 1], U, E)
            BY <1>5, <2>1, <2>3
        <2>5. g = [d \in 0..n |-> g[d]]
            OBVIOUS
        <2>6. g = [d \in 0..n |-> IF d = 0 THEN A ELSE Layer(g[d - 1], U, E)]
            <3> HIDE DEF g
            <3> QED
                BY <2>4, <2>5
        <2>7. IsSearch(g, n, U, A, E)
            BY <2>6 DEF IsSearch
        <2> QED
            BY <1>3, <2>7
    <1> QED
        BY <1>4, <1>5

\* The layers of a search, one within the next.
Grows(f, N, U, A, E) ==
    /\ f[0] = A
    /\ \A d \in 1..N : f[d] = Layer(f[d - 1], U, E)
    /\ \A d \in 0..N : f[d] \subseteq U /\ f[d] \subseteq f[N]
    /\ \A d \in 0..N : A \subseteq f[d]

LEMMA SearchIs ==
    ASSUME NEW N \in Nat, NEW U, NEW A \in SUBSET U, NEW E, NEW f, IsSearch(f, N, U, A, E)
    PROVE  Grows(f, N, U, A, E)
    <1>1. f[0] = A
        BY DEF IsSearch
    <1>2. \A d \in 1..N : f[d] = Layer(f[d - 1], U, E)
        BY DEF IsSearch
    <1>3. \A d \in 0..N : f[d] \subseteq U /\ A \subseteq f[d]
        <2> DEFINE Bad == {d \in 0..N : ~(f[d] \subseteq U /\ A \subseteq f[d])}
        <2>1. SUFFICES ASSUME Bad # {} PROVE FALSE
            OBVIOUS
        <2>2. PICK n \in Bad : \A m \in Bad : n <= m
            <3>1. Bad \in SUBSET (0..N)
                OBVIOUS
            <3> HIDE DEF Bad
            <3> QED
                BY <2>1, <3>1, LeastNumber
        <2>3. n # 0
            BY <1>1
        <2>4. n \in 1..N /\ n - 1 \in 0..N /\ ~(n <= n - 1)
            BY <2>3
        <2>5. f[n - 1] \subseteq U /\ A \subseteq f[n - 1]
            BY <2>2, <2>4
        <2> QED
            BY <1>2, <2>4, <2>5 DEF Layer
    <1>4. \A d \in 0..N : f[d] \subseteq f[N]
        <2> DEFINE Bad == {d \in 0..N : ~(f[d] \subseteq f[N])}
        <2>1. SUFFICES ASSUME Bad # {} PROVE FALSE
            OBVIOUS
        <2>2. PICK n \in Bad : \A m \in Bad : n >= m
            <3>1. Bad \in SUBSET (0..N)
                OBVIOUS
            <3> HIDE DEF Bad
            <3> QED
                BY <2>1, <3>1, GreatestNumber
        <2>3. n # N
            OBVIOUS
        <2>4. n + 1 \in 1..N /\ n + 1 \in 0..N /\ ~(n >= n + 1) /\ (n + 1) - 1 = n
            BY <2>3
        <2>5. f[n + 1] \subseteq f[N]
            BY <2>2, <2>4
        <2>6. f[n] \subseteq f[n + 1]
            BY <1>2, <2>4 DEF Layer
        <2> QED
            BY <2>5, <2>6
    <1> QED
        BY <1>1, <1>2, <1>3, <1>4 DEF Grows

\* A search as deep as there are nodes leaves no edge out.
LEMMA SearchCloses ==
    ASSUME NEW N \in Nat, NEW U, NEW A \in SUBSET U, NEW E, NEW f, IsSearch(f, N, U, A, E),
           IsFiniteSet(U), Cardinality(U) <= N + 1, A # {}
    PROVE  \A x \in f[N], y \in U : <<x, y>> \in E => y \in f[N]
    <1> DEFINE Closed(S) == \A x \in S, y \in U : <<x, y>> \in E => y \in S
    <1>0. Grows(f, N, U, A, E)
        BY SearchIs
    <1>1. /\ f[0] = A
          /\ \A d \in 1..N : f[d] = Layer(f[d - 1], U, E)
          /\ \A d \in 0..N : f[d] \subseteq U /\ f[d] \subseteq f[N]
        BY <1>0 DEF Grows
    <1>2. CASE \E d \in 1..N : f[d] = f[d - 1]
        <2>1. PICK d \in 1..N : f[d] = f[d - 1]
            BY <1>2
        <2>2. Closed(f[d])
            BY <1>1, <2>1 DEF Layer
        <2> DEFINE Bad == {e \in 0..N : d <= e /\ f[e] # f[d]}
        <2>3. Bad = {}
            <3>1. SUFFICES ASSUME Bad # {} PROVE FALSE
                OBVIOUS
            <3>2. PICK n \in Bad : \A m \in Bad : n <= m
                <4>1. Bad \in SUBSET (0..N)
                    OBVIOUS
                <4> HIDE DEF Bad
                <4> QED
                    BY <3>1, <4>1, LeastNumber
            <3>3. n # d
                OBVIOUS
            <3>4. n \in 1..N /\ n - 1 \in 0..N /\ d <= n - 1 /\ ~(n <= n - 1)
                BY <3>3
            <3>5. f[n - 1] = f[d]
                BY <3>2, <3>4
            <3>6. f[n] = Layer(f[d], U, E)
                BY <1>1, <3>4, <3>5
            <3> QED
                BY <2>2, <3>6 DEF Layer
        <2>4. N \in 0..N /\ d <= N
            OBVIOUS
        <2>5. f[N] = f[d]
            BY <2>3, <2>4
        <2> QED
            BY <2>2, <2>5
    <1>3. CASE \A d \in 1..N : f[d] # f[d - 1]
        <2> DEFINE Bad == {d \in 0..N : ~(Cardinality(f[d]) >= d + 1)}
        <2>1. \A d \in 0..N : IsFiniteSet(f[d]) /\ Cardinality(f[d]) \in Nat
            BY <1>1, FS_Subset, FS_CardinalityType
        <2>2. Bad = {}
            <3>1. SUFFICES ASSUME Bad # {} PROVE FALSE
                OBVIOUS
            <3>2. PICK n \in Bad : \A m \in Bad : n <= m
                <4>1. Bad \in SUBSET (0..N)
                    OBVIOUS
                <4> HIDE DEF Bad
                <4> QED
                    BY <3>1, <4>1, LeastNumber
            <3>3. Cardinality(f[0]) # 0 /\ Cardinality(f[0]) \in Nat
                <4>1. 0 \in 0..N
                    OBVIOUS
                <4>2. IsFiniteSet(f[0]) /\ Cardinality(f[0]) \in Nat /\ f[0] # {}
                    BY <1>1, <2>1, <4>1
                <4> QED
                    BY <4>2, FS_EmptySet
            <3>4. n # 0
                BY <3>3
            <3>5. n \in 1..N /\ n - 1 \in 0..N /\ ~(n <= n - 1)
                BY <3>4
            <3>6. Cardinality(f[n - 1]) >= n
                BY <3>2, <3>5
            <3>7. f[n - 1] \subseteq f[n] /\ f[n - 1] # f[n]
                BY <1>1, <1>3, <3>5 DEF Layer
            <3>8. IsFiniteSet(f[n]) /\ Cardinality(f[n]) \in Nat /\ Cardinality(f[n - 1]) \in Nat
                BY <2>1, <3>5
            <3>9. Cardinality(f[n - 1]) <= Cardinality(f[n]) /\ Cardinality(f[n - 1]) # Cardinality(f[n])
                BY <3>7, <3>8, FS_Subset
            <3>10. Cardinality(f[n]) >= n + 1
                BY <3>5, <3>6, <3>8, <3>9
            <3> QED
                BY <3>10
        <2>3. N \in 0..N /\ Cardinality(f[N]) >= N + 1
            BY <2>2
        <2>4. f[N] \in SUBSET U
            BY <1>1, <2>3
        <2>5. Cardinality(f[N]) <= Cardinality(U) /\ Cardinality(U) \in Nat /\ Cardinality(f[N]) \in Nat
            BY <2>1, <2>3, <2>4, FS_Subset, FS_CardinalityType
        <2>6. Cardinality(U) = Cardinality(f[N])
            BY <2>3, <2>5
        <2>7. f[N] = U
            BY <2>4, <2>6, FS_Subset
        <2> QED
            BY <2>7
    <1> QED
        BY <1>2, <1>3

\* The first layer a node is in: the layer before it has one of its
\* predecessors.
FirstLayer(f, N, y) == Min({d \in 0..N : y \in f[d]})

Enters(f, N, A, E, y) ==
    LET D == FirstLayer(f, N, y)
    IN  /\ D \in 0..N /\ y \in f[D]
        /\ \A d \in 0..N : y \in f[d] => D <= d
        /\ D = 0 => y \in A
        /\ D # 0 => D - 1 \in 0..N /\ y \notin f[D - 1] /\ \E x \in f[D - 1] : <<x, y>> \in E

LEMMA SearchSteps ==
    ASSUME NEW N \in Nat, NEW U, NEW A \in SUBSET U, NEW E, NEW f, IsSearch(f, N, U, A, E),
           NEW y \in f[N]
    PROVE  Enters(f, N, A, E, y)
    <1> DEFINE T == {d \in 0..N : y \in f[d]}
               D == FirstLayer(f, N, y)
    <1>1. N \in T /\ T \in SUBSET Nat /\ D = Min(T)
        BY DEF FirstLayer
    <1> HIDE DEF T, D
    <1>2. D \in T /\ \A d \in T : D <= d
        BY <1>1, MinIs
    <1>3. D \in 0..N /\ y \in f[D] /\ \A d \in 0..N : y \in f[d] => D <= d
        BY <1>2 DEF T
    <1>0. Grows(f, N, U, A, E)
        BY SearchIs
    <1>4. D = 0 => y \in A
        BY <1>0, <1>3 DEF Grows
    <1>5. ASSUME D # 0
          PROVE  D - 1 \in 0..N /\ y \notin f[D - 1] /\ \E x \in f[D - 1] : <<x, y>> \in E
        <2>1. D \in 1..N /\ D - 1 \in 0..N /\ ~(D <= D - 1)
            BY <1>3, <1>5
        <2>2. y \notin f[D - 1]
            BY <1>3, <2>1
        <2>3. f[D] = Layer(f[D - 1], U, E)
            BY <1>0, <2>1 DEF Grows
        <2> QED
            BY <1>3, <2>1, <2>2, <2>3 DEF Layer
    <1> QED
        BY <1>3, <1>4, <1>5 DEF D, Enters

-----------------------------------------------------------------------------
(* The routes by names *)

GraphNames == {Root} \cup Packages

NameEdges(tree) ==
    {e \in GraphNames \X Served(tree) : e[1] \in NameParents(tree)[e[2]]}

LEMMA LabelIs ==
    ASSUME NEW tree \in LockfileTrees
    PROVE  /\ \A i \in Installs : Key[i] \in Seq(Packages) /\ Key[i] # <<>> /\ Last(Key[i]) \in Packages
           /\ Served(tree) \subseteq Packages
           /\ \A k \in Declarers(tree) : Label(k) \in GraphNames /\ k \in Seq(Packages)
           /\ \A n \in Served(tree) : NameParents(tree)[n] \subseteq GraphNames
    <1>1. \A i \in Installs : Key[i] \in Seq(Packages) /\ Key[i] # <<>> /\ Last(Key[i]) \in Packages
        BY KeyAssumption DEF Last
    <1>2. Served(tree) \subseteq Packages
        BY <1>1 DEF Served, Parseable
    <1>3. \A k \in Declarers(tree) : Label(k) \in GraphNames /\ k \in Seq(Packages)
        <2>1. Label(<<>>) \in GraphNames /\ <<>> \in Seq(Packages)
            BY DEF Label, GraphNames
        <2>2. \A i \in Installs : Label(Key[i]) \in GraphNames /\ Key[i] \in Seq(Packages)
            BY <1>1 DEF Label, GraphNames
        <2> QED
            BY <2>1, <2>2 DEF Declarers
    <1>4. \A n \in Served(tree) : NameParents(tree)[n] \subseteq GraphNames
        BY <1>3 DEF NameParents
    <1> QED
        BY <1>1, <1>2, <1>3, <1>4

LEMMA WithinIs ==
    ASSUME NEW tree \in LockfileTrees
    PROVE  IsSearch(Within(tree), Cardinality(Packages), GraphNames, {Root}, NameEdges(tree))
    <1> DEFINE C == Cardinality(Packages)
               E == NameEdges(tree)
               parents == NameParents(tree)
               Body(near) == [d \in 0..C |->
                   IF d = 0 THEN {Root}
                   ELSE near[d - 1] \cup {n \in DOMAIN parents : parents[n] \cap near[d - 1] # {}}]
    <1>1. \A S : {n \in DOMAIN parents : parents[n] \cap S # {}} =
                 {y \in GraphNames : \E x \in S : <<x, y>> \in E}
        BY LabelIs DEF NameEdges, NameParents, GraphNames
    <1>2. \A near : (near = Body(near)) <=> IsSearch(near, C, GraphNames, {Root}, E)
        BY <1>1 DEF IsSearch, Layer
    <1>3. C \in Nat /\ {Root} \in SUBSET GraphNames
        BY FinitenessAssumption, FS_CardinalityType DEF GraphNames
    <1>4. PICK g : IsSearch(g, C, GraphNames, {Root}, E)
        BY <1>3, SearchExists
    <1>5. Within(tree) = CHOOSE near : near = Body(near)
        BY DEF Within
    <1> HIDE DEF Body
    <1> QED
        BY <1>2, <1>4, <1>5

\* A path along parents, given as the sets of those who declare a name: it
\* starts at the root, and each of its further names is declared by the one
\* before.
IsRoute(path, parents, n) ==
    /\ path \in Seq(GraphNames) /\ path # <<>>
    /\ path[1] = Root /\ path[Len(path)] = n
    /\ \A s \in 1..(Len(path) - 1) :
          path[s + 1] \in DOMAIN parents /\ path[s] \in parents[path[s + 1]]

LEMMA RootIsRoute ==
    ASSUME NEW parents
    PROVE  IsRoute(<<Root>>, parents, Root)
    <1>1. /\ <<Root>> \in Seq(GraphNames) /\ <<Root>> # <<>> /\ Len(<<Root>>) = 1
          /\ <<Root>>[1] = Root
        BY DEF GraphNames
    <1> QED
        BY <1>1 DEF IsRoute

LEMMA RouteExtends ==
    ASSUME NEW parents, NEW path, NEW p, IsRoute(path, parents, p),
           NEW n \in GraphNames, n \in DOMAIN parents, p \in parents[n]
    PROVE  IsRoute(Append(path, n), parents, n)
    <1> DEFINE L == Len(path)
               longer == Append(path, n)
    <1>1. path \in Seq(GraphNames) /\ L \in Nat /\ L >= 1 /\ path[1] = Root /\ path[L] = p
        BY DEF IsRoute
    <1>2. /\ longer \in Seq(GraphNames) /\ Len(longer) = L + 1 /\ longer[L + 1] = n
          /\ \A s \in 1..L : longer[s] = path[s]
        BY <1>1
    <1>3. \A s \in 1..(L - 1) : path[s + 1] \in DOMAIN parents /\ path[s] \in parents[path[s + 1]]
        BY DEF IsRoute
    <1> HIDE DEF longer, L
    <1>4. ASSUME NEW s \in 1..L
          PROVE  longer[s + 1] \in DOMAIN parents /\ longer[s] \in parents[longer[s + 1]]
        <2>1. CASE s = L
            BY <1>1, <1>2, <2>1
        <2>2. CASE s # L
            <3>1. s \in 1..(L - 1) /\ s + 1 \in 1..L
                BY <1>1, <2>2
            <3> QED
                BY <1>2, <1>3, <3>1
        <2> QED
            BY <2>1, <2>2
    <1>5. longer[1] = Root /\ longer # <<>> /\ Len(longer) - 1 = L
        BY <1>1, <1>2
    <1> QED
        BY <1>2, <1>4, <1>5 DEF IsRoute, longer

\* The routes that follow the predecessors P back to the root.
Follows(g, S, P) ==
    g = [n \in S |-> IF n = Root THEN <<Root>> ELSE Append(g[P[n]], n)]

\* There are such routes where a predecessor is nearer to the root.
LEMMA RoutesExist ==
    ASSUME NEW N \in Nat, NEW S, NEW P, NEW D \in [S -> 0..N],
           \A n \in S \ {Root} : P[n] \in S /\ D[P[n]] < D[n]
    PROVE  \E g : Follows(g, S, P)
    <1> DEFINE To(d) == {n \in S : D[n] <= d}
               Bad == {d \in 0..N : ~\E g : Follows(g, To(d), P)}
    <1>1. SUFFICES Bad = {}
        <2>1. To(N) = S /\ N \in 0..N
            OBVIOUS
        <2> QED
            BY <2>1
    <1>2. SUFFICES ASSUME Bad # {} PROVE FALSE
        OBVIOUS
    <1>3. PICK n \in Bad : \A m \in Bad : n <= m
        <2>1. Bad \in SUBSET (0..N)
            OBVIOUS
        <2> HIDE DEF Bad
        <2> QED
            BY <1>2, <2>1, LeastNumber
    <1>4. \A k \in S : D[k] \in Nat
        OBVIOUS
    <1>5. CASE n = 0
        <2>1. \A k \in To(0) : k = Root
            BY <1>4
        <2> HIDE DEF To
        <2>2. [k \in To(0) |-> <<Root>>] =
              [k \in To(0) |-> IF k = Root THEN <<Root>>
                               ELSE Append([j \in To(0) |-> <<Root>>][P[k]], k)]
            BY <2>1
        <2>3. Follows([k \in To(0) |-> <<Root>>], To(0), P)
            BY <2>2 DEF Follows
        <2> QED
            BY <1>3, <1>5, <2>3
    <1>6. CASE n # 0
        <2>1. n \in Nat /\ n - 1 \in 0..N /\ ~(n <= n - 1)
            BY <1>6
        <2>2. PICK f : Follows(f, To(n - 1), P)
            BY <1>3, <2>1
        <2>3. \A k \in To(n - 1) : f[k] = IF k = Root THEN <<Root>> ELSE Append(f[P[k]], k)
            BY <2>2 DEF Follows
        <2>4. \A k \in To(n) \ {Root} : P[k] \in To(n - 1)
            BY <1>4, <2>1
        <2>5. To(n - 1) \subseteq To(n)
            BY <1>4, <2>1
        <2> HIDE DEF To
        <2> DEFINE g == [k \in To(n) |->
                            IF k \in To(n - 1) THEN f[k]
                            ELSE IF k = Root THEN <<Root>> ELSE Append(f[P[k]], k)]
        <2>6. \A k \in To(n) : g[k] = IF k = Root THEN <<Root>> ELSE Append(g[P[k]], k)
            <3> SUFFICES ASSUME NEW k \in To(n)
                         PROVE  g[k] = IF k = Root THEN <<Root>> ELSE Append(g[P[k]], k)
                OBVIOUS
            <3>1. g[k] = IF k = Root THEN <<Root>> ELSE Append(f[P[k]], k)
                BY <2>3
            <3>2. k # Root => g[P[k]] = f[P[k]]
                BY <2>4, <2>5
            <3> HIDE DEF g
            <3> QED
                BY <3>1, <3>2
        <2>7. g = [k \in To(n) |-> g[k]]
            OBVIOUS
        <2>8. g = [k \in To(n) |-> IF k = Root THEN <<Root>> ELSE Append(g[P[k]], k)]
            <3> HIDE DEF g
            <3> QED
                BY <2>6, <2>7
        <2>9. Follows(g, To(n), P)
            BY <2>8 DEF Follows
        <2> QED
            BY <1>3, <2>9
    <1> QED
        BY <1>5, <1>6

\* How many declarations a name is away from the project.
Distance(tree, n) == Min({d \in 0..Cardinality(Packages) : n \in Within(tree)[d]})

Reachable(tree) == Within(tree)[Cardinality(Packages)]

\* Of the shortest distance, and the predecessors one declaration nearer.
LEMMA DistanceIs ==
    ASSUME NEW tree \in LockfileTrees, NEW n \in Reachable(tree)
    PROVE  LET D == Distance(tree, n)
           IN  /\ D \in 0..Cardinality(Packages) /\ n \in Within(tree)[D]
               /\ \A d \in 0..Cardinality(Packages) : n \in Within(tree)[d] => D <= d
               /\ D = 0 <=> n = Root
               /\ D # 0 =>
                    /\ D - 1 \in 0..Cardinality(Packages)
                    /\ D \in 1..Cardinality(Packages)
                    /\ n \in Served(tree)
                    /\ NameParents(tree)[n] \cap Within(tree)[D - 1] # {}
    <1> DEFINE C == Cardinality(Packages)
               near == Within(tree)
               E == NameEdges(tree)
               D == Distance(tree, n)
    <1>1. C \in Nat /\ {Root} \in SUBSET GraphNames
        BY FinitenessAssumption, FS_CardinalityType DEF GraphNames
    <1>2. IsSearch(near, C, GraphNames, {Root}, E)
        BY WithinIs
    <1>3. Grows(near, C, GraphNames, {Root}, E)
        BY <1>1, <1>2, SearchIs
    <1>4. near[0] = {Root} /\ 0 \in 0..C
        BY <1>1, <1>3 DEF Grows
    <1>5. /\ D \in 0..C /\ n \in near[D]
          /\ \A d \in 0..C : n \in near[d] => D <= d
          /\ D = 0 => n \in {Root}
          /\ D # 0 => D - 1 \in 0..C /\ n \notin near[D - 1] /\ \E x \in near[D - 1] : <<x, n>> \in E
        <2>1. n \in near[C] /\ D = FirstLayer(near, C, n)
            BY DEF Reachable, Distance, FirstLayer
        <2> HIDE DEF C, near, E, D
        <2>2. Enters(near, C, {Root}, E, n)
            BY <1>1, <1>2, <2>1, SearchSteps
        <2> QED
            BY <2>1, <2>2 DEF Enters
    <1>6. n = Root => D = 0
        BY <1>1, <1>4, <1>5
    <1>7. ASSUME D # 0 PROVE n \in Served(tree) /\ NameParents(tree)[n] \cap near[D - 1] # {}
        BY <1>5, <1>7 DEF NameEdges
    <1> QED
        BY <1>5, <1>6, <1>7

\* A declaration is a step of the search, and none is left out.
LEMMA WithinSteps ==
    ASSUME NEW tree \in LockfileTrees, NEW n \in Served(tree), NEW p \in NameParents(tree)[n]
    PROVE  /\ \A d \in 1..Cardinality(Packages) :
                 p \in Within(tree)[d - 1] => n \in Within(tree)[d]
           /\ p \in Reachable(tree) => n \in Reachable(tree)
    <1> DEFINE C == Cardinality(Packages)
               near == Within(tree)
               E == NameEdges(tree)
    <1>1. C \in Nat /\ {Root} \in SUBSET GraphNames /\ IsFiniteSet(GraphNames)
          /\ Cardinality(GraphNames) <= C + 1
        <2>1. Root \notin Packages /\ IsFiniteSet(Packages) /\ GraphNames = Packages \cup {Root}
            BY KeyAssumption, FinitenessAssumption DEF GraphNames
        <2>2. C \in Nat
            BY <2>1, FS_CardinalityType
        <2>3. IsFiniteSet(GraphNames) /\ Cardinality(GraphNames) = C + 1
            BY <2>1, FS_AddElement
        <2> QED
            BY <2>1, <2>2, <2>3
    <1>2. IsSearch(near, C, GraphNames, {Root}, E)
        BY WithinIs
    <1>3. <<p, n>> \in E /\ p \in GraphNames /\ n \in GraphNames
        BY LabelIs DEF NameEdges, GraphNames
    <1>4. Grows(near, C, GraphNames, {Root}, E)
        BY <1>1, <1>2, SearchIs
    <1>5. ASSUME NEW d \in 1..C, p \in near[d - 1] PROVE n \in near[d]
        BY <1>3, <1>4, <1>5 DEF Grows, Layer
    <1>6. ASSUME p \in Reachable(tree) PROVE n \in Reachable(tree)
        <2>1. p \in near[C]
            BY <1>6 DEF Reachable
        <2> HIDE DEF near, C, E
        <2>2. \A x \in near[C], y \in GraphNames : <<x, y>> \in E => y \in near[C]
            BY <1>1, <1>2, SearchCloses
        <2>3. n \in near[C]
            BY <1>3, <2>1, <2>2
        <2> QED
            BY <2>3 DEF near, C, Reachable
    <1> QED
        BY <1>5, <1>6

\* RouteTo is such a choice of routes, along Pred.
Pred(tree, n) == Min({p \in NameParents(tree)[n] \cap Within(tree)[Distance(tree, n) - 1] : TRUE})

LEMMA PredIs ==
    ASSUME NEW tree \in LockfileTrees, NEW n \in Reachable(tree), n # Root
    PROVE  LET p == Pred(tree, n)
           IN  /\ n \in Served(tree) /\ p \in NameParents(tree)[n] /\ p \in Reachable(tree)
               /\ Distance(tree, n) = Distance(tree, p) + 1
               /\ Distance(tree, p) \in Nat /\ Distance(tree, n) \in Nat
    <1> DEFINE C == Cardinality(Packages)
               near == Within(tree)
               D == Distance(tree, n)
               S == NameParents(tree)[n] \cap near[D - 1]
               p == Pred(tree, n)
    <1>1. /\ D \in 1..C /\ D - 1 \in 0..C
          /\ n \in Served(tree) /\ S # {}
        BY DistanceIs
    <1>2. S \in SUBSET Nat
        BY <1>1, LabelIs, KeyAssumption, NumbersAssumption DEF GraphNames
    <1>3. p = Min(S)
        <2>1. S = {q \in S : TRUE}
            OBVIOUS
        <2> QED
            BY <2>1 DEF Pred
    <1>4. p \in S
        <2> HIDE DEF S, p
        <2> QED
            BY <1>1, <1>2, <1>3, MinIs
    <1>5. p \in Reachable(tree)
        <2>1. C \in Nat /\ {Root} \in SUBSET GraphNames
            BY FinitenessAssumption, FS_CardinalityType DEF GraphNames
        <2>2. IsSearch(near, C, GraphNames, {Root}, NameEdges(tree))
            BY WithinIs
        <2>3. Grows(near, C, GraphNames, {Root}, NameEdges(tree))
            BY <2>1, <2>2, SearchIs
        <2>4. near[D - 1] \subseteq near[C]
            BY <1>1, <2>3 DEF Grows
        <2> QED
            BY <1>4, <2>4 DEF Reachable
    <1>6. Distance(tree, p) <= D - 1 /\ Distance(tree, p) \in 0..C /\ p \in near[Distance(tree, p)]
        <2> HIDE DEF p, D
        <2>1. p \in near[D - 1]
            BY <1>4
        <2> QED
            BY <1>1, <1>5, <2>1, DistanceIs
    <1>7. D <= Distance(tree, p) + 1
        <2> DEFINE e == Distance(tree, p) + 1
        <2>0. C \in Nat
            BY FinitenessAssumption, FS_CardinalityType
        <2>1. e \in 1..C /\ e \in 0..C /\ e - 1 = Distance(tree, p)
            BY <1>1, <1>6, <2>0
        <2> HIDE DEF p, D, e
        <2>2. p \in near[e - 1]
            BY <1>6, <2>1
        <2>3. n \in near[e]
            BY <1>1, <1>4, <2>1, <2>2, WithinSteps
        <2>4. D <= e
            BY <2>1, <2>3, DistanceIs DEF D
        <2> QED
            BY <2>4 DEF e
    <1>8. D = Distance(tree, p) + 1 /\ Distance(tree, p) \in Nat /\ D \in Nat
        BY <1>1, <1>6, <1>7
    <1> QED
        BY <1>1, <1>4, <1>5, <1>8

LEMMA RouteToIs ==
    ASSUME NEW tree \in LockfileTrees
    PROVE  Follows(RouteTo(tree), Reachable(tree), [n \in Reachable(tree) |-> Pred(tree, n)])
    <1> DEFINE C == Cardinality(Packages)
               S == Reachable(tree)
               P == [n \in S |-> Pred(tree, n)]
               D == [n \in S |-> Distance(tree, n)]
               Body(route) == [n \in S |-> IF n = Root THEN <<Root>>
                                           ELSE Append(route[Pred(tree, n)], n)]
    <1>1. C \in Nat
        BY FinitenessAssumption, FS_CardinalityType
    <1>2. D \in [S -> 0..C]
        BY DistanceIs
    <1>3. \A n \in S \ {Root} : P[n] \in S /\ D[P[n]] < D[n]
        BY PredIs
    <1>4. PICK g : Follows(g, S, P)
        <2> HIDE DEF C, S, P, D
        <2> QED
            BY <1>1, <1>2, <1>3, RoutesExist
    <1>5. \A route : route = Body(route) <=> Follows(route, S, P)
        <2> SUFFICES ASSUME NEW route
                     PROVE  route = Body(route) <=> Follows(route, S, P)
            OBVIOUS
        <2>1. Body(route) = [n \in S |-> IF n = Root THEN <<Root>> ELSE Append(route[P[n]], n)]
            OBVIOUS
        <2> HIDE DEF Body
        <2> QED
            BY <2>1 DEF Follows
    <1>6. RouteTo(tree) = CHOOSE route : route = Body(route)
        BY DEF RouteTo, Reachable, Pred, Distance
    <1> HIDE DEF Body
    <1> QED
        BY <1>4, <1>5, <1>6

\* Every name that can be reached has a route, of the length of its distance.
LEMMA RoutesLead ==
    ASSUME NEW tree \in LockfileTrees
    PROVE  /\ DOMAIN RouteTo(tree) = Reachable(tree)
           /\ \A n \in Reachable(tree) :
                 /\ IsRoute(RouteTo(tree)[n], NameParents(tree), n)
                 /\ Len(RouteTo(tree)[n]) = Distance(tree, n) + 1
    <1> DEFINE C == Cardinality(Packages)
               S == Reachable(tree)
               P == [n \in S |-> Pred(tree, n)]
               r == RouteTo(tree)
               Good(n) == /\ IsRoute(r[n], NameParents(tree), n)
                          /\ Len(r[n]) = Distance(tree, n) + 1
               Bad == {d \in 0..C : \E n \in S : Distance(tree, n) = d /\ ~Good(n)}
    <1>1. C \in Nat
        BY FinitenessAssumption, FS_CardinalityType
    <1>2. Follows(r, S, P)
        BY RouteToIs
    <1>3. \A n \in S : r[n] = IF n = Root THEN <<Root>> ELSE Append(r[Pred(tree, n)], n)
        BY <1>2 DEF Follows
    <1>4. DOMAIN r = S
        BY <1>2 DEF Follows
    <1>5. \A n \in S : Distance(tree, n) \in 0..C /\ (n = Root => Distance(tree, n) = 0)
        BY DistanceIs
    <1> HIDE DEF r
    <1>6. Bad = {}
        <2>1. SUFFICES ASSUME Bad # {} PROVE FALSE
            OBVIOUS
        <2>2. PICK d \in Bad : \A m \in Bad : d <= m
            <3>1. Bad \in SUBSET (0..C)
                OBVIOUS
            <3> HIDE DEF Bad, C
            <3> QED
                BY <1>1, <2>1, <3>1, LeastNumber
        <2>3. PICK n \in S : Distance(tree, n) = d /\ ~Good(n)
            OBVIOUS
        <2>4. CASE n = Root
            <3>1. r[n] = <<Root>> /\ Distance(tree, n) = 0
                BY <1>3, <1>5, <2>4
            <3>2. IsRoute(<<Root>>, NameParents(tree), Root)
                BY RootIsRoute
            <3> QED
                BY <2>3, <2>4, <3>1, <3>2
        <2>5. CASE n # Root
            <3> DEFINE p == Pred(tree, n)
            <3>1. /\ n \in Served(tree) /\ p \in NameParents(tree)[n] /\ p \in S
                  /\ d = Distance(tree, p) + 1 /\ Distance(tree, p) \in Nat
                BY <2>3, <2>5, PredIs
            <3> HIDE DEF p
            <3>2. Distance(tree, p) \in 0..C /\ ~(d <= Distance(tree, p))
                BY <1>5, <3>1
            <3>3. Good(p)
                BY <2>2, <3>1, <3>2
            <3>4. n \in GraphNames /\ n \in DOMAIN NameParents(tree)
                BY <3>1, LabelIs DEF GraphNames, NameParents
            <3>5. IsRoute(Append(r[p], n), NameParents(tree), n)
                BY <3>1, <3>3, <3>4, RouteExtends
            <3>6. r[n] = Append(r[p], n)
                BY <1>3, <2>5 DEF p
            <3>7. Len(r[n]) = Len(r[p]) + 1
                BY <3>3, <3>4, <3>6 DEF IsRoute
            <3> QED
                BY <2>3, <3>1, <3>3, <3>5, <3>6, <3>7
        <2> QED
            BY <2>4, <2>5
    <1> QED
        BY <1>4, <1>5, <1>6 DEF r

\* The route the parser works out for a name is a shortest one
\* (_bfs_shortest_pred): no path of declarations from the project to it is
\* shorter, and a name with a path has a route.  What is shown of an install is
\* the route of the first of its parents, and itself (_canonical_display_path).
THEOREM RoutesAreShortest ==
    ASSUME NEW tree \in LockfileTrees, NEW n, NEW path, IsRoute(path, NameParents(tree), n)
    PROVE  /\ n \in DOMAIN RouteTo(tree)
           /\ IsRoute(RouteTo(tree)[n], NameParents(tree), n)
           /\ Len(RouteTo(tree)[n]) <= Len(path)
    <1> DEFINE C == Cardinality(Packages)
               near == Within(tree)
               L == Len(path)
               Bad == {s \in 0..L : s # 0 /\ ~(/\ path[s] \in Reachable(tree)
                                               /\ s - 1 <= C => path[s] \in near[s - 1])}
    <1>1. C \in Nat /\ {Root} \in SUBSET GraphNames
        BY FinitenessAssumption, FS_CardinalityType DEF GraphNames
    <1>2. near[0] = {Root} /\ near[0] \subseteq Reachable(tree)
        <2>1. IsSearch(near, C, GraphNames, {Root}, NameEdges(tree))
            BY WithinIs
        <2>2. Grows(near, C, GraphNames, {Root}, NameEdges(tree))
            BY <1>1, <2>1, SearchIs
        <2>3. 0 \in 0..C
            BY <1>1
        <2> QED
            BY <2>2, <2>3 DEF Grows, Reachable
    <1>3. /\ L \in Nat /\ L >= 1 /\ path[1] = Root /\ path[L] = n
          /\ \A s \in 1..(L - 1) : /\ path[s + 1] \in Served(tree)
                                   /\ path[s] \in NameParents(tree)[path[s + 1]]
        <2>1. DOMAIN NameParents(tree) = Served(tree)
            BY DEF NameParents
        <2> QED
            BY <2>1 DEF IsRoute
    <1> HIDE DEF L, near, C
    <1>4. Bad = {}
        <2>1. SUFFICES ASSUME Bad # {} PROVE FALSE
            OBVIOUS
        <2>2. PICK s \in Bad : \A m \in Bad : s <= m
            <3>1. Bad \in SUBSET (0..L)
                OBVIOUS
            <3> HIDE DEF Bad
            <3> QED
                BY <1>3, <2>1, <3>1, LeastNumber
        <2>3. s # 1
            BY <1>1, <1>2, <1>3
        <2> DEFINE t == s - 1
        <2>4. t \in 1..(L - 1) /\ t \in 0..L /\ s = t + 1 /\ ~(s <= t) /\ t # 0
            BY <1>3, <2>3
        <2>5. t \notin Bad
            BY <2>2, <2>4
        <2>6. path[t] \in Reachable(tree) /\ (t - 1 <= C => path[t] \in near[t - 1])
            BY <2>4, <2>5
        <2>7. path[s] \in Served(tree) /\ path[t] \in NameParents(tree)[path[s]]
            BY <1>3, <2>4
        <2>8. path[s] \in Reachable(tree)
            BY <2>6, <2>7, WithinSteps
        <2>9. s - 1 <= C => path[s] \in near[s - 1]
            <3>1. SUFFICES ASSUME t <= C PROVE path[s] \in near[t]
                OBVIOUS
            <3>2. t \in 1..C /\ t - 1 <= C
                BY <1>1, <2>4, <3>1
            <3>3. path[t] \in near[t - 1]
                BY <2>6, <3>2
            <3> HIDE DEF t
            <3> QED
                BY <2>7, <3>2, <3>3, WithinSteps DEF near, C
        <2> QED
            BY <2>8, <2>9
    <1>5. n \in Reachable(tree) /\ (L - 1 <= C => n \in near[L - 1])
        <2>1. L \in 0..L /\ L # 0
            BY <1>3
        <2> QED
            BY <1>3, <1>4, <2>1
    <1>6. /\ n \in DOMAIN RouteTo(tree)
          /\ IsRoute(RouteTo(tree)[n], NameParents(tree), n)
          /\ Len(RouteTo(tree)[n]) = Distance(tree, n) + 1
        BY <1>5, RoutesLead
    <1>7. Distance(tree, n) \in 0..C /\ (L - 1 \in 0..C => Distance(tree, n) <= L - 1)
        BY <1>1, <1>3, <1>5, DistanceIs DEF near, C
    <1>8. Distance(tree, n) + 1 <= L
        BY <1>1, <1>3, <1>7
    <1> QED
        BY <1>6, <1>8 DEF L

-----------------------------------------------------------------------------
(* Installs: the nearest enclosing node_modules *)

LEMMA SameSequence ==
    ASSUME NEW S, NEW a \in Seq(S), NEW b \in Seq(S), Len(a) = Len(b),
           \A s \in 1..Len(a) : a[s] = b[s]
    PROVE  a = b
    OBVIOUS

LEMMA PrefixOf ==
    ASSUME NEW S, NEW a \in Seq(S), NEW n \in 0..Len(a)
    PROVE  /\ SubSeq(a, 1, n) \in Seq(S) /\ Len(SubSeq(a, 1, n)) = n
           /\ \A s \in 1..n : SubSeq(a, 1, n)[s] = a[s]
    OBVIOUS

\* The key of name n levels down the chain key.
Host(key, n, name) == Append(SubSeq(key, 1, n), name)

LEMMA HostIs ==
    ASSUME NEW key \in Seq(Packages), NEW name \in Packages, NEW n \in 0..Len(key)
    PROVE  /\ Host(key, n, name) \in Seq(Packages) /\ Len(Host(key, n, name)) = n + 1
           /\ Last(Host(key, n, name)) = name /\ IsPrefix(Front(Host(key, n, name)), key)
    <1> DEFINE host == SubSeq(key, 1, n)
    <1>1. host \in Seq(Packages) /\ Len(host) = n /\ \A s \in 1..n : host[s] = key[s]
        BY PrefixOf
    <1> HIDE DEF host
    <1>2. /\ Append(host, name) \in Seq(Packages) /\ Len(Append(host, name)) = n + 1
          /\ Append(host, name)[n + 1] = name
          /\ \A s \in 1..n : Append(host, name)[s] = host[s]
        BY <1>1
    <1> DEFINE front == SubSeq(Append(host, name), 1, n)
    <1>3. front \in Seq(Packages) /\ Len(front) = n
          /\ \A s \in 1..n : front[s] = Append(host, name)[s]
        <2>1. n \in 0..Len(Append(host, name))
            BY <1>2
        <2> QED
            BY <1>2, <2>1, PrefixOf
    <1> HIDE DEF front
    <1>4. front = host
        BY <1>1, <1>2, <1>3, SameSequence
    <1>5. SubSeq(host, 1, n) = host
        <2>1. /\ SubSeq(host, 1, n) \in Seq(Packages) /\ Len(SubSeq(host, 1, n)) = n
              /\ \A s \in 1..n : SubSeq(host, 1, n)[s] = host[s]
            BY <1>1, PrefixOf
        <2> QED
            BY <1>1, <2>1, SameSequence
    <1>6. Front(Append(host, name)) = host
        BY <1>2, <1>4 DEF Front, front
    <1>7. IsPrefix(host, key)
        BY <1>1, <1>5 DEF IsPrefix, host
    <1> QED
        BY <1>2, <1>6, <1>7 DEF Last, Host, host

\* What is seen from key is the host of one of its levels.
LEMMA SeenIsHost ==
    ASSUME NEW key \in Seq(Packages), NEW chain \in Seq(Packages), chain # <<>>,
           IsPrefix(Front(chain), key)
    PROVE  /\ Len(chain) - 1 \in 0..Len(key)
           /\ chain = Host(key, Len(chain) - 1, Last(chain))
    <1> DEFINE L == Len(chain) - 1
               name == Last(chain)
               front == SubSeq(chain, 1, L)
               host == SubSeq(key, 1, L)
    <1>1. /\ chain \in Seq(Packages) /\ Len(chain) = L + 1 /\ L \in Nat /\ chain[L + 1] = name
          /\ name \in Packages
        BY DEF Last
    <1>2. Front(chain) = front
        BY DEF Front
    <1>3. front \in Seq(Packages) /\ Len(front) = L /\ \A s \in 1..L : front[s] = chain[s]
        <2> HIDE DEF L
        <2>1. L \in 0..Len(chain)
            BY <1>1
        <2> QED
            BY <2>1, PrefixOf
    <1> HIDE DEF front, L, name
    <1>4. L <= Len(key) /\ SubSeq(front, 1, L) = SubSeq(key, 1, L)
        BY <1>2, <1>3 DEF IsPrefix
    <1>5. L \in 0..Len(key) /\ L \in 0..Len(front)
        BY <1>1, <1>3, <1>4
    <1>6. \A s \in 1..L : SubSeq(front, 1, L)[s] = front[s]
        BY <1>3, <1>5, PrefixOf
    <1>7. host \in Seq(Packages) /\ Len(host) = L
        BY <1>5, PrefixOf
    <1>8. \A s \in 1..L : host[s] = chain[s]
        BY <1>3, <1>4, <1>6
    <1> HIDE DEF host
    <1>9. /\ Append(host, name) \in Seq(Packages) /\ Len(Append(host, name)) = L + 1
          /\ Append(host, name)[L + 1] = name
          /\ \A s \in 1..L : Append(host, name)[s] = host[s]
        BY <1>1, <1>7
    <1>10. \A s \in 1..(L + 1) : Append(host, name)[s] = chain[s]
        <2> SUFFICES ASSUME NEW s \in 1..(L + 1) PROVE Append(host, name)[s] = chain[s]
            OBVIOUS
        <2>1. s \in 1..L \/ s = L + 1
            BY <1>1
        <2> QED
            BY <1>1, <1>8, <1>9, <2>1
    <1>11. Append(host, name) = chain
        BY <1>1, <1>9, <1>10, SameSequence
    <1> QED
        BY <1>5, <1>11 DEF Host, host, L, name

Hosts(tree, key, name) ==
    {n \in 0..Len(key) : \E j \in Parseable(tree) : Key[j] = Host(key, n, name)}

LEMMA ResolveIs ==
    ASSUME NEW tree \in LockfileTrees, NEW key \in Seq(Packages), NEW name \in Packages
    PROVE  \/ Hosts(tree, key, name) = {} /\ Resolve(tree, key, name) = <<>>
           \/ \E m \in Hosts(tree, key, name) :
                 /\ Resolve(tree, key, name) = Host(key, m, name)
                 /\ \A n \in Hosts(tree, key, name) : n <= m
    <1> DEFINE hosts == Hosts(tree, key, name)
               m == Max(hosts)
    <1>1. Resolve(tree, key, name) = IF hosts = {} THEN <<>> ELSE Host(key, m, name)
        BY DEF Resolve, Hosts, Host
    <1>2. hosts \in SUBSET (0..Len(key)) /\ Len(key) \in Nat
        BY DEF Hosts
    <1> HIDE DEF hosts
    <1>3. ASSUME hosts # {} PROVE m \in hosts /\ \A n \in hosts : n <= m
        <2>1. m \in hosts /\ \A n \in hosts : m >= n
            BY <1>2, <1>3, MaxIs
        <2>2. \A n \in hosts : n \in Nat
            BY <1>2
        <2> QED
            BY <2>1, <2>2
    <1> QED
        BY <1>1, <1>3 DEF hosts

\* Walking up from whoever declares a name, the parser finds the install that
\* npm's rule names, and none exactly when no enclosing node_modules has it.
THEOREM ResolveFollowsNpm ==
    ASSUME NEW tree \in LockfileTrees, NEW key \in Seq(Packages), NEW name \in Packages
    PROVE  /\ \A i \in Installs :
                 Serves(tree, i, key, name) <=>
                    i \in Parseable(tree) /\ Resolve(tree, key, name) = Key[i]
           /\ Resolve(tree, key, name) = <<>> <=> ~\E i \in Installs : Serves(tree, i, key, name)
    <1> DEFINE hosts == Hosts(tree, key, name)
               Sees(j) == Last(Key[j]) = name /\ IsPrefix(Front(Key[j]), key)
    <1>1. \A j \in Parseable(tree) : j \in Installs /\ Key[j] \in Seq(Packages) /\ Key[j] # <<>>
        BY LabelIs DEF Parseable
    <1>2. ASSUME NEW j \in Parseable(tree), Sees(j)
          PROVE  /\ Len(Key[j]) - 1 \in hosts
                 /\ Key[j] = Host(key, Len(Key[j]) - 1, name)
        <2>1. /\ Len(Key[j]) - 1 \in 0..Len(key)
              /\ Key[j] = Host(key, Len(Key[j]) - 1, name)
            BY <1>1, <1>2, SeenIsHost
        <2> QED
            BY <2>1 DEF Hosts
    <1>3. ASSUME NEW j \in Parseable(tree), NEW n \in hosts, Key[j] = Host(key, n, name)
          PROVE  Sees(j) /\ Len(Key[j]) = n + 1
        <2>1. n \in 0..Len(key)
            BY DEF Hosts
        <2> QED
            BY <1>3, <2>1, HostIs
    <1>4. \A n \in hosts : n \in Nat /\ \E j \in Parseable(tree) : Key[j] = Host(key, n, name)
        BY DEF Hosts
    <1>5. \A j \in Parseable(tree) : Len(Key[j]) \in Nat
        BY <1>1
    <1>6. \A i \in Installs : Serves(tree, i, key, name) <=>
             /\ i \in Parseable(tree) /\ Sees(i)
             /\ \A j \in Parseable(tree) : Sees(j) => Len(Key[j]) <= Len(Key[i])
        BY DEF Serves
    <1> HIDE DEF hosts, Sees
    <1>7. \/ hosts = {} /\ Resolve(tree, key, name) = <<>>
          \/ \E m \in hosts : /\ Resolve(tree, key, name) = Host(key, m, name)
                              /\ \A n \in hosts : n <= m
        BY ResolveIs DEF hosts
    <1>8. CASE hosts = {} /\ Resolve(tree, key, name) = <<>>
        <2>1. \A i \in Installs : ~Serves(tree, i, key, name)
            BY <1>2, <1>6, <1>8
        <2> QED
            BY <1>1, <1>8, <2>1
    <1>9. ASSUME NEW m \in hosts, Resolve(tree, key, name) = Host(key, m, name),
                 \A n \in hosts : n <= m
          PROVE  /\ \A i \in Installs :
                       Serves(tree, i, key, name) <=>
                          i \in Parseable(tree) /\ Resolve(tree, key, name) = Key[i]
                 /\ Resolve(tree, key, name) # <<>>
                 /\ \E i \in Installs : Serves(tree, i, key, name)
        <2>1. PICK i \in Parseable(tree) : Key[i] = Host(key, m, name)
            BY <1>4
        <2>2. Sees(i) /\ Len(Key[i]) = m + 1 /\ m \in Nat
            BY <1>3, <1>4, <2>1
        <2>3. ASSUME NEW j \in Parseable(tree), Sees(j)
              PROVE  Len(Key[j]) <= Len(Key[i])
            <3>1. Len(Key[j]) - 1 <= m
                BY <1>2, <1>9, <2>3
            <3> QED
                BY <1>5, <2>2, <3>1
        <2>4. Serves(tree, i, key, name) /\ i \in Installs
            BY <1>1, <1>6, <2>2, <2>3
        <2>5. ASSUME NEW j \in Installs, Serves(tree, j, key, name) PROVE j = i
            <3>1. j \in Parseable(tree) /\ Sees(j) /\ Len(Key[i]) <= Len(Key[j])
                BY <1>6, <2>2, <2>5
            <3>2. Len(Key[j]) = m + 1
                BY <1>5, <2>2, <2>3, <3>1
            <3>3. Len(Key[j]) - 1 = m
                BY <2>2, <3>2
            <3>4. Key[j] = Key[i]
                BY <1>2, <2>1, <3>1, <3>3
            <3> QED
                BY <1>1, <2>4, <3>4, KeyAssumption
        <2>6. ASSUME NEW j \in Parseable(tree), Key[j] = Key[i] PROVE j = i
            BY <1>1, <2>6, KeyAssumption
        <2> QED
            BY <1>1, <1>9, <2>1, <2>4, <2>5, <2>6
    <1> QED
        BY <1>7, <1>8, <1>9

-----------------------------------------------------------------------------
(* What is worked out from names and what from installs *)

LEMMA ParseableIs ==
    ASSUME NEW tree \in LockfileTrees, NEW i \in Parseable(tree)
    PROVE  /\ i \in Installs /\ Key[i] \in Declarers(tree) /\ Key[i] # <<>>
           /\ Last(Key[i]) \in Served(tree) /\ Label(Key[i]) = Last(Key[i])
    <1>1. i \in Installs /\ tree.entry[i].kind = "installed"
        BY DEF Parseable
    <1>2. Key[i] # <<>>
        BY <1>1, LabelIs
    <1>3. Key[i] \in Declarers(tree)
        BY <1>1 DEF Declarers
    <1> QED
        BY <1>1, <1>2, <1>3 DEF Served, Label

LEMMA ServingIs ==
    ASSUME NEW tree \in LockfileTrees, NEW i \in Parseable(tree), NEW k \in Declarers(tree),
           ServesFor(tree, i, k)
    PROVE  /\ Last(Key[i]) \in Declared(tree, k)
           /\ Resolve(tree, k, Last(Key[i])) = Key[i]
           /\ Label(k) \in NameParents(tree)[Last(Key[i])]
           /\ Label(k) \in InstallParents(tree, i)
    <1> DEFINE name == Last(Key[i])
    <1>1. i \in Installs /\ name \in Served(tree) /\ name \in Packages /\ k \in Seq(Packages)
        BY ParseableIs, LabelIs
    <1>2. name \in Declared(tree, k) /\ Serves(tree, i, k, name)
        BY DEF ServesFor
    <1> HIDE DEF name
    <1>3. Resolve(tree, k, name) = Key[i]
        BY <1>1, <1>2, ResolveFollowsNpm
    <1>4. Label(k) \in NameParents(tree)[name]
        BY <1>1, <1>2 DEF NameParents
    <1>5. Label(k) \in InstallParents(tree, i)
        BY <1>2, <1>3 DEF InstallParents, name
    <1> QED
        BY <1>2, <1>3, <1>4, <1>5 DEF name

\* Whatever holds of the project and of every install that serves one of whom
\* it holds, holds of every declarer.
LEMMA DeclarersAreReached ==
    ASSUME NEW tree \in LockfileTrees, WellFormed(tree), NEW K \in SUBSET Declarers(tree),
           <<>> \in K,
           \A k \in K, i \in Parseable(tree) : ServesFor(tree, i, k) => Key[i] \in K
    PROVE  K = Declarers(tree)
    <1> DEFINE served == {e \in Declarers(tree) \X Parseable(tree) : ServesFor(tree, e[2], e[1])}
    <1>1. \A e \in served : e[1] \in K => Key[e[2]] \in K
        OBVIOUS
    <1> QED
        BY <1>1 DEF WellFormed

LEMMA LabelsAreReachable ==
    ASSUME NEW tree \in LockfileTrees, WellFormed(tree), NEW k \in Declarers(tree)
    PROVE  Label(k) \in Reachable(tree)
    <1> DEFINE K == {d \in Declarers(tree) : Label(d) \in Reachable(tree)}
    <1>1. <<>> \in K
        <2>1. <<>> \in Declarers(tree) /\ Label(<<>>) = Root
            BY DEF Declarers, Label
        <2>2. Root \in Reachable(tree)
            <3> DEFINE C == Cardinality(Packages)
            <3>1. C \in Nat /\ {Root} \in SUBSET GraphNames /\ C \in 0..C
                BY FinitenessAssumption, FS_CardinalityType DEF GraphNames
            <3>2. Grows(Within(tree), C, GraphNames, {Root}, NameEdges(tree))
                BY <3>1, WithinIs, SearchIs
            <3> QED
                BY <3>1, <3>2 DEF Grows, Reachable
        <2> QED
            BY <2>1, <2>2
    <1>2. ASSUME NEW d \in K, NEW i \in Parseable(tree), ServesFor(tree, i, d)
          PROVE  Key[i] \in K
        <2>1. Label(d) \in Reachable(tree) /\ d \in Declarers(tree)
            OBVIOUS
        <2>2. Last(Key[i]) \in Served(tree) /\ Label(d) \in NameParents(tree)[Last(Key[i])]
            BY <1>2, <2>1, ParseableIs, ServingIs
        <2>3. Last(Key[i]) \in Reachable(tree)
            BY <2>1, <2>2, WithinSteps
        <2> QED
            BY <2>3, ParseableIs
    <1>3. K = Declarers(tree)
        <2> HIDE DEF K
        <2>1. K \in SUBSET Declarers(tree)
            BY DEF K
        <2> QED
            BY <1>1, <1>2, <2>1, DeclarersAreReached
    <1> QED
        BY <1>3

LEMMA InstallsServe ==
    ASSUME NEW tree \in LockfileTrees, WellFormed(tree), NEW i \in Parseable(tree)
    PROVE  \E k \in Declarers(tree) : ServesFor(tree, i, k)
    <1> DEFINE K == {d \in Declarers(tree) :
                        d = <<>> \/ \E j \in Parseable(tree) : \E k \in Declarers(tree) :
                                        Key[j] = d /\ ServesFor(tree, j, k)}
    <1>1. <<>> \in K
        BY DEF Declarers
    <1>2. \A d \in K, j \in Parseable(tree) : ServesFor(tree, j, d) => Key[j] \in K
        BY ParseableIs
    <1>3. K = Declarers(tree)
        <2> HIDE DEF K
        <2>1. K \in SUBSET Declarers(tree)
            BY DEF K
        <2> QED
            BY <1>1, <1>2, <2>1, DeclarersAreReached
    <1>4. Key[i] \in K /\ Key[i] # <<>>
        BY <1>3, ParseableIs
    <1>5. PICK j \in Parseable(tree), k \in Declarers(tree) : Key[j] = Key[i] /\ ServesFor(tree, j, k)
        BY <1>4
    <1>6. j = i
        BY <1>5, ParseableIs, KeyAssumption
    <1> QED
        BY <1>5, <1>6

\* The installs of a name share out those who declare it.
LEMMA InstallParentsAre ==
    ASSUME NEW tree \in LockfileTrees, WellFormed(tree), NEW i \in Parseable(tree)
    PROVE  /\ InstallParents(tree, i) # {}
           /\ InstallParents(tree, i) \subseteq NameParents(tree)[Last(Key[i])]
           /\ \A p \in InstallParents(tree, i) : \E k \in Declarers(tree) : p = Label(k)
    <1> DEFINE name == Last(Key[i])
               served == {k \in Declarers(tree) :
                             name \in Declared(tree, k) /\ Resolve(tree, k, name) = Key[i]}
    <1>1. PICK k \in Declarers(tree) : ServesFor(tree, i, k)
        BY InstallsServe
    <1>2. k \in served
        BY <1>1, ServingIs
    <1>3. InstallParents(tree, i) = {Label(d) : d \in served}
        BY <1>2 DEF InstallParents
    <1>4. name \in Served(tree)
        BY ParseableIs
    <1>5. \A d \in served : Label(d) \in NameParents(tree)[name] /\ d \in Declarers(tree)
        BY <1>4 DEF NameParents
    <1> QED
        BY <1>2, <1>3, <1>5

LEMMA RowIs ==
    ASSUME NEW tree \in LockfileTrees, NEW i \in DOMAIN Parsed(tree)
    PROVE  /\ i \in Parseable(tree)
           /\ Parsed(tree)[i].package = Last(Key[i])
           /\ Parsed(tree)[i].parents = InstallParents(tree, i)
           /\ Parsed(tree)[i].path = DisplayPath(tree, RouteTo(tree), i)
    BY DEF Parsed

LEMMA ParentsAgree ==
    ASSUME NEW tree \in LockfileTrees, WellFormed(tree)
    PROVE  /\ Names(Parsed(tree)) = Served(tree)
           /\ \A n \in Served(tree) : IndexParents(Parsed(tree), n) = NameParents(tree)[n]
    <1> DEFINE deps == Parsed(tree)
    <1>1. DOMAIN deps = Parseable(tree)
        BY DEF Parsed
    <1>2. \A i \in Parseable(tree) : /\ deps[i].package = Last(Key[i])
                                     /\ deps[i].parents = InstallParents(tree, i)
        BY <1>1, RowIs
    <1> HIDE DEF deps
    <1>3. Names(deps) = Served(tree)
        BY <1>1, <1>2 DEF Names, Served
    <1>4. ASSUME NEW n \in Served(tree) PROVE IndexParents(deps, n) = NameParents(tree)[n]
        <2>1. \A i \in RowsNamed(deps, n) : i \in Parseable(tree) /\ Last(Key[i]) = n
            BY <1>1, <1>2 DEF RowsNamed
        <2>2. ASSUME NEW i \in RowsNamed(deps, n) PROVE deps[i].parents \subseteq NameParents(tree)[n]
            BY <1>2, <2>1, InstallParentsAre
        <2>3. ASSUME NEW p \in NameParents(tree)[n]
              PROVE  \E i \in RowsNamed(deps, n) : p \in deps[i].parents
            <3>1. PICK k \in Declarers(tree) : n \in Declared(tree, k) /\ p = Label(k)
                BY DEF NameParents
            <3>2. PICK i \in Installs : Serves(tree, i, k, n)
                BY <3>1 DEF WellFormed
            <3>3. i \in Parseable(tree) /\ Last(Key[i]) = n
                BY <3>2 DEF Serves
            <3>4. p \in InstallParents(tree, i)
                BY <3>1, <3>2, <3>3, ServingIs DEF ServesFor
            <3>5. i \in RowsNamed(deps, n)
                BY <1>1, <1>2, <3>3 DEF RowsNamed
            <3> QED
                BY <1>2, <3>3, <3>4, <3>5
        <2> QED
            BY <2>2, <2>3 DEF IndexParents
    <1> QED
        BY <1>3, <1>4 DEF deps

\* The route shown for an install is a path of declarations to its name.
LEMMA DisplayIsRoute ==
    ASSUME NEW tree \in LockfileTrees, WellFormed(tree), NEW i \in Parseable(tree)
    PROVE  IsRoute(DisplayPath(tree, RouteTo(tree), i), NameParents(tree), Last(Key[i]))
    <1> DEFINE name == Last(Key[i])
               parents == NameParents(tree)
               p == Min(InstallParents(tree, i))
               base == RouteTo(tree)[p]
    <1>1. p \in InstallParents(tree, i)
        <2>1. GraphNames \subseteq Nat
            BY KeyAssumption, NumbersAssumption DEF GraphNames
        <2>2. \A q \in InstallParents(tree, i) : q \in GraphNames
            BY InstallParentsAre, LabelIs
        <2>3. InstallParents(tree, i) \in SUBSET Nat /\ InstallParents(tree, i) # {}
            BY <2>1, <2>2, InstallParentsAre
        <2> QED
            BY <2>3, MinIs
    <1>2. name \in Served(tree) /\ name \in GraphNames /\ name \in DOMAIN parents
        BY ParseableIs, LabelIs DEF GraphNames, NameParents
    <1> HIDE DEF p
    <1>3. p \in parents[name] /\ p \in Reachable(tree)
        BY <1>1, InstallParentsAre, LabelsAreReachable
    <1>4. p \in DOMAIN RouteTo(tree) /\ IsRoute(base, parents, p)
        BY <1>3, RoutesLead
    <1>5. Last(base) = p
        BY <1>4 DEF IsRoute, Last
    <1>6. DisplayPath(tree, RouteTo(tree), i) = IF p = name THEN base ELSE Append(base, name)
        BY <1>4, <1>5 DEF DisplayPath, p
    <1>7. IsRoute(Append(base, name), parents, name)
        <2> HIDE DEF base, name, parents
        <2> QED
            BY <1>2, <1>3, <1>4, RouteExtends
    <1> QED
        BY <1>4, <1>6, <1>7

\* The walk over the installs, from a name to those who declare it.
ParentEdges(deps) ==
    {e \in GraphNames \X GraphNames : e[1] # Root /\ e[2] \in IndexParents(deps, e[1])}

LEMMA WalkCloses ==
    ASSUME NEW deps, Names(deps) \subseteq GraphNames, NEW target \in GraphNames,
           \A n \in Names(deps) : IndexParents(deps, n) \subseteq GraphNames
    PROVE  /\ target \in Walk(deps, target)
           /\ \A n \in Walk(deps, target) \ {Root} :
                 IndexParents(deps, n) \subseteq Walk(deps, target)
    <1> DEFINE C == Cardinality(Packages)
               N == C + 1
               E == ParentEdges(deps)
               Body(up) == [d \in 0..N |->
                   IF d = 0 THEN {target}
                   ELSE up[d - 1] \cup UNION {IndexParents(deps, n) : n \in up[d - 1] \ {Root}}]
    <1>1. C \in Nat /\ N \in Nat /\ {target} \in SUBSET GraphNames /\ IsFiniteSet(GraphNames)
          /\ Cardinality(GraphNames) <= N + 1 /\ {target} # {}
        <2>1. Root \notin Packages /\ IsFiniteSet(Packages) /\ GraphNames = Packages \cup {Root}
            BY KeyAssumption, FinitenessAssumption DEF GraphNames
        <2>2. C \in Nat
            BY <2>1, FS_CardinalityType
        <2>3. IsFiniteSet(GraphNames) /\ Cardinality(GraphNames) = C + 1
            BY <2>1, FS_AddElement
        <2> QED
            BY <2>1, <2>2, <2>3
    <1>2. \A n : n \notin Names(deps) => IndexParents(deps, n) = {}
        BY DEF IndexParents, RowsNamed, Names
    <1>3. \A S : UNION {IndexParents(deps, n) : n \in S \ {Root}} =
                 {y \in GraphNames : \E x \in S : <<x, y>> \in E}
        <2> SUFFICES ASSUME NEW S
                     PROVE  UNION {IndexParents(deps, n) : n \in S \ {Root}} =
                            {y \in GraphNames : \E x \in S : <<x, y>> \in E}
            OBVIOUS
        <2>1. ASSUME NEW n \in S \ {Root}, NEW y \in IndexParents(deps, n)
              PROVE  y \in GraphNames /\ <<n, y>> \in E
            BY <1>2, <2>1 DEF ParentEdges
        <2>2. ASSUME NEW x \in S, NEW y, <<x, y>> \in E
              PROVE  x # Root /\ y \in IndexParents(deps, x)
            BY <2>2 DEF ParentEdges
        <2> HIDE DEF E
        <2> QED
            BY <2>1, <2>2
    <1>4. \A up : up = Body(up) <=> IsSearch(up, N, GraphNames, {target}, E)
        <2> SUFFICES ASSUME NEW up
                     PROVE  up = Body(up) <=> IsSearch(up, N, GraphNames, {target}, E)
            OBVIOUS
        <2>1. Body(up) = [d \in 0..N |-> IF d = 0 THEN {target} ELSE Layer(up[d - 1], GraphNames, E)]
            BY <1>3 DEF Layer
        <2> HIDE DEF Body
        <2> QED
            BY <2>1 DEF IsSearch
    <1> HIDE DEF E
    <1>5. PICK g : IsSearch(g, N, GraphNames, {target}, E)
        BY <1>1, SearchExists
    <1> DEFINE f == CHOOSE up : up = Body(up)
    <1>6. Walk(deps, target) = f[N]
        BY DEF Walk
    <1>7. IsSearch(f, N, GraphNames, {target}, E)
        <2> HIDE DEF Body, N
        <2> QED
            BY <1>4, <1>5
    <1> HIDE DEF f, N
    <1>8. target \in f[N] /\ f[N] \subseteq GraphNames
        <2>1. Grows(f, N, GraphNames, {target}, E)
            BY <1>1, <1>7, SearchIs
        <2>2. N \in 0..N
            BY <1>1
        <2> QED
            BY <2>1, <2>2 DEF Grows
    <1>9. \A x \in f[N], y \in GraphNames : <<x, y>> \in E => y \in f[N]
        BY <1>1, <1>7, SearchCloses
    <1>10. ASSUME NEW n \in f[N] \ {Root}, NEW p \in IndexParents(deps, n) PROVE p \in f[N]
        <2>1. n \in Names(deps) /\ p \in GraphNames /\ n \in GraphNames
            BY <1>2, <1>8
        <2>2. <<n, p>> \in E
            BY <2>1 DEF E, ParentEdges
        <2> QED
            BY <1>9, <2>1, <2>2
    <1> QED
        BY <1>6, <1>8, <1>10

\* The route of a row runs inside the graph of its package, back to the root.
LEMMA RouteInside ==
    ASSUME NEW tree \in LockfileTrees, WellFormed(tree), NEW i \in DOMAIN Parsed(tree)
    PROVE  LET row == Parsed(tree)[i]
               graph == Subgraph(Parsed(tree), row.package, row.version)
           IN  /\ Root \in graph.nodes
               /\ \A s \in 1..(Len(row.path) - 1) :
                     <<row.path[s], row.path[s + 1]>> \in graph.edges
    <1> DEFINE deps == Parsed(tree)
               target == deps[i].package
               path == deps[i].path
               L == Len(path)
               nodes == Walk(deps, target)
    <1>1. i \in Parseable(tree) /\ target = Last(Key[i]) /\ target \in Served(tree)
        BY RowIs, ParseableIs
    <1>2. /\ path \in Seq(GraphNames) /\ L \in Nat /\ L >= 1 /\ path[1] = Root /\ path[L] = target
          /\ \A s \in 1..(L - 1) :
                path[s + 1] \in Served(tree) /\ path[s] \in NameParents(tree)[path[s + 1]]
        <2>1. path = DisplayPath(tree, RouteTo(tree), i)
            BY RowIs
        <2>2. IsRoute(path, NameParents(tree), target)
            BY <1>1, <2>1, DisplayIsRoute
        <2>3. DOMAIN NameParents(tree) = Served(tree)
            BY DEF NameParents
        <2> HIDE DEF path, target
        <2> QED
            BY <2>2, <2>3 DEF IsRoute
    <1>3. /\ Names(deps) = Served(tree)
          /\ \A n \in Served(tree) : IndexParents(deps, n) = NameParents(tree)[n]
        BY ParentsAgree
    <1>4. Subgraph(deps, target, deps[i].version) = [nodes |-> nodes, edges |-> WalkEdges(deps, target)]
        <2>1. i \in RowsNamed(deps, target)
            BY DEF RowsNamed
        <2>2. DOMAIN deps # {} /\ target \in Names(deps) /\ HasRow(deps, target, deps[i].version)
            BY <2>1 DEF Names, HasRow
        <2> QED
            BY <2>2 DEF Subgraph, SubgraphMiss
    <1> HIDE DEF deps, path, L, target
    <1>5. /\ target \in nodes
          /\ \A n \in nodes \ {Root} : IndexParents(deps, n) \subseteq nodes
        <2>1. Names(deps) \subseteq GraphNames /\ target \in GraphNames
            BY <1>1, <1>3, LabelIs DEF GraphNames
        <2>2. \A n \in Names(deps) : IndexParents(deps, n) \subseteq GraphNames
            BY <1>3, LabelIs
        <2> QED
            BY <2>1, <2>2, WalkCloses
    <1> HIDE DEF nodes
    <1> DEFINE Bad == {s \in 0..L : s # 0 /\ path[s] \notin nodes}
    <1>6. Bad = {}
        <2>1. SUFFICES ASSUME Bad # {} PROVE FALSE
            OBVIOUS
        <2>2. PICK s \in Bad : \A m \in Bad : s >= m
            <3>1. Bad \in SUBSET (0..L)
                OBVIOUS
            <3> HIDE DEF Bad
            <3> QED
                BY <1>2, <2>1, <3>1, GreatestNumber
        <2>3. s # L
            BY <1>2, <1>5
        <2>4. s \in 1..(L - 1) /\ s + 1 \in 0..L /\ s + 1 # 0 /\ ~(s >= s + 1)
            BY <1>2, <2>3
        <2>5. path[s + 1] \in nodes
            BY <2>2, <2>4
        <2>6. path[s + 1] \in Served(tree) /\ path[s] \in IndexParents(deps, path[s + 1])
            BY <1>2, <1>3, <2>4
        <2>7. path[s + 1] # Root
            BY <2>6, LabelIs, KeyAssumption
        <2> QED
            BY <1>5, <2>5, <2>6, <2>7
    <1>7. Root \in nodes
        <2>1. 1 \in 0..L
            BY <1>2
        <2> QED
            BY <1>2, <1>6, <2>1
    <1>8. ASSUME NEW s \in 1..(L - 1)
          PROVE  <<path[s], path[s + 1]>> \in WalkEdges(deps, target)
        <2>1. s + 1 \in 0..L /\ s + 1 # 0
            BY <1>2
        <2>2. path[s + 1] \in nodes
            BY <1>6, <2>1
        <2>3. path[s + 1] \in Names(deps) /\ path[s] \in IndexParents(deps, path[s + 1])
            BY <1>2, <1>3
        <2> QED
            BY <2>2, <2>3 DEF WalkEdges, nodes
    <1> QED
        BY <1>4, <1>7, <1>8 DEF deps, path, L, target

-----------------------------------------------------------------------------
(* The depths of the graph of the project *)

RoutedAt(deps) ==
    [m \in Names(deps) |-> Min({Len(deps[i].path) - 1 : i \in RowsNamed(deps, m)})]

\* The names that S leads to and whose routes are longer than d.
Improved(deps, d, S) ==
    {m \in Names(deps) : d < RoutedAt(deps)[m] /\ \E p \in S : <<p, m>> \in AllEdges(deps)}

\* f is the search that goes on only through the nodes it improves.
IsImproving(f, N, deps) ==
    f = [d \in 0..N |-> IF d = 0 THEN {Root} ELSE Improved(deps, d, f[d - 1])]

LEMMA ImprovingExists ==
    ASSUME NEW N \in Nat, NEW deps
    PROVE  \E f : IsImproving(f, N, deps)
    <1> DEFINE Bad == {n \in 0..N : ~\E f : IsImproving(f, n, deps)}
    <1>1. SUFFICES Bad = {}
        <2>1. N \in 0..N
            OBVIOUS
        <2> QED
            BY <2>1
    <1>2. SUFFICES ASSUME Bad # {} PROVE FALSE
        OBVIOUS
    <1>3. PICK n \in Bad : \A m \in Bad : n <= m
        <2>1. Bad \in SUBSET (0..N)
            OBVIOUS
        <2> HIDE DEF Bad
        <2> QED
            BY <1>2, <2>1, LeastNumber
    <1>4. CASE n = 0
        <2>1. IsImproving([d \in 0..0 |-> {Root}], 0, deps)
            BY DEF IsImproving
        <2> QED
            BY <1>3, <1>4, <2>1
    <1>5. CASE n # 0
        <2>1. n \in Nat /\ n - 1 \in 0..N /\ n - 1 \notin Bad
            BY <1>3, <1>5
        <2>2. PICK f : IsImproving(f, n - 1, deps)
            BY <2>1
        <2> DEFINE g == [d \in 0..n |-> IF d = n THEN Improved(deps, n, f[n - 1]) ELSE f[d]]
        <2>3. \A d \in 0..(n - 1) : f[d] = IF d = 0 THEN {Root} ELSE Improved(deps, d, f[d - 1])
            BY <2>2 DEF IsImproving
        <2>4. ASSUME NEW d \in 0..n
              PROVE  g[d] = IF d = 0 THEN {Root} ELSE Improved(deps, d, g[d - 1])
            <3>1. CASE d = n
                <4>1. g[n] = Improved(deps, n, f[n - 1]) /\ g[n - 1] = f[n - 1]
                    BY <2>1
                <4> HIDE DEF g
                <4> QED
                    BY <1>5, <3>1, <4>1
            <3>2. CASE d # n
                <4>1. d \in 0..(n - 1) /\ g[d] = f[d] /\ (d # 0 => g[d - 1] = f[d - 1])
                    BY <2>1, <3>2
                <4> HIDE DEF g
                <4> QED
                    BY <2>3, <4>1
            <3> QED
                BY <3>1, <3>2
        <2>5. g = [d \in 0..n |-> g[d]]
            OBVIOUS
        <2>6. g = [d \in 0..n |-> IF d = 0 THEN {Root} ELSE Improved(deps, d, g[d - 1])]
            <3> HIDE DEF g
            <3> QED
                BY <2>4, <2>5
        <2>7. IsImproving(g, n, deps)
            BY <2>6 DEF IsImproving
        <2> QED
            BY <1>3, <2>7
    <1> QED
        BY <1>4, <1>5

\* A way goes on to what its last name is a parent of.
LEMMA WayExtends ==
    ASSUME NEW deps, NEW k \in Nat, NEW p, NEW way \in WaysTo(deps, p, k),
           NEW n \in GraphNodes(deps), <<p, n>> \in AllEdges(deps)
    PROVE  WaysTo(deps, n, k + 1) # {}
    <1> DEFINE longer == [s \in 1..((k + 1) + 1) |-> IF s = k + 2 THEN n ELSE way[s]]
    <1>1. /\ way \in [1..(k + 1) -> GraphNodes(deps)] /\ way[1] = Root /\ way[k + 1] = p
          /\ \A s \in 1..k : <<way[s], way[s + 1]>> \in AllEdges(deps)
        BY DEF WaysTo
    <1>2. /\ \A s \in 1..(k + 1) : longer[s] = way[s]
          /\ longer[(k + 1) + 1] = n
        OBVIOUS
    <1>3. longer \in [1..((k + 1) + 1) -> GraphNodes(deps)]
        BY <1>1
    <1> HIDE DEF longer
    <1>4. ASSUME NEW s \in 1..(k + 1) PROVE <<longer[s], longer[s + 1]>> \in AllEdges(deps)
        <2>1. CASE s = k + 1
            BY <1>1, <1>2, <2>1
        <2>2. CASE s # k + 1
            <3>1. s \in 1..k /\ s + 1 \in 1..(k + 1)
                BY <2>2
            <3> QED
                BY <1>1, <1>2, <3>1
        <2> QED
            BY <2>1, <2>2
    <1>5. longer[1] = Root
        BY <1>1, <1>2
    <1>6. longer \in WaysTo(deps, n, k + 1)
        BY <1>2, <1>3, <1>4, <1>5 DEF WaysTo
    <1> QED
        BY <1>6

\* What the search finds in its d-th layer lies at the end of d declarations.
LEMMA ImprovedWays ==
    ASSUME NEW N \in Nat, NEW deps, NEW f, IsImproving(f, N, deps),
           NEW e \in 0..N, NEW n \in f[e]
    PROVE  WaysTo(deps, n, e) # {}
    <1> DEFINE Bad == {d \in 0..N : \E m \in f[d] : WaysTo(deps, m, d) = {}}
    <1>1. SUFFICES ASSUME Bad # {} PROVE FALSE
        OBVIOUS
    <1>2. PICK d \in Bad : \A c \in Bad : d <= c
        <2>1. Bad \in SUBSET (0..N)
            OBVIOUS
        <2> HIDE DEF Bad
        <2> QED
            BY <1>1, <2>1, LeastNumber
    <1>3. PICK m \in f[d] : WaysTo(deps, m, d) = {}
        BY <1>2
    <1>4. CASE d = 0
        <2> DEFINE way == [s \in 1..(0 + 1) |-> Root]
        <2>1. m = Root
            BY <1>3, <1>4 DEF IsImproving, Improved
        <2>2. way \in WaysTo(deps, Root, 0)
            BY DEF WaysTo, GraphNodes
        <2> QED
            BY <1>3, <1>4, <2>1, <2>2
    <1>5. CASE d # 0
        <2>1. d - 1 \in Nat /\ d - 1 \in 0..N /\ d - 1 \notin Bad /\ (d - 1) + 1 = d
            BY <1>2, <1>5
        <2>2. PICK p \in f[d - 1] : m \in Names(deps) /\ <<p, m>> \in AllEdges(deps)
            BY <1>2, <1>3, <1>5 DEF IsImproving, Improved
        <2>3. PICK way : way \in WaysTo(deps, p, d - 1)
            BY <2>1, <2>2
        <2>4. m \in GraphNodes(deps)
            BY <2>2 DEF GraphNodes
        <2> HIDE DEF Bad
        <2>5. WaysTo(deps, m, (d - 1) + 1) # {}
            BY <2>1, <2>2, <2>3, <2>4, WayExtends
        <2> QED
            BY <1>3, <2>1, <2>5
    <1> QED
        BY <1>4, <1>5

\* So does a row at the end of its path.
LEMMA PathIsAWay ==
    ASSUME NEW tree \in LockfileTrees, WellFormed(tree), NEW i \in DOMAIN Parsed(tree)
    PROVE  LET deps == Parsed(tree)
           IN  /\ Len(deps[i].path) - 1 \in Nat
               /\ WaysTo(deps, deps[i].package, Len(deps[i].path) - 1) # {}
    <1> DEFINE deps == Parsed(tree)
               path == deps[i].path
               L == Len(path)
               way == [s \in 1..((L - 1) + 1) |-> path[s]]
    <1>1. i \in Parseable(tree) /\ deps[i].package = Last(Key[i])
        BY RowIs
    <1>2. IsRoute(path, NameParents(tree), deps[i].package)
        <2>1. path = DisplayPath(tree, RouteTo(tree), i)
            BY RowIs
        <2> HIDE DEF path
        <2> QED
            BY <1>1, <2>1, DisplayIsRoute
    <1>3. DOMAIN NameParents(tree) = Served(tree)
        BY DEF NameParents
    <1>4. /\ Names(deps) = Served(tree)
          /\ \A n \in Served(tree) : IndexParents(deps, n) = NameParents(tree)[n]
        BY ParentsAgree
    <1> HIDE DEF deps, path
    <1>5. /\ L \in Nat /\ L - 1 \in Nat /\ (L - 1) + 1 = L /\ path[1] = Root
          /\ path[L] = deps[i].package
        BY <1>2 DEF IsRoute
    <1>6. \A s \in 1..(L - 1) :
            path[s + 1] \in Names(deps) /\ path[s] \in IndexParents(deps, path[s + 1])
        BY <1>2, <1>3, <1>4 DEF IsRoute
    <1>7. \A s \in 1..(L - 1) : <<path[s], path[s + 1]>> \in AllEdges(deps)
        BY <1>6 DEF AllEdges
    <1>8. ASSUME NEW s \in 1..L PROVE path[s] \in GraphNodes(deps)
        <2>1. CASE s = 1
            BY <1>5, <2>1 DEF GraphNodes
        <2>2. CASE s # 1
            <3>1. s - 1 \in 1..(L - 1) /\ (s - 1) + 1 = s
                BY <1>5, <2>2
            <3>2. path[s] \in Names(deps)
                BY <1>6, <3>1
            <3> QED
                BY <3>2 DEF GraphNodes
        <2> QED
            BY <2>1, <2>2
    <1> HIDE DEF L
    <1>9. /\ way \in [1..((L - 1) + 1) -> GraphNodes(deps)]
          /\ \A s \in 1..L : way[s] = path[s]
        BY <1>5, <1>8
    <1>10. 1 \in 1..L /\ L \in 1..L /\ \A s \in 1..(L - 1) : s \in 1..L /\ s + 1 \in 1..L
        BY <1>5
    <1> HIDE DEF way
    <1>11. way \in WaysTo(deps, deps[i].package, L - 1)
        BY <1>5, <1>7, <1>9, <1>10 DEF WaysTo
    <1> QED
        BY <1>5, <1>11 DEF deps, path, L

LEMMA DepthIs ==
    ASSUME NEW tree \in LockfileTrees, WellFormed(tree), NEW n \in Names(Parsed(tree))
    PROVE  WaysTo(Parsed(tree), n, Depth(Parsed(tree), n)) # {}
    <1> DEFINE deps == Parsed(tree)
               C == Cardinality(Packages)
               Body(f) == [d \in 0..C |->
                   IF d = 0 THEN {Root}
                   ELSE {m \in Names(deps) :
                           d < RoutedAt(deps)[m] /\ \E p \in f[d - 1] : <<p, m>> \in AllEdges(deps)}]
               layer == CHOOSE f : f = Body(f)
               lengths == {Len(deps[i].path) - 1 : i \in RowsNamed(deps, n)}
               found == {d \in 0..C : n \in layer[d]}
    <1>1. C \in Nat
        BY FinitenessAssumption, FS_CardinalityType
    <1>2. \A i \in DOMAIN deps : /\ Len(deps[i].path) - 1 \in Nat
                                 /\ WaysTo(deps, deps[i].package, Len(deps[i].path) - 1) # {}
        BY PathIsAWay
    <1>3. IsImproving(layer, C, deps)
        <2>1. PICK g : IsImproving(g, C, deps)
            BY <1>1, ImprovingExists
        <2>2. \A f : IsImproving(f, C, deps) <=> f = Body(f)
            BY DEF IsImproving, Improved
        <2> HIDE DEF Body
        <2> QED
            BY <2>1, <2>2
    <1>4. Depth(deps, n) = Min({RoutedAt(deps)[n]} \cup {d \in DOMAIN layer : n \in layer[d]})
        BY DEF Depth, RoutedAt
    <1> HIDE DEF layer, Body, deps
    <1>5. DOMAIN layer = 0..C
        BY <1>3 DEF IsImproving, Improved
    <1>6. RoutedAt(deps)[n] \in lengths /\ lengths \in SUBSET Nat
        <2>1. lengths # {}
            BY DEF Names, RowsNamed, deps
        <2>2. lengths \in SUBSET Nat
            BY <1>2 DEF RowsNamed
        <2>3. Min(lengths) \in lengths
            BY <2>1, <2>2, MinIs
        <2> QED
            BY <2>2, <2>3 DEF RoutedAt, deps
    <1>7. Depth(deps, n) \in {RoutedAt(deps)[n]} \cup found
        <2> DEFINE S == {RoutedAt(deps)[n]} \cup found
        <2>1. S \in SUBSET Nat /\ S # {}
            BY <1>6
        <2>2. Depth(deps, n) = Min(S)
            BY <1>4, <1>5
        <2> HIDE DEF S
        <2>3. Min(S) \in S
            BY <2>1, MinIs
        <2> QED
            BY <2>2, <2>3 DEF S
    <1>8. CASE Depth(deps, n) = RoutedAt(deps)[n]
        <2>1. PICK i \in RowsNamed(deps, n) : Depth(deps, n) = Len(deps[i].path) - 1
            BY <1>6, <1>8
        <2>2. i \in DOMAIN deps /\ deps[i].package = n
            BY DEF RowsNamed
        <2> QED
            BY <1>2, <2>1, <2>2 DEF deps
    <1>9. CASE Depth(deps, n) \in found
        BY <1>1, <1>3, <1>9, ImprovedWays DEF deps
    <1> QED
        BY <1>7, <1>8, <1>9

-----------------------------------------------------------------------------
(* The inductive invariant *)

\* What each stage leaves for the next one.
IInv ==
    /\ world \in Worlds
    /\ cached = [report |-> cached.report, deps |-> cached.deps,
                 counts |-> cached.counts, mode |-> cached.mode]
    /\ step \in {"start", "failed", "parsed", "analysed", "cached", "shown"}
    /\ step \in {"parsed", "analysed", "cached", "shown"} => cached.deps = Parsed(world.tree)
    /\ step \in {"analysed", "cached", "shown"} => Sound(cached.report, cached.deps)
    /\ Counted => cached.counts = Count(cached.report, cached.deps)
    /\ Shown => page = ResultsContext(cached)

\* The rows of a lockfile are installs.
LEMMA RowsAreFinite ==
    ASSUME NEW tree
    PROVE  DOMAIN Parsed(tree) \subseteq Installs /\ IsFiniteSet(DOMAIN Parsed(tree))
    <1>1. DOMAIN Parsed(tree) = Parseable(tree)
        BY DEF Parsed
    <1>2. Parseable(tree) \in SUBSET Installs
        BY DEF Parseable
    <1> QED
        BY <1>1, <1>2, FinitenessAssumption, FS_Subset

\* Every finding of the vulnerability lens is of a row.
LEMMA FindingsHaveRows ==
    ASSUME NEW deps, DOMAIN deps \subseteq Installs, NEW published,
           NEW f \in FindingsIn(LockOf(deps), published)
    PROVE  NodeOf(f) \in NodesOf(deps)
    <1>1. /\ f.install \in Installs /\ f.package \in Packages /\ f.version \in Versions
          /\ LockOf(deps)[f.install] = [package |-> f.package, version |-> f.version]
        BY DEF FindingsIn, Finding
    <1>2. f.install \in DOMAIN deps
        <2>1. LockOf(deps)[f.install] # NoDep
            BY <1>1, NoDepAssumption
        <2> QED
            BY <1>1, <2>1 DEF LockOf
    <1>3. [package |-> deps[f.install].package, version |-> deps[f.install].version]
            = [package |-> f.package, version |-> f.version]
        BY <1>1, <1>2 DEF LockOf
    <1>4. deps[f.install].package = f.package /\ deps[f.install].version = f.version
        BY <1>3
    <1> QED
        BY <1>2, <1>4 DEF NodeOf, NodesOf

\* The report of the engine on the rows of a lockfile, whatever the verdicts.
LEMMA ReportsAreSound ==
    ASSUME NEW deps, DOMAIN deps \subseteq Installs, NEW published,
           NEW r, r.findings = FindingsIn(LockOf(deps), published),
           NEW tier \in [Consolidate(Discovered(r.findings)) -> Tiers],
           r.entries = {[candidate |-> c, tier |-> tier[c]] : c \in Consolidate(Discovered(r.findings))},
           r.skipped = {f \in r.findings : Target(f) = NoVersion}
    PROVE  Sound(r, deps)
    <1> DEFINE upgrades == Consolidate(Discovered(r.findings))
    <1>1. r.findings \in SUBSET Finding /\ IsFiniteSet(r.findings)
        BY FindingsAreFinite
    <1>2. \A f \in r.findings : NodeOf(f) \in NodesOf(deps)
        BY FindingsHaveRows
    <1>3. \A c \in upgrades :
            /\ c.findings = {f \in Fixable(r.findings) : f.package = c.package /\ f.version = c.from}
            /\ c.findings # {} /\ c.findings \subseteq r.findings
            /\ \A d \in upgrades : d.package = c.package /\ d.from = c.from => d = c
        BY <1>1, UpgradesAre
    <1>4. \A f \in Fixable(r.findings) : \E c \in upgrades : f \in c.findings
        BY <1>1, EveryFixIsProposed
    <1> HIDE DEF upgrades
    <1>5. \A e \in r.entries : /\ e.candidate \in upgrades /\ e.tier \in Tiers
                               /\ e = [candidate |-> e.candidate, tier |-> tier[e.candidate]]
        <2> SUFFICES ASSUME NEW e \in r.entries
                     PROVE  /\ e.candidate \in upgrades /\ e.tier \in Tiers
                            /\ e = [candidate |-> e.candidate, tier |-> tier[e.candidate]]
            OBVIOUS
        <2>1. PICK c \in upgrades : e = [candidate |-> c, tier |-> tier[c]]
            BY DEF upgrades
        <2>2. tier[c] \in Tiers
            BY DEF upgrades
        <2> QED
            BY <2>1, <2>2
    <1>6. \A c \in upgrades : \E e \in r.entries : e.candidate = c
        <2> SUFFICES ASSUME NEW c \in upgrades PROVE \E e \in r.entries : e.candidate = c
            OBVIOUS
        <2>1. [candidate |-> c, tier |-> tier[c]] \in r.entries
            BY DEF upgrades
        <2> QED
            BY <2>1
    <1>7. RelatedOf(r.entries) = Fixable(r.findings)
        <2>1. \A e \in r.entries : e.candidate.findings \subseteq Fixable(r.findings)
            BY <1>3, <1>5
        <2>2. \A f \in Fixable(r.findings) : \E e \in r.entries : f \in e.candidate.findings
            BY <1>4, <1>6
        <2> QED
            BY <2>1, <2>2 DEF RelatedOf
    <1>8. r.skipped = r.findings \ RelatedOf(r.entries)
        BY <1>7 DEF Fixable
    <1>9. ASSUME NEW e \in r.entries
          PROVE  /\ e.tier \in Tiers
                 /\ e.candidate.findings # {} /\ e.candidate.findings \subseteq r.findings
                 /\ \A f \in e.candidate.findings : NodeOf(f) = EntryNode(e)
        BY <1>3, <1>5 DEF NodeOf, EntryNode
    <1>10. ASSUME NEW e \in r.entries, NEW d \in r.entries, EntryNode(e) = EntryNode(d)
           PROVE  e = d
        <2>1. e.candidate.package = d.candidate.package /\ e.candidate.from = d.candidate.from
            BY <1>10 DEF EntryNode
        <2>2. e.candidate = d.candidate
            BY <1>3, <1>5, <2>1
        <2> QED
            BY <1>5, <2>2
    <1> QED
        BY <1>1, <1>2, <1>8, <1>9, <1>10 DEF Sound

\* The report of a lens that failed.
LEMMA NoReportIsSound ==
    ASSUME NEW deps, NEW r, r.findings = {}, r.entries = {}, r.skipped = {}
    PROVE  Sound(r, deps)
    BY FS_EmptySet DEF Sound, RelatedOf

-----------------------------------------------------------------------------
(* The steps *)

LEMMA InitHolds ==
    ASSUME Init
    PROVE  IInv
    BY DEF Init, IInv, NothingCached, Counted, Shown

LEMMA ParseKeeps ==
    ASSUME IInv, Parse \/ ParseFails
    PROVE  IInv'
    <1>1. CASE Parse
        <2>1. /\ step' = "parsed" /\ world' = world
              /\ cached' = [report |-> cached.report, deps |-> Parsed(world.tree),
                            counts |-> cached.counts, mode |-> cached.mode]
            BY <1>1 DEF Parse, IInv
        <2>2. /\ cached'.report = cached.report /\ cached'.deps = Parsed(world.tree)
              /\ cached'.counts = cached.counts /\ cached'.mode = cached.mode
            BY <2>1
        <2> QED
            BY <2>1, <2>2 DEF IInv, Counted, Shown
    <1>2. CASE ParseFails
        BY <1>2 DEF ParseFails, IInv, Counted, Shown
    <1> QED
        BY <1>1, <1>2

LEMMA AnalyseKeeps ==
    ASSUME IInv, Analyse
    PROVE  IInv'
    <1> DEFINE findings == FindingsIn(LockOf(cached.deps), world.published)
               upgrades == Consolidate(Discovered(findings))
               ReportWith(tier) ==
                   [findings |-> findings,
                    entries |-> {[candidate |-> c, tier |-> tier[c]] : c \in upgrades},
                    skipped |-> {f \in findings : Target(f) = NoVersion},
                    lensFailed |-> FALSE]
    <1>1. /\ step = "parsed" /\ step' = "analysed" /\ world' = world
          /\ cached.deps = Parsed(world.tree)
        BY DEF Analyse, IInv
    <1>2. PICK tier \in [upgrades -> Tiers] : cached' = [cached EXCEPT !.report = ReportWith(tier)]
        BY DEF Analyse
    <1> DEFINE r == ReportWith(tier)
    <1>3. /\ r.findings = findings /\ r.skipped = {f \in r.findings : Target(f) = NoVersion}
          /\ r.entries = {[candidate |-> c, tier |-> tier[c]] : c \in Consolidate(Discovered(r.findings))}
          /\ tier \in [Consolidate(Discovered(r.findings)) -> Tiers]
        OBVIOUS
    <1> HIDE DEF r
    <1>4. cached' = [report |-> r, deps |-> cached.deps, counts |-> cached.counts,
                     mode |-> cached.mode]
        BY <1>2 DEF IInv, r
    <1> HIDE DEF findings, upgrades, ReportWith
    <1>5. /\ cached'.report = r /\ cached'.deps = cached.deps
          /\ cached'.counts = cached.counts /\ cached'.mode = cached.mode
        BY <1>4
    <1>6. Sound(r, cached.deps)
        <2>1. DOMAIN cached.deps \subseteq Installs
            BY <1>1, RowsAreFinite
        <2> QED
            BY <1>3, <2>1, ReportsAreSound DEF findings
    <1> QED
        BY <1>1, <1>4, <1>5, <1>6 DEF IInv, Counted, Shown

LEMMA OsvFailsKeeps ==
    ASSUME IInv, OsvFails
    PROVE  IInv'
    <1> DEFINE r == [NoReport EXCEPT !.lensFailed = TRUE]
    <1>1. /\ step = "parsed" /\ step' = "analysed" /\ world' = world
          /\ cached' = [report |-> r, deps |-> cached.deps, counts |-> cached.counts,
                        mode |-> cached.mode]
        BY DEF OsvFails, IInv
    <1>2. r.findings = {} /\ r.entries = {} /\ r.skipped = {}
        BY DEF NoReport
    <1> HIDE DEF r
    <1>3. /\ cached'.report = r /\ cached'.deps = cached.deps
          /\ cached'.counts = cached.counts /\ cached'.mode = cached.mode
        BY <1>1
    <1>4. Sound(r, cached.deps)
        BY <1>2, NoReportIsSound
    <1> QED
        BY <1>1, <1>3, <1>4 DEF IInv, Counted, Shown

LEMMA FinalizeKeeps ==
    ASSUME IInv, Finalize
    PROVE  IInv'
    <1>1. /\ step = "analysed" /\ step' = "cached" /\ world' = world
          /\ cached' = [report |-> cached.report, deps |-> cached.deps,
                        counts |-> Count(cached.report, cached.deps), mode |-> world.mode]
        BY DEF Finalize, IInv
    <1>2. /\ cached'.report = cached.report /\ cached'.deps = cached.deps
          /\ cached'.counts = Count(cached.report, cached.deps) /\ cached'.mode = world.mode
        BY <1>1
    <1> QED
        BY <1>1, <1>2 DEF IInv, Counted, Shown

LEMMA RenderKeeps ==
    ASSUME IInv, Render \/ UNCHANGED vars
    PROVE  IInv'
    <1>1. CASE Render
        BY <1>1 DEF Render, IInv, Counted, Shown
    <1>2. CASE UNCHANGED vars
        BY <1>2 DEF vars, IInv, Counted, Shown
    <1> QED
        BY <1>1, <1>2

\* The report is sound, its counts are those of the report, and the page is
\* that of the payload, at every stage of every scan.
THEOREM Invariance == Spec => []IInv
    <1>1. Init => IInv
        BY InitHolds
    <1>2. IInv /\ [Next]_vars => IInv'
        BY ParseKeeps, AnalyseKeeps, OsvFailsKeeps, FinalizeKeeps, RenderKeeps DEF Next
    <1> QED
        BY <1>1, <1>2, PTL DEF Spec

-----------------------------------------------------------------------------
(* The theorems *)

LEMMA PayloadIs ==
    ASSUME IInv, Counted
    PROVE  Payload(cached)
    BY RowsAreFinite DEF IInv, Counted, Payload

\* The sums build_scan_counts checks always balance, and the page never lacks
\* the rollup of a package: neither error branch of the code can be taken.
THEOREM CountsBalance == Spec => []BalanceHolds
    <1>1. ASSUME IInv, Counted
          PROVE  Imbalances(cached.report, cached.counts) = {} /\ ~LacksRollup(cached)
        BY <1>1, PayloadIs, NoImbalance, RollupsAreThere DEF Payload, LacksRollup
    <1>2. IInv => BalanceHolds
        BY <1>1 DEF BalanceHolds
    <1> QED
        BY <1>2, Invariance, PTL

\* The clean packages, the tiers and the panel the page works out again are as
\* many as the counts it prints beside them.
THEOREM PageAgrees == Spec => []PageAgreesWithCounts
    <1>1. ASSUME IInv, Shown
          PROVE  /\ Cardinality(page.status.clean) = page.status.total - cached.counts.affected
                 /\ \A t \in Tiers : Cardinality(Buckets(cached.report)[t]) = page.status.status[t]
                 /\ Cardinality(page.noFix.primary) = page.status.noFix
                 /\ Cardinality(page.noFix.trailing) = page.status.mixed
        <2>1. Payload(cached) /\ page = ResultsContext(cached)
            BY <1>1, PayloadIs DEF Counted, Shown, IInv
        <2> QED
            BY <2>1, PageIs, PageNumbers
    <1>2. IInv => PageAgreesWithCounts
        BY <1>1 DEF PageAgreesWithCounts
    <1> QED
        BY <1>2, Invariance, PTL

LEMMA CardsAre ==
    ASSUME IInv, Shown
    PROVE  Cards = {Card(e, cached.counts) : e \in cached.report.entries}
    <1>1. page.tiers = CandidatesByTier(cached)
        BY PageIs DEF IInv
    <1>2. \A t \in Tiers :
            page.tiers[t] = {Card(e, cached.counts) : e \in {d \in cached.report.entries : d.tier = t}}
        BY <1>1 DEF CandidatesByTier
    <1>3. \A e \in cached.report.entries : e.tier \in Tiers
        BY DEF IInv, Shown, Sound
    <1> QED
        BY <1>2, <1>3 DEF Cards

\* The cards and the panel together stand for every finding of the report
\* exactly once, and a finding sent for its explanation is found under its own
\* upgrade.
THEOREM FindingsReachThePage == Spec => []PageAccountsForFindings
    <1>1. ASSUME IInv, Shown
          PROVE  /\ SumOf(InstallsShown, Cards) + Cardinality(page.noFix.findings) = cached.counts.total
                 /\ \A card \in Cards :
                       /\ card.count = InstallsShown(card)
                       /\ {e.candidate : e \in EntryExplained(cached.report.entries, card.explains)}
                             = {card.candidate}
        <2>1. Payload(cached) /\ page = ResultsContext(cached)
            BY <1>1, PayloadIs DEF Counted, Shown, IInv
        <2>2. Cards = {Card(e, cached.counts) : e \in cached.report.entries}
            BY <1>1, CardsAre
        <2>3. SumOf(InstallsShown, Cards) = Cardinality(RelatedOf(cached.report.entries))
            BY <2>1, <2>2, CardsAddUp
        <2>4. page.noFix.findings = cached.report.skipped
            BY <2>1, PageIs, PanelIs
        <2>5. cached.counts.total =
                Cardinality(RelatedOf(cached.report.entries)) + Cardinality(cached.report.skipped)
            BY <2>1, NoFixIs DEF Payload
        <2>6. ASSUME NEW card \in Cards
              PROVE  /\ card.count = InstallsShown(card)
                     /\ {e.candidate : e \in EntryExplained(cached.report.entries, card.explains)}
                           = {card.candidate}
            <3>1. PICK e \in cached.report.entries : card = Card(e, cached.counts)
                BY <2>2
            <3> QED
                BY <2>1, <3>1, CardIs
        <2> QED
            BY <2>3, <2>4, <2>5, <2>6
    <1>2. IInv => PageAccountsForFindings
        BY <1>1 DEF PageAccountsForFindings
    <1> QED
        BY <1>2, Invariance, PTL

\* On the page of every scan of a well-formed lockfile, the parents found by
\* names are those found by installs, and every route runs inside the graph
\* shown beside it.
THEOREM RoutesAreInGraphs == Spec => []RouteIsInGraph
    <1>1. ASSUME IInv, Shown, WellFormed(world.tree)
          PROVE  /\ \A n \in Names(cached.deps) :
                       IndexParents(cached.deps, n) = NameParents(world.tree)[n]
                 /\ \A i \in DOMAIN cached.deps :
                     LET row == cached.deps[i]
                         graph == Subgraph(cached.deps, row.package, row.version)
                     IN  /\ Root \in graph.nodes
                         /\ \A s \in 1..(Len(row.path) - 1) :
                               <<row.path[s], row.path[s + 1]>> \in graph.edges
        <2>1. cached.deps = Parsed(world.tree) /\ world.tree \in LockfileTrees
            BY <1>1, WorldsAssumption DEF IInv, Shown
        <2> QED
            BY <1>1, <2>1, ParentsAgree, RouteInside
    <1>2. IInv => RouteIsInGraph
        BY <1>1 DEF RouteIsInGraph
    <1> QED
        BY <1>2, Invariance, PTL

\* On the page of every scan of a well-formed lockfile, the depth of a node is
\* the length of a way to it in the graph, so none is shown nearer to the
\* project than it is.
THEOREM DepthsAreOfWays == Spec => []DepthIsOfAWay
    <1>1. ASSUME IInv, Shown, WellFormed(world.tree), NEW n \in Names(cached.deps)
          PROVE  WaysTo(cached.deps, n, Depth(cached.deps, n)) # {}
        <2>1. cached.deps = Parsed(world.tree) /\ world.tree \in LockfileTrees
            BY <1>1, WorldsAssumption DEF IInv, Shown
        <2> QED
            BY <1>1, <2>1, DepthIs
    <1>2. IInv => DepthIsOfAWay
        BY <1>1 DEF DepthIsOfAWay
    <1> QED
        BY <1>2, Invariance, PTL

=============================================================================
