---------------------------- MODULE FixEngineProofs ----------------------------
(***************************************************************************)
(* What the engine computes, whatever the versions, advisories and         *)
(* lockfiles: the fix of a finding, the greatest target of a group, one    *)
(* upgrade per package and installed version.                              *)
(***************************************************************************)
EXTENDS FixEngine, FiniteSetTheorems, TLAPS

-----------------------------------------------------------------------------
(* The order of versions *)

\* A finite set has a minimum of every strict partial order.
LEMMA FiniteMinimal ==
    ASSUME NEW S, IsFiniteSet(S), S # {}, NEW R,
           \A x \in S : <<x, x>> \notin R,
           \A x, y, z \in S : <<x, y>> \in R /\ <<y, z>> \in R => <<x, z>> \in R
    PROVE  \E m \in S : \A x \in S : <<x, m>> \notin R
    <1> DEFINE Down(x) == {y \in S : <<y, x>> \in R}
               Downs == {Down(x) : x \in S}
    <1>1. IsWellFoundedOn(StrictSubsetOrdering(S), SUBSET S)
        <2>1. IsWellFoundedOn(StrictSubsetOrdering(S), FiniteSubsetsOf(S))
            BY FS_StrictSubsetOrderingWellFounded
        <2>2. FiniteSubsetsOf(S) = SUBSET S
            BY FS_FiniteSubsetsOfFinite
        <2> QED
            BY <2>1, <2>2 DEF IsWellFoundedOn
    <1>2. Downs \subseteq SUBSET S /\ Downs # {}
        <2>1. \A x \in S : Down(x) \in SUBSET S
            OBVIOUS
        <2>2. PICK x \in S : TRUE
            OBVIOUS
        <2>3. Down(x) \in Downs
            OBVIOUS
        <2> HIDE DEF Down
        <2> QED
            BY <2>1, <2>3
    <1>3. PICK D \in Downs : \A E \in Downs : <<E, D>> \notin StrictSubsetOrdering(S)
        <2> HIDE DEF Downs
        <2> QED
            BY <1>1, <1>2, WFMin
    <1>4. PICK m \in S : D = Down(m)
        OBVIOUS
    <1>5. ASSUME NEW x \in S, <<x, m>> \in R PROVE FALSE
        <2>1. Down(x) \subseteq Down(m) /\ x \in Down(m) /\ x \notin Down(x)
            BY <1>5
        <2>2. <<Down(x), D>> \in StrictSubsetOrdering(S)
            BY <1>4, <2>1 DEF StrictSubsetOrdering
        <2> QED
            BY <1>3, <2>2
    <1> QED
        BY <1>5

Triplets == Nat \X Nat \X Nat

LEMMA CoreLessIs ==
    ASSUME NEW a \in Triplets, NEW b \in Triplets
    PROVE  CoreLess(a, b) <=>
              \/ a[1] < b[1]
              \/ a[1] = b[1] /\ a[2] < b[2]
              \/ a[1] = b[1] /\ a[2] = b[2] /\ a[3] < b[3]
    BY DEF CoreLess, Triplets

LEMMA TripletsIs ==
    ASSUME NEW a \in Triplets, NEW b \in Triplets
    PROVE  /\ a[1] \in Nat /\ a[2] \in Nat /\ a[3] \in Nat
           /\ a[1] = b[1] /\ a[2] = b[2] /\ a[3] = b[3] => a = b
    BY DEF Triplets

\* compare_versions orders the versions that parse; those of one triplet tie.
LEMMA BelowOrder ==
    ASSUME NEW u \in Versions, NEW v \in Versions, NEW w \in Versions
    PROVE  /\ ~Below(u, u)
           /\ Below(u, v) => ~Below(v, u) /\ Parses(u) /\ Parses(v)
           /\ Below(u, v) /\ Below(v, w) => Below(u, w)
           /\ Below(u, v) /\ Parses(w) => Below(u, w) \/ Below(w, v)
    <1>1. \A x \in {u, v, w} : Parses(x) => x.core \in Triplets
        BY VersionsAssumption DEF Parses, Triplets
    <1>2. \A x, y \in {u, v, w} : Parses(x) /\ Parses(y) =>
            /\ x.core[1] \in Nat /\ x.core[2] \in Nat /\ x.core[3] \in Nat
            /\ CoreLess(x.core, y.core) <=>
                 \/ x.core[1] < y.core[1]
                 \/ x.core[1] = y.core[1] /\ x.core[2] < y.core[2]
                 \/ x.core[1] = y.core[1] /\ x.core[2] = y.core[2] /\ x.core[3] < y.core[3]
        BY <1>1, CoreLessIs, TripletsIs
    <1>3. ~Below(u, u) /\ (Below(u, v) => ~Below(v, u) /\ Parses(u) /\ Parses(v))
        BY <1>2 DEF Below
    <1>4. Below(u, v) /\ Below(v, w) => Below(u, w)
        BY <1>2 DEF Below
    <1>5. Below(u, v) /\ Parses(w) => Below(u, w) \/ Below(w, v)
        BY <1>2 DEF Below
    <1> QED
        BY <1>3, <1>4, <1>5

\* pick_lowest_version_gt: nothing, or a version above that no other eligible
\* version is below.
LEMMA PickIs ==
    ASSUME NEW from \in Versions, NEW fixed \in SUBSET Versions, IsFiniteSet(fixed)
    PROVE  LET v == PickLowestGt(from, fixed)
           IN  \/ v = NoVersion /\ \A w \in fixed : ~Below(from, w)
               \/ v \in fixed /\ Below(from, v) /\ \A w \in fixed : Below(from, w) => ~Below(w, v)
    <1> DEFINE eligible == {v \in fixed : Below(from, v)}
               Least(v) == \A w \in eligible : Below(v, w) \/ (~Below(w, v) /\ v.text <= w.text)
    <1>1. CASE eligible = {}
        BY <1>1 DEF PickLowestGt
    <1>2. CASE eligible # {}
        <2> DEFINE Before(v, w) == Below(v, w) \/ (~Below(w, v) /\ v.text < w.text)
                   R == {p \in eligible \X eligible : Before(p[1], p[2])}
        <2>1. IsFiniteSet(eligible)
            BY FS_Subset
        <2>2. \A v \in eligible : v \in Versions /\ Parses(v) /\ v.text \in Nat
            BY VersionsAssumption, BelowOrder
        <2>3. \A v, w \in eligible : <<v, w>> \in R <=> Before(v, w)
            OBVIOUS
        <2>4. \A v \in eligible : <<v, v>> \notin R
            BY <2>2, <2>3, BelowOrder
        <2>5. ASSUME NEW x \in eligible, NEW y \in eligible, NEW z \in eligible,
                     Before(x, y), Before(y, z)
              PROVE  Before(x, z)
            <3>1. /\ x.text \in Nat /\ y.text \in Nat /\ z.text \in Nat
                  /\ x \in Versions /\ y \in Versions /\ z \in Versions
                  /\ Parses(x) /\ Parses(y) /\ Parses(z)
                BY <2>2
            <3>2. CASE Below(x, y)
                <4>1. Below(x, z) \/ Below(z, y)
                    BY <3>1, <3>2, BelowOrder
                <4>2. ~Below(z, y)
                    BY <2>5, <3>1, BelowOrder
                <4> QED
                    BY <4>1, <4>2
            <3>3. CASE ~Below(y, x) /\ x.text < y.text
                <4>1. CASE Below(y, z)
                    BY <3>1, <3>3, <4>1, BelowOrder
                <4>2. CASE ~Below(z, y) /\ y.text < z.text
                    <5>1. ~Below(z, x)
                        BY <3>1, <3>3, <4>2, BelowOrder
                    <5> QED
                        BY <3>1, <3>3, <4>2, <5>1
                <4> QED
                    BY <2>5, <4>1, <4>2
            <3> QED
                BY <2>5, <3>2, <3>3
        <2>6. PICK m \in eligible : \A x \in eligible : <<x, m>> \notin R
            <3>1. \A x, y, z \in eligible : <<x, y>> \in R /\ <<y, z>> \in R => <<x, z>> \in R
                BY <2>3, <2>5
            <3> HIDE DEF R, eligible
            <3> QED
                BY <1>2, <2>1, <2>4, <3>1, FiniteMinimal
        <2>7. Least(m)
            <3> SUFFICES ASSUME NEW w \in eligible
                         PROVE  Below(m, w) \/ (~Below(w, m) /\ m.text <= w.text)
                OBVIOUS
            <3>1. ~Before(w, m)
                BY <2>3, <2>6
            <3> QED
                BY <2>2, <3>1
        <2>8. PickLowestGt(from, fixed) = CHOOSE v \in eligible : Least(v)
            BY <1>2 DEF PickLowestGt
        <2>9. PickLowestGt(from, fixed) \in eligible /\ Least(PickLowestGt(from, fixed))
            <3> HIDE DEF Least, eligible
            <3> QED
                BY <2>7, <2>8
        <2>10. \A w \in eligible : ~Below(w, PickLowestGt(from, fixed))
            BY <2>2, <2>9, BelowOrder
        <2> QED
            BY <2>9, <2>10
    <1> QED
        BY <1>1, <1>2

-----------------------------------------------------------------------------
(* The fix of one finding *)

LEMMA FindingIs ==
    ASSUME NEW f \in Finding
    PROVE  /\ f.install \in Installs /\ f.install \in Nat
           /\ f.package \in Packages /\ f.version \in Versions
           /\ f.adv \in Advisories /\ f.adv \in Nat
           /\ Fixed[f.adv] \in SUBSET Versions /\ IsFiniteSet(Fixed[f.adv])
    BY NumbersAssumption, AdvisoriesAssumption, FinitenessAssumption DEF Finding

\* discover_fix_candidates goes up, to a version that parses.
LEMMA TargetIs ==
    ASSUME NEW f \in Finding, Target(f) # NoVersion
    PROVE  /\ Target(f) \in Versions /\ Parses(Target(f))
           /\ Below(f.version, Target(f))
    <1>1. /\ f.version \in Versions /\ Fixed[f.adv] \in SUBSET Versions
          /\ IsFiniteSet(Fixed[f.adv])
        BY FindingIs
    <1>2. Target(f) \in Fixed[f.adv] /\ Below(f.version, Target(f))
        BY <1>1, PickIs DEF Target
    <1> QED
        BY <1>1, <1>2, BelowOrder

\* The findings of a report are finitely many: an install has one version, and
\* a finding is told by its install and its advisory.
LEMMA FindingsAreFinite ==
    ASSUME NEW lock, NEW published
    PROVE  /\ FindingsIn(lock, published) \in SUBSET Finding
           /\ IsFiniteSet(FindingsIn(lock, published))
    <1> DEFINE F == FindingsIn(lock, published)
               P == Installs \X Advisories
               g == [f \in F |-> <<f.install, f.adv>>]
    <1>1. F \in SUBSET Finding
        BY DEF FindingsIn
    <1>2. \A f \in F : /\ f.install \in Installs /\ f.adv \in Advisories
                       /\ lock[f.install] = [package |-> f.package, version |-> f.version]
        BY DEF FindingsIn, Finding
    <1>3. g \in [F -> P]
        <2> HIDE DEF F
        <2> QED
            BY <1>2
    <1>4. ASSUME NEW f \in F, NEW h \in F, f.install = h.install, f.adv = h.adv
          PROVE  f = h
        <2>1. [package |-> f.package, version |-> f.version]
                = [package |-> h.package, version |-> h.version]
            BY <1>2, <1>4
        <2>2. f.package = h.package /\ f.version = h.version
            BY <2>1
        <2>3. f \in Finding /\ h \in Finding
            BY <1>1
        <2> QED
            BY <1>4, <2>2, <2>3 DEF Finding
    <1>5. g \in Injection(F, P)
        <2> HIDE DEF F, P
        <2> SUFFICES ASSUME NEW f \in F, NEW h \in F, g[f] = g[h] PROVE f = h
            BY <1>3 DEF Injection, IsInjective
        <2>1. <<f.install, f.adv>> = <<h.install, h.adv>>
            OBVIOUS
        <2> QED
            BY <1>4, <2>1
    <1>6. IsFiniteSet(P)
        BY FinitenessAssumption, FS_Product
    <1>7. IsFiniteSet(F)
        <2> HIDE DEF F, P, g
        <2> QED
            BY <1>5, <1>6, FS_Injection
    <1> QED
        BY <1>1, <1>7

-----------------------------------------------------------------------------
(* Consolidation *)

\* The candidate discovered for one finding.
Single(f) == Candidate(f.package, f.version, Target(f), {f})

Fixable(F) == {f \in F : Target(f) # NoVersion}

\* The findings one upgrade is to fix.
Siblings(F, f) == {g \in Fixable(F) : g.package = f.package /\ g.version = f.version}

Upgrade(F, f) ==
    Candidate(f.package, f.version, MaxTarget({Single(g) : g \in Siblings(F, f)}), Siblings(F, f))

LEMMA CandidateIs ==
    ASSUME NEW p, NEW v, NEW to, NEW findings
    PROVE  LET c == Candidate(p, v, to, findings)
           IN  /\ c.package = p /\ c.from = v /\ c.to = to /\ c.findings = findings
               /\ c.kind = ClassifyFixKind(v, to)
    BY DEF Candidate

LEMMA SingleIs ==
    ASSUME NEW f
    PROVE  /\ Single(f).package = f.package /\ Single(f).from = f.version
           /\ Single(f).to = Target(f) /\ Single(f).findings = {f}
    BY CandidateIs DEF Single

LEMMA SinglesAreDiscovered ==
    ASSUME NEW F PROVE Discovered(F) = {Single(f) : f \in Fixable(F)}
    BY DEF Discovered, Fixable, Single

\* A group: findings of one package at one version that have a fix.
Group(H) ==
    /\ H \in SUBSET Finding /\ IsFiniteSet(H) /\ H # {}
    /\ \A f \in H : Target(f) # NoVersion
    /\ \A f, g \in H : f.package = g.package /\ f.version = g.version

\* The order in which _max_target prefers the candidates of a group.
Better(f, g) ==
    \/ Below(Target(g), Target(f))
    \/ ~Below(Target(f), Target(g)) /\ Precedes(f, g)

LEMMA PrecedesOrder ==
    ASSUME NEW H, Group(H), NEW f \in H, NEW g \in H, NEW h \in H
    PROVE  /\ ~Precedes(f, f)
           /\ Precedes(f, g) /\ Precedes(g, h) => Precedes(f, h)
           /\ f # g => Precedes(f, g) \/ Precedes(g, f)
    <1>1. \A x \in {f, g, h} : x \in Finding /\ x.install \in Nat /\ x.adv \in Nat
        BY FindingIs DEF Group
    <1>2. f.install = g.install /\ f.adv = g.adv => f = g
        BY <1>1 DEF Group, Finding
    <1> QED
        BY <1>1, <1>2 DEF Precedes

LEMMA BetterOrder ==
    ASSUME NEW H, Group(H), NEW f \in H, NEW g \in H, NEW h \in H
    PROVE  /\ ~Better(f, f)
           /\ Better(f, g) /\ Better(g, h) => Better(f, h)
           /\ f # g => Better(f, g) \/ Better(g, f)
    <1>1. \A x \in {f, g, h} : Target(x) \in Versions /\ Parses(Target(x))
        BY TargetIs DEF Group
    <1>2. ~Better(f, f)
        BY <1>1, BelowOrder, PrecedesOrder DEF Better
    <1>3. f # g => Better(f, g) \/ Better(g, f)
        BY PrecedesOrder DEF Better
    <1>4. ASSUME Better(f, g), Better(g, h) PROVE Better(f, h)
        <2> DEFINE u == Target(f)
                   v == Target(g)
                   w == Target(h)
        <2>1. /\ u \in Versions /\ v \in Versions /\ w \in Versions
              /\ Parses(u) /\ Parses(v) /\ Parses(w)
            BY <1>1
        <2> HIDE DEF u, v, w
        <2>2. CASE Below(v, u)
            <3>1. ~Below(v, w)
                BY <1>4, <2>1, BelowOrder DEF Better, u, v, w
            <3>2. Below(w, u)
                BY <2>1, <2>2, <3>1, BelowOrder
            <3> QED
                BY <3>2 DEF Better, u, w
        <2>3. CASE ~Below(v, u) /\ ~Below(u, v) /\ Precedes(f, g)
            <3>1. CASE Below(w, v)
                <4>1. Below(w, u)
                    BY <2>1, <2>3, <3>1, BelowOrder
                <4> QED
                    BY <4>1 DEF Better, u, w
            <3>2. CASE ~Below(v, w) /\ Precedes(g, h)
                <4>1. ~Below(u, w)
                    BY <2>1, <2>3, <3>2, BelowOrder
                <4>2. Precedes(f, h)
                    BY <2>3, <3>2, PrecedesOrder
                <4> QED
                    BY <4>1, <4>2 DEF Better, u, w
            <3> QED
                BY <1>4, <3>1, <3>2 DEF Better, v, w
        <2> QED
            BY <1>4, <2>2, <2>3 DEF Better, u, v
    <1> QED
        BY <1>2, <1>3, <1>4

\* _max_target finds the highest target of the group, so none of its findings
\* keeps the consolidation from taking place.
LEMMA MaxTargetIs ==
    ASSUME NEW H, Group(H)
    PROVE  \E m \in H : /\ MaxTarget({Single(f) : f \in H}) = Target(m)
                        /\ \A f \in H : ~Below(Target(m), Target(f))
    <1> DEFINE group == {Single(f) : f \in H}
               Wins(c) == \A d \in group \ {c} :
                            \/ Higher(c.to, d.to)
                            \/ /\ ~Higher(d.to, c.to)
                               /\ \E f \in c.findings, g \in d.findings : Precedes(f, g)
    <1>1. \A f \in H : Target(f) \in Versions /\ Parses(Target(f))
        BY TargetIs DEF Group
    <1>2. \A f, g \in H : Higher(Target(f), Target(g)) <=> Below(Target(g), Target(f))
        BY <1>1 DEF Higher, Below
    <1>3. PICK m \in H : \A f \in H : ~Better(f, m)
        <2> DEFINE R == {p \in H \X H : Better(p[1], p[2])}
        <2>1. \A f, g \in H : <<f, g>> \in R <=> Better(f, g)
            OBVIOUS
        <2>2. \A f \in H : <<f, f>> \notin R
            BY <2>1, BetterOrder
        <2>3. \A f, g, h \in H : <<f, g>> \in R /\ <<g, h>> \in R => <<f, h>> \in R
            BY <2>1, BetterOrder
        <2>4. \E m \in H : \A f \in H : <<f, m>> \notin R
            <3> HIDE DEF R
            <3> QED
                BY <2>2, <2>3, FiniteMinimal DEF Group
        <2> QED
            BY <2>1, <2>4
    <1>4. Wins(Single(m))
        <2> SUFFICES ASSUME NEW g \in H, Single(g) # Single(m)
                     PROVE  \/ Higher(Single(m).to, Single(g).to)
                            \/ /\ ~Higher(Single(g).to, Single(m).to)
                               /\ \E x \in Single(m).findings, y \in Single(g).findings :
                                    Precedes(x, y)
            OBVIOUS
        <2>1. Better(m, g)
            BY <1>3, BetterOrder
        <2> QED
            BY <1>2, <2>1, SingleIs DEF Better
    <1>5. MaxTarget(group) = (CHOOSE c \in group : Wins(c)).to
        BY DEF MaxTarget
    <1>6. (CHOOSE c \in group : Wins(c)) \in group /\ Wins(CHOOSE c \in group : Wins(c))
        <2>1. Single(m) \in group
            OBVIOUS
        <2> HIDE DEF group, Wins
        <2> QED
            BY <1>4, <2>1
    <1>7. PICK w \in H : MaxTarget(group) = Single(w).to /\ Wins(Single(w))
        <2>1. \A c \in group : \E w \in H : c = Single(w)
            OBVIOUS
        <2> HIDE DEF group, Wins
        <2> QED
            BY <1>5, <1>6, <2>1
    <1>8. ASSUME NEW f \in H PROVE ~Below(Target(w), Target(f))
        <2>1. CASE Single(f) = Single(w)
            <3>1. Target(f) = Target(w)
                BY <2>1, SingleIs
            <3> QED
                BY <1>1, <3>1, BelowOrder
        <2>2. CASE Single(f) # Single(w)
            <3>1. \/ Higher(Single(w).to, Single(f).to)
                  \/ ~Higher(Single(f).to, Single(w).to)
                BY <1>7, <2>2
            <3> QED
                BY <1>1, <1>2, <3>1, SingleIs, BelowOrder
        <2> QED
            BY <2>1, <2>2
    <1> QED
        BY <1>7, <1>8, SingleIs

\* consolidate_candidates on one group: one candidate, which fixes them all.
LEMMA GroupIsConsolidated ==
    ASSUME NEW H, Group(H), NEW f \in H
    PROVE  ConsolidateGroup({Single(g) : g \in H}) =
              {Candidate(f.package, f.version, MaxTarget({Single(g) : g \in H}), H)}
    <1> DEFINE group == {Single(g) : g \in H}
               target == MaxTarget(group)
               one == CHOOSE c \in group : TRUE
    <1>1. UNION {c.findings : c \in group} = H
        <2>1. \A c \in group : \E g \in H : c = Single(g) /\ c.findings = {g}
            BY SingleIs
        <2>2. \A g \in H : Single(g) \in group /\ g \in Single(g).findings
            BY SingleIs
        <2> HIDE DEF group
        <2>3. \A c \in group : c.findings \subseteq H
            BY <2>1
        <2> QED
            BY <2>2, <2>3
    <1>2. PICK m \in H : target = Target(m) /\ \A g \in H : ~Below(Target(m), Target(g))
        BY MaxTargetIs
    <1>3. \A g \in H : Target(g) \in Versions /\ Parses(Target(g)) /\ Target(g) # NoVersion
        BY TargetIs DEF Group
    <1>4. SatisfiesAll(H, target)
        <2> SUFFICES ASSUME NEW g \in H
                     PROVE  Target(g) # NoVersion /\ ~Higher(Target(g), target)
            BY DEF SatisfiesAll
        <2> QED
            BY <1>2, <1>3 DEF Higher, Below
    <1>5. one.package = f.package /\ one.from = f.version
        <2>1. Single(f) \in group
            OBVIOUS
        <2>2. one \in group
            <3> HIDE DEF group
            <3> QED
                BY <2>1
        <2>3. PICK g \in H : one = Single(g)
            BY <2>2
        <2> HIDE DEF one
        <2> QED
            BY <2>3, SingleIs DEF Group
    <1>6. ConsolidateGroup(group) =
            IF Cardinality(group) = 1 THEN group
            ELSE {Candidate(f.package, f.version, target, H)}
        <2>1. ConsolidateGroup(group) =
                IF Cardinality(group) = 1 \/ ~SatisfiesAll(H, target) THEN group
                ELSE {Candidate(one.package, one.from, target, H)}
            <3> HIDE DEF group
            <3> QED
                BY <1>1 DEF ConsolidateGroup, target
        <2> HIDE DEF group, target, one
        <2> QED
            BY <1>4, <1>5, <2>1
    <1>7. ASSUME Cardinality(group) = 1
          PROVE  group = {Candidate(f.package, f.version, target, H)}
        <2>1. IsFiniteSet(group)
            <3> DEFINE s == [g \in H |-> Single(g)]
            <3>1. s \in Surjection(H, group)
                BY DEF Surjection
            <3> HIDE DEF s, group
            <3> QED
                BY <3>1, FS_Surjection DEF Group
        <2>2. PICK c : group = {c}
            <3> HIDE DEF group
            <3> QED
                BY <1>7, <2>1, FS_Singleton
        <2>3. \A g \in H : Single(g) = c
            BY <2>2
        <2>4. H = {f}
            BY <2>3, SingleIs
        <2>5. target = Target(f)
            BY <1>2, <2>4
        <2>6. group = {Single(f)}
            BY <2>4
        <2> HIDE DEF target, group
        <2> QED
            BY <2>4, <2>5, <2>6 DEF Single
    <1> QED
        <2> HIDE DEF group, target
        <2>1. ConsolidateGroup(group) = {Candidate(f.package, f.version, target, H)}
            BY <1>6, <1>7
        <2> QED
            BY <2>1 DEF group, target

\* consolidate_candidates: one upgrade per package and version with a fix.
LEMMA ConsolidateIs ==
    ASSUME NEW F \in SUBSET Finding, IsFiniteSet(F)
    PROVE  Consolidate(Discovered(F)) = {Upgrade(F, f) : f \in Fixable(F)}
    <1> DEFINE raw == {Single(f) : f \in Fixable(F)}
               GroupOf(c) == {d \in raw : d.package = c.package /\ d.from = c.from}
    <1>1. ASSUME NEW f \in Fixable(F)
          PROVE  /\ Group(Siblings(F, f)) /\ f \in Siblings(F, f)
                 /\ ConsolidateGroup(GroupOf(Single(f))) = {Upgrade(F, f)}
        <2>1. IsFiniteSet(Siblings(F, f))
            <3>1. Siblings(F, f) \in SUBSET F
                BY DEF Siblings, Fixable
            <3> QED
                BY <3>1, FS_Subset
        <2>2. Group(Siblings(F, f)) /\ f \in Siblings(F, f)
            BY <2>1 DEF Group, Siblings, Fixable
        <2>3. GroupOf(Single(f)) = {Single(g) : g \in Siblings(F, f)}
            <3>1. \A g \in Fixable(F) :
                    Single(g).package = Single(f).package /\ Single(g).from = Single(f).from
                        <=> g.package = f.package /\ g.version = f.version
                BY SingleIs
            <3> QED
                BY <3>1 DEF Siblings
        <2>4. ConsolidateGroup({Single(g) : g \in Siblings(F, f)}) = {Upgrade(F, f)}
            BY <2>2, GroupIsConsolidated DEF Upgrade
        <2> HIDE DEF GroupOf
        <2> QED
            BY <2>2, <2>3, <2>4
    <1>2. Consolidate(raw) = UNION {ConsolidateGroup(GroupOf(c)) : c \in raw}
        BY DEF Consolidate
    <1>3. UNION {ConsolidateGroup(GroupOf(c)) : c \in raw} = {Upgrade(F, f) : f \in Fixable(F)}
        <2> HIDE DEF GroupOf
        <2>1. \A f \in Fixable(F) : ConsolidateGroup(GroupOf(Single(f))) = {Upgrade(F, f)}
            BY <1>1
        <2>2. ASSUME NEW f \in Fixable(F)
              PROVE  Upgrade(F, f) \in UNION {ConsolidateGroup(GroupOf(c)) : c \in raw}
            <3>1. Single(f) \in raw /\ Upgrade(F, f) \in ConsolidateGroup(GroupOf(Single(f)))
                BY <2>1
            <3> HIDE DEF raw
            <3> QED
                BY <3>1
        <2>3. ASSUME NEW u \in UNION {ConsolidateGroup(GroupOf(c)) : c \in raw}
              PROVE  \E f \in Fixable(F) : u = Upgrade(F, f)
            <3>1. PICK c \in raw : u \in ConsolidateGroup(GroupOf(c))
                <4> HIDE DEF raw
                <4> QED
                    OBVIOUS
            <3>2. PICK f \in Fixable(F) : c = Single(f)
                OBVIOUS
            <3> QED
                BY <2>1, <3>1, <3>2
        <2> HIDE DEF raw
        <2> QED
            BY <2>2, <2>3
    <1> QED
        BY <1>2, <1>3, SinglesAreDiscovered

\* What an upgrade is: the findings of one package at one version that have a
\* fix, and a target above that version and below none of their first fixes.
LEMMA UpgradesAre ==
    ASSUME NEW F \in SUBSET Finding, IsFiniteSet(F), NEW c \in Consolidate(Discovered(F))
    PROVE  /\ c.package \in Packages /\ c.from \in Versions /\ c.to \in Versions
           /\ c.kind \in {"patch", "minor", "major"}
           /\ c \in [package : Packages, from : Versions, to : Versions,
                     kind : {"patch", "minor", "major"}, findings : SUBSET Finding]
           /\ c.findings = {f \in Fixable(F) : f.package = c.package /\ f.version = c.from}
           /\ c.findings # {} /\ c.findings \subseteq F
           /\ Below(c.from, c.to)
           /\ \A f \in c.findings : ~Below(c.to, Target(f))
           /\ \A d \in Consolidate(Discovered(F)) :
                 d.package = c.package /\ d.from = c.from => d = c
    <1>1. PICK f \in Fixable(F) : c = Upgrade(F, f)
        BY ConsolidateIs
    <1> DEFINE H == Siblings(F, f)
               to == MaxTarget({Single(g) : g \in H})
    <1>2. /\ c.package = f.package /\ c.from = f.version /\ c.to = to /\ c.findings = H
          /\ c.kind = ClassifyFixKind(f.version, to)
        BY <1>1, CandidateIs DEF Upgrade
    <1>3. Group(H) /\ f \in H /\ H \subseteq F
        <2>1. H \in SUBSET F
            BY DEF Siblings, Fixable
        <2>2. IsFiniteSet(H)
            BY <2>1, FS_Subset
        <2> QED
            BY <2>1, <2>2 DEF Group, Siblings, Fixable
    <1>4. PICK m \in H : to = Target(m) /\ \A g \in H : ~Below(Target(m), Target(g))
        BY <1>3, MaxTargetIs
    <1>5. to \in Versions /\ Below(f.version, to)
        BY <1>3, <1>4, TargetIs DEF Group
    <1>6. f.package \in Packages /\ f.version \in Versions
        BY <1>3, FindingIs DEF Group
    <1>7. c.kind \in {"patch", "minor", "major"}
        BY <1>2 DEF ClassifyFixKind
    <1>8. c \in [package : Packages, from : Versions, to : Versions,
                 kind : {"patch", "minor", "major"}, findings : SUBSET Finding]
        BY <1>1, <1>2, <1>3, <1>5, <1>6, <1>7 DEF Upgrade, Candidate
    <1>9. c.findings = {g \in Fixable(F) : g.package = c.package /\ g.version = c.from}
        BY <1>2 DEF Siblings
    <1>10. ASSUME NEW d \in Consolidate(Discovered(F)), d.package = c.package, d.from = c.from
           PROVE  d = c
        <2>1. PICK g \in Fixable(F) : d = Upgrade(F, g)
            BY ConsolidateIs
        <2>2. g.package = f.package /\ g.version = f.version
            BY <1>2, <1>10, <2>1, CandidateIs DEF Upgrade
        <2>3. Siblings(F, g) = H
            BY <2>2 DEF Siblings
        <2> QED
            BY <1>1, <2>1, <2>2, <2>3 DEF Upgrade
    <1>11. /\ c.package \in Packages /\ c.from \in Versions /\ c.to \in Versions
           /\ c.findings # {} /\ c.findings \subseteq F
           /\ Below(c.from, c.to)
           /\ \A g \in c.findings : ~Below(c.to, Target(g))
        BY <1>2, <1>3, <1>4, <1>5, <1>6
    <1> QED
        BY <1>7, <1>8, <1>9, <1>10, <1>11

\* No finding with a fix is lost.
LEMMA EveryFixIsProposed ==
    ASSUME NEW F \in SUBSET Finding, IsFiniteSet(F), NEW f \in Fixable(F)
    PROVE  \E c \in Consolidate(Discovered(F)) : f \in c.findings
    <1>1. Upgrade(F, f) \in Consolidate(Discovered(F))
        BY ConsolidateIs
    <1>2. f \in Upgrade(F, f).findings
        BY CandidateIs DEF Upgrade, Siblings
    <1> QED
        BY <1>1, <1>2

================================================================================
