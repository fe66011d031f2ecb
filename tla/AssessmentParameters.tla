------------------------- MODULE AssessmentParameters -------------------------
(***************************************************************************)
(* The constants of the analysis of a repository and of the selection made *)
(* on it.  Packages, installs and advisories are numbers: their order is   *)
(* the order in which parse_lockfile and OSV list them.                    *)
(***************************************************************************)
EXTENDS Naturals, FiniteSets

CONSTANTS
    Packages,       \* npm names
    Versions,       \* [core |-> <<major, minor, patch>> or <<>>, text |-> Nat]:
                    \* the parsed triplet (none if unparseable) and the place
                    \* of the spelling in string order
    Installs,       \* install keys of package-lock.json
    Lockfiles,      \* the lockfiles the repository may have
    Advisories,     \* OSV records
    About,          \* About[a]: the package advisory a is about
    Fixed,          \* Fixed[a]: the versions of its "fixed" events
    Affected,       \* Affected[a]: the versions OSV answers with a for
    Packuments,     \* what the npm registry may say of a package
    Overrides,      \* what settings.allow_decline_override may be
    FirstWorlds,    \* the worlds a behaviour may start in
    MaxMoves,       \* bound: how often the world changes in one behaviour
    NoDep,          \* an install key the lockfile does not have
    NoVersion,      \* no version qualifies
    Unavailable,    \* the registry does not answer
    NoIds           \* a request that names no candidate ids

ASSUME NumbersAssumption ==
    Packages \subseteq Nat /\ Installs \subseteq Nat /\ Advisories \subseteq Nat

ASSUME VersionsAssumption ==
    /\ \A v \in Versions : v.core = <<>> \/ v.core \in Nat \X Nat \X Nat
    /\ \A v \in Versions : v.text \in Nat
    /\ \A v, w \in Versions : v.text = w.text => v = w
    /\ NoVersion \notin Versions

ASSUME LockfilesAssumption ==
    Lockfiles \subseteq
        [Installs -> [package : Packages, version : Versions] \cup {NoDep}]

\* A missing key is not an install.
ASSUME NoDepAssumption == NoDep \notin [package : Packages, version : Versions]

\* A lockfile and the names in it, the answers of OSV and the events of an
\* advisory are finite.
ASSUME FinitenessAssumption ==
    /\ IsFiniteSet(Packages) /\ IsFiniteSet(Installs) /\ IsFiniteSet(Advisories)
    /\ \A a \in Advisories : IsFiniteSet(Fixed[a])

ASSUME AdvisoriesAssumption ==
    /\ About \in [Advisories -> Packages]
    /\ Fixed \in [Advisories -> SUBSET Versions]
    /\ Affected \in [Advisories -> SUBSET Versions]

\* A packument maps the published versions to their maintainers and to
\* whether they came out unusually soon after the version before.
ASSUME PackumentsAssumption ==
    \A p \in Packuments \ {Unavailable} :
        /\ DOMAIN p \subseteq Versions
        /\ \A v \in DOMAIN p :
              IsFiniteSet(p[v].maintainers) /\ p[v].rushed \in BOOLEAN

ASSUME MovesAssumption == MaxMoves \in Nat

ASSUME OverrideAssumption == Overrides \subseteq BOOLEAN
==============================================================================
