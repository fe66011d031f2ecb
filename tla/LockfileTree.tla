----------------------------- MODULE LockfileTree -----------------------------
(***************************************************************************)
(* package-lock.json as parse_lockfile (arguss/core/parser.py) reads it:   *)
(* who declares what, which install serves it, and the route shown for it. *)
(*                                                                         *)
(* Key[i] is the chain of names in the key of install i, so that           *)
(* node_modules/a/node_modules/b is <<a, b>>; the project itself is <<>>.  *)
(***************************************************************************)
EXTENDS AssessmentParameters, SequencesExt

CONSTANTS
    Root,       \* the name "root", a number like the names of packages: its
                \* place among them is its place in string order
    Key

ASSUME KeyAssumption ==
    /\ Root \in Nat \ Packages
    /\ Key \in [Installs -> Seq(Packages) \ {<<>>}]
    /\ \A i, j \in Installs : Key[i] = Key[j] => i = j

Kinds == {"absent", "installed", "link", "extraneous", "unversioned"}

\* tree.root: the dependencies and devDependencies of the project;
\* tree.entry[i]: what the lockfile says under key i.
LockfileTrees ==
    [root : SUBSET Packages,
     entry : [Installs -> [kind : Kinds, version : Versions, deps : SUBSET Packages]]]

\* The entries that become a Dependency.
Parseable(tree) == {i \in Installs : tree.entry[i].kind = "installed"}

Served(tree) == {Last(Key[i]) : i \in Parseable(tree)}

\* Every entry declares, those that are skipped as installs too.
Declarers(tree) == {<<>>} \cup {Key[i] : i \in {j \in Installs : tree.entry[j].kind # "absent"}}

Declared(tree, key) ==
    IF key = <<>> THEN tree.root
    ELSE tree.entry[CHOOSE i \in Installs : Key[i] = key].deps

Label(key) == IF key = <<>> THEN Root ELSE Last(key)

\* Variant: only the top level is looked at.
ResolveAtTop(tree, key, child) ==
    IF \E i \in Parseable(tree) : Key[i] = <<child>> THEN <<child>> ELSE <<>>

\* The nearest enclosing node_modules that has the child; <<>> if none has.
Resolve(tree, key, child) ==
    LET At(n) == Append(SubSeq(key, 1, n), child)
        hosts == {n \in 0..Len(key) : \E i \in Parseable(tree) : Key[i] = At(n)}
    IN  IF hosts = {} THEN <<>> ELSE At(Max(hosts))

\* The names of those whose declaration this very install serves.
InstallParents(tree, i) ==
    LET name == Last(Key[i])
        served == {k \in Declarers(tree) :
                      name \in Declared(tree, k) /\ Resolve(tree, k, name) = Key[i]}
    IN  IF served = {} THEN {Root} ELSE {Label(k) : k \in served}

\* The same among names, for the displayed route only.
NameParents(tree) ==
    [n \in Served(tree) |-> {Label(k) : k \in {d \in Declarers(tree) : n \in Declared(tree, d)}}]

\* Names at most d declarations away from the project.
Within(tree) ==
    LET parents == NameParents(tree)
        near[d \in 0..Cardinality(Packages)] ==
            IF d = 0 THEN {Root}
            ELSE near[d - 1] \cup {n \in DOMAIN parents : parents[n] \cap near[d - 1] # {}}
    IN  near

\* _bfs_shortest_pred and _logical_path_from_pred: a shortest route by names,
\* of two predecessors the one that sorts first.
RouteTo(tree) ==
    LET parents == NameParents(tree)
        near == Within(tree)
        Distance(n) == Min({d \in 0..Cardinality(Packages) : n \in near[d]})
        Pred(n) == Min({p \in parents[n] \cap near[Distance(n) - 1] : TRUE})
        route[n \in near[Cardinality(Packages)]] ==
            IF n = Root THEN <<Root>> ELSE Append(route[Pred(n)], n)
    IN  route

\* _canonical_display_path
DisplayPath(tree, route, i) ==
    LET parent == Min(InstallParents(tree, i))
        base == IF parent \in DOMAIN route THEN route[parent] ELSE <<Root, parent>>
        name == Last(Key[i])
    IN  IF Last(base) = name THEN base ELSE Append(base, name)

\* parse_lockfile: the rows, each with its install key.
Parsed(tree) ==
    LET route == RouteTo(tree)
    IN  [i \in Parseable(tree) |->
            [package |-> Last(Key[i]), version |-> tree.entry[i].version,
             direct |-> Last(Key[i]) \in tree.root,
             parents |-> InstallParents(tree, i), path |-> DisplayPath(tree, route, i)]]

\* The rows as the vulnerability lens sees them.
LockOf(deps) ==
    [i \in Installs |->
        IF i \in DOMAIN deps THEN [package |-> deps[i].package, version |-> deps[i].version]
        ELSE NoDep]
==============================================================================
