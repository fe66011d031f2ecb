----------------------------- MODULE MCScanReport -----------------------------
(***************************************************************************)
(* Packages 1, 3 and 4, the name "root" sorting between them, and a second *)
(* install of 3 inside 4.  All small declarations are tried without        *)
(* advisories, and all sets of advisories on a few lockfiles.              *)
(***************************************************************************)
EXTENDS ScanReport

V(major, minor, patch, place) == [core |-> <<major, minor, patch>>, text |-> place]

v100 == V(1, 0, 0, 1)
v125 == V(1, 2, 5, 2)
v201 == V(2, 0, 1, 3)

MCVersions == {v100, v125, v201}

MCKey == <<<<1>>, <<3>>, <<4>>, <<4, 3>>>>

Entry(kind, version, deps) == [kind |-> kind, version |-> version, deps |-> deps]

\* Three advisories about package 3: with two lines of fixes, with one, and
\* without any above the versions it affects.
MCAbout == <<1, 3, 3, 4, 3>>
MCFixed == <<{v125}, {v125, v201}, {v201}, {v100}, {v100}>>
MCAffected == <<{v100}, {v100}, {v100, v125, v201}, {v125}, {v100, v125}>>

SmallTrees ==
    {[root |-> root,
      entry |-> <<Entry(k, v100, d1), Entry("installed", v100, d3),
                  Entry("installed", v125, d4), Entry(n, v125, {1})>>] :
        root \in {{4}, {1, 4}, {3, 4}, {1, 3, 4}}, k \in {"installed", "extraneous", "unversioned"},
        n \in {"installed", "absent"},
        d1 \in {{}, {3}}, d3 \in SUBSET {1, 4}, d4 \in SUBSET {1, 3}}

RichTrees ==
    {[root |-> {3, 4},
      entry |-> <<Entry("installed", v100, {}), Entry("installed", v, {1}),
                  Entry("installed", v125, {1, 3}), Entry("installed", w, {})>>] :
        v \in {v100, v201}, w \in {v100, v125}}

MCWorlds ==
    [tree : SmallTrees, published : {{}}, mode : {"A"}]
    \cup [tree : RichTrees, published : SUBSET (1..5), mode : {"A", "B"}]
==============================================================================
