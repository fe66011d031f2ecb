---------------------------- MODULE MCFixSelection ----------------------------
(***************************************************************************)
(* Two packages.  Package 1 has two advisories with different first fixes, *)
(* one of which comes back in a later line, and is installed twice.        *)
(***************************************************************************)
EXTENDS FixSelection

V(major, minor, patch, place) == [core |-> <<major, minor, patch>>, text |-> place]

v100 == V(1, 0, 0, 1)
v125 == V(1, 2, 5, 2)
v125rc == V(1, 2, 5, 3)
v201 == V(2, 0, 1, 4)
v203 == V(2, 0, 3, 5)
odd == [core |-> <<>>, text |-> 6]

MCVersions == {v100, v125, v125rc, v201, v203, odd}

Dep(p, v) == [package |-> p, version |-> v]

MCLockfiles ==
    {<<Dep(1, v100), Dep(1, v100), Dep(2, v100)>>,
     <<Dep(1, v100), Dep(1, v125), Dep(2, v203)>>}

MCAbout == <<1, 1, 2>>
MCFixed == <<{v125, v203}, {v201}, {v125rc, v125, odd}>>
MCAffected == <<{v100, v201}, {v100, v125}, {v100, v203}>>

By(who) == [v \in MCVersions |-> [maintainers |-> who, rushed |-> FALSE]]

MCPackuments ==
    {Unavailable, By({"alice"}),
     [By({"alice"}) EXCEPT ![v125].maintainers = {"alice", "bob"}]}
MCFirstWorlds ==
    [repo : [lock : MCLockfiles, tests : {"byDirectory", "byName"}],
     osv : {{1}, {1, 2}, {2, 3}}, npm : [{1, 2} -> {By({"alice"})}], killed : {FALSE}]
    \cup
    [repo : [lock : MCLockfiles, tests : {"none"}],
     osv : {{1, 3}}, npm : {<<m, m>> : m \in MCPackuments}, killed : {TRUE}]

==============================================================================
