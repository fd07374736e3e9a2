---------------------------- MODULE MCCompaction ----------------------------
(* Instances of Compaction for TLC. *)
EXTENDS Compaction

\* A range that takes in two neighbouring keys, and the whole key space (null,
\* null).
NeighbourRange == {<<1, 2>>}
WholeRange     == {<<0, MaxKey + 1>>}

\* Databases found when the program starts.
P(k, s) == [k |-> k, s |-> s, del |-> FALSE]
Table(n, data) == [num |-> n, data |-> data]
Tree(l0, l1, l2) ==
    [l \in Levels |-> CASE l = 0 -> l0 [] l = 1 -> l1 [] l = 2 -> l2 [] OTHER -> {}]

Empty == Tree({}, {}, {})
\* Two entries of key 2 in neighbouring files of level 1, written while a
\* snapshot was held.
Boundary == Tree({}, {Table(3, {P(1, 4), P(2, 3)}), Table(4, {P(2, 2), P(3, 1)})}, {})
\* Data for key 1 on levels 0 and 2, for key 2 below.
Deep == Tree({Table(4, {P(1, 3)})}, {}, {Table(2, {P(1, 1), P(2, 2)})})
\* Two tables of level 0, as recovery leaves them, around a key of level 2.
Around == Tree({Table(3, {P(1, 2)}), Table(4, {P(3, 3)})}, {}, {Table(2, {P(2, 1)})})

From(tree, w, r, s, m, f, x) ==
    [tree |-> tree, budget |-> [writes |-> w, reads |-> r, snapshots |-> s,
                                manual |-> m, failures |-> f, restarts |-> x]]
MixedStarts == {From(Empty, 3, 0, 1, 0, 0, 0), From(Boundary, 1, 0, 1, 1, 0, 0),
                From(Boundary, 1, 1, 0, 0, 1, 0), From(Deep, 1, 1, 0, 1, 0, 0),
                From(Deep, 1, 0, 0, 0, 0, 1), From(Deep, 0, 0, 0, 1, 1, 0)}
AroundStart == {From(Around, 1, 0, 0, 1, 0, 0)}
DeepStart   == {From(Deep, 1, 1, 1, 0, 0, 0)}
=============================================================================
