------------------------------ MODULE MCShards ------------------------------
\* Instances of Shards for TLC.
EXTENDS Shards, TLC

CONSTANTS o1, o2, c1, c2, p1, p2

Nodes3 == 1 .. 3
Members2 == {1, 2}

\* Two objects with a content each.
PutsApart == {<<o1, c1>>, <<o2, c2>>}
\* Two objects with the same content.
PutsShared == {<<o1, c1>>, <<o2, c1>>}

\* PutsApart treats <<o1, c1>> and <<o2, c2>> alike, and requests are alike.
Same == o1 :> o1 @@ o2 :> o2 @@ c1 :> c1 @@ c2 :> c2
Swap == o1 :> o2 @@ o2 :> o1 @@ c1 :> c2 @@ c2 :> c1
Symmetry == {f @@ g : f \in {Same, Swap}, g \in Permutations({p1, p2})}

=============================================================================
