---------------------------- MODULE MCReconcile ----------------------------
\* Instances of Reconcile for TLC: three replicas, the admin API of two of them
\* in use; these two are the members at the start.
EXTENDS Reconcile, TLC

CONSTANTS a, b, h1, h2

Nodes13 == 1 :> a @@ 3 :> a

\* Replica 3 may come back with another address.
OneMoves == 1 :> {a} @@ 2 :> {a} @@ 3 :> {a, b}

\* One more member; and a wish that leaves server 1 out and moves server 3.
TwoWishes == {1 :> a @@ 2 :> a @@ 3 :> a, 2 :> a @@ 3 :> b}

Symmetry == Permutations({h1, h2})

=============================================================================
