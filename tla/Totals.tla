------------------------------- MODULE Totals -------------------------------
(***************************************************************************)
(* Maps and sums.  A Compact Map is a function on the finite set of its    *)
(* keys.  A sum over a set is the number of units below the graph of the   *)
(* summed function: a definition without recursion, whose laws are those   *)
(* of cardinality.  The summed values are naturals of at most bound.       *)
(***************************************************************************)
EXTENDS Integers, FiniteSets

\* Map.insert: adds the key, or overwrites its value.
Insert(map, key, value) ==
    [k \in DOMAIN map \cup {key} |-> IF k = key THEN value ELSE map[k]]

Units(S, f, bound) == {u \in S \X (1..bound) : u[2] <= f[u[1]]}
TotalOf(S, f, bound) == Cardinality(Units(S, f, bound))
=============================================================================
