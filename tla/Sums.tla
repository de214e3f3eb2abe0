-------------------------------- MODULE Sums --------------------------------
(***************************************************************************)
(* Sums of numbers, by partial sums.  The folds of the community modules   *)
(* take an operator, which a proof could not instantiate.                  *)
(***************************************************************************)
EXTENDS Integers, Sequences, FiniteSets, Functions

\* f[1] + ... + f[n].
SumTo(f, n) == LET s[i \in 0 .. n] == IF i = 0 THEN 0 ELSE s[i - 1] + f[i] IN s[n]

\* The elements of a finite set in some order.
Listing(S) == CHOOSE l \in Bijection(1 .. Cardinality(S), S) : TRUE

\* The sum of f over what l lists.
SumAlong(f, l) == SumTo([i \in 1 .. Len(l) |-> f[l[i]]], Len(l))
=============================================================================
