------------------------------ MODULE ByteTotals ------------------------------
(***************************************************************************)
(* The sum of a byte count over a finite set, defined without recursion so *)
(* that theorems can be stated about it: the bytes of x are the pairs      *)
(* <<x, 1>>, ..., <<x, w[x]>>, and a total is the number of such pairs.    *)
(***************************************************************************)
EXTENDS Integers, FiniteSets

\* The bytes of the elements of S, w[x] of them for each x in S.
Cells(S, w) == UNION {{x} \X (1 .. w[x]) : x \in S}

\* The sum of w[x] over x in S.
Total(S, w) == Cardinality(Cells(S, w))
===============================================================================
