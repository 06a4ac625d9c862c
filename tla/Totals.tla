------------------------------- MODULE Totals -------------------------------
(***************************************************************************)
(* Sums of amounts of money over a finite table of rows.                   *)
(*                                                                         *)
(* The database sums a column (loadChargeTotals: coalesce(sum(...), 0)).   *)
(* Amounts are whole minor units, so a sum is the number of units the rows *)
(* hold together.  Counting units needs no recursion: TLC evaluates it and *)
(* the theorems about cardinalities of finite sets reason about it.        *)
(***************************************************************************)
EXTENDS Integers, FiniteSets

\* The units the row x holds: unit i of x is the pair <<x, i>>.
UnitsOf(f, x) == {x} \X (1 .. f[x])

\* Every unit of every row of the table f (a function into Nat).
Units(f) == UNION {UnitsOf(f, x) : x \in DOMAIN f}

\* The sum of f over its domain.
Total(f) == Cardinality(Units(f))
=============================================================================
