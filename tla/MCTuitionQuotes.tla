-------------------------- MODULE MCTuitionQuotes --------------------------
(* TuitionQuotes on small inputs for TLC. *)
EXTENDS TuitionQuotes

Discount(key, percent, value, priority, group) ==
    [key |-> key, kind |-> key % 2, percent |-> percent, value |-> value,
     priority |-> priority, group |-> group]

\* Two of a group, of which the first may come to nothing, two of no group,
\* and one that covers any fee.
SomeDiscounts ==
    {Discount(1, TRUE, 50, 1, 1), Discount(2, TRUE, 2500, 2, 1),
     Discount(3, FALSE, 3, 2, Nothing), Discount(4, TRUE, 3333, 1, Nothing),
     Discount(5, FALSE, 1000, 3, 2)}
=============================================================================
