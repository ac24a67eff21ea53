-------------------------------- MODULE Sql --------------------------------
(* What modules of tables share: the absent value of a column, and the rows of a *)
(* set in an order, a set of pairs that is strict and total on it.               *)
EXTENDS Naturals, FiniteSets

CONSTANT NULL

\* ORDER BY.
RankOf(x, rows, before) == Cardinality({y \in rows : <<y, x>> \in before}) + 1
Ranked(rows, before) ==
  [i \in 1..Cardinality(rows) |-> CHOOSE x \in rows : RankOf(x, rows, before) = i]
=============================================================================
