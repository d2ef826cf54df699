-------------------------------- MODULE Sums --------------------------------
(* The sum of a table of naturals, counted: x stands for f[x] entries.  A   *)
(* cardinality can be reasoned about for tables of any size.               *)
EXTENDS Integers, FiniteSets

Entries(f) == UNION {{x} \X (1..f[x]) : x \in DOMAIN f}
Sum(f) == Cardinality(Entries(f))
=============================================================================
