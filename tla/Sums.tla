--------------------------------- MODULE Sums ---------------------------------
(* Sums and whole averages of what a function gives for the elements of a set. *)
EXTENDS Integers, SequencesExt

SumOver(f, S) == MapThenSumSet(LAMBDA x : f[x], S)
Average(f, S) == SumOver(f, S) \div Cardinality(S)
=============================================================================
