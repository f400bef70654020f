--------------------------- MODULE MCNotifyEngine ---------------------------
(* Instance of NotifyEngine for TLC: two goroutines race for one model while *)
(* a second model shows that guards do not interfere.                        *)
EXTENDS NotifyEngine, TLC

Symmetry == Permutations(Keys) \cup Permutations(Checkers)

=============================================================================
