---------------------------- MODULE MCResetCycles ----------------------------
(* Instances of ResetCycles for TLC.                                         *)
EXTENDS ResetCycles, TLC

AllKeys == Keys
NoKeys == {}

Symmetry == Permutations(Snappers)

=============================================================================
