---------------------------- MODULE MCSnapCapture ----------------------------
(* Instance of SnapCapture for TLC: two workers, one response or two, two    *)
(* fields.                                                                   *)
EXTENDS SnapCapture, TLC

CONSTANTS mail1, mail2

MCDetected == {<<mail1>>, <<mail2, mail1>>}

Symmetry == Permutations(Workers) \cup Permutations(Fields)

=============================================================================
