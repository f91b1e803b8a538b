--------------------------- MODULE MCSingBoxBatch ---------------------------
(* SingBoxBatch with three configs in batches of two: two goroutines run   *)
(* side by side and a second batch reuses the first port. Two pids for     *)
(* three processes make the operating system hand pids out again.          *)
EXTENDS SingBoxBatch, TLC

CONSTANTS p1, p2

TwoPids == {p1, p2}
OnlySecondPort == {BasePort + 1}
NoUnparsable == {}
OneUnparsable == {1}
PidSymmetry == Permutations(TwoPids)
=============================================================================
