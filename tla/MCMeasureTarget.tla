--------------------------- MODULE MCMeasureTarget ---------------------------
(* Small instances of MeasureTarget for TLC. *)
EXTENDS MeasureTarget, TLC

\* Neither the capture goroutines nor the workers that share an address are told apart.
ProberSymmetry == Permutations(Receivers) \cup Permutations(Probers)
=============================================================================
