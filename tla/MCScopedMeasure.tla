--------------------------- MODULE MCScopedMeasure ---------------------------
(* Small instances of ScopedMeasure for TLC. *)
EXTENDS ScopedMeasure
=============================================================================
