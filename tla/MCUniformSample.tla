--------------------------- MODULE MCUniformSample ---------------------------
(* Small instances of UniformSample for TLC. *)
EXTENDS UniformSample
=============================================================================
