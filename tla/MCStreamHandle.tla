--------------------------- MODULE MCStreamHandle ---------------------------
(* Small instances of StreamHandle for TLC. *)
EXTENDS StreamHandle
=============================================================================
