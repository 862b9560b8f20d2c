--------------------------- MODULE MCBurninEngine ---------------------------
(* Small instances of BurninEngine for TLC. *)
EXTENDS BurninEngine
=============================================================================
