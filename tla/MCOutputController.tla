------------------------- MODULE MCOutputController -------------------------
(* Instances of OutputController for TLC: two program scenes and two keys.  *)
EXTENDS OutputController
=============================================================================
