-------------------------- MODULE MCPluginSentinel --------------------------
(* Instances of PluginSentinel for TLC.  The retry list and the suspects   *)
(* hold refs, so the modules are model values; no symmetry is declared,    *)
(* because the run checks liveness.                                        *)
EXTENDS PluginSentinel
=============================================================================
