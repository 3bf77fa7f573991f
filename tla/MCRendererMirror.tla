-------------------------- MODULE MCRendererMirror --------------------------
(* Instances of RendererMirror for TLC.                                     *)
EXTENDS RendererMirror, TLC

\* Ids are only compared.
Symmetry == Permutations(Scenes) \cup Permutations(Sources)
=============================================================================
