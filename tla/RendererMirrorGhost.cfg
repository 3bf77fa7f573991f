SPECIFICATION Spec
CONSTANTS
  Scenes = {s1, s2}
  Sources = {x1}
  None = None
  SceneFaults = FALSE
SYMMETRY Symmetry
INVARIANTS
  NoGhostRender
