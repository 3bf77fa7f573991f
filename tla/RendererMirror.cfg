SPECIFICATION Spec
CONSTANTS
  Scenes = {s1, s2}
  Sources = {x1}
  None = None
  SceneFaults = TRUE
SYMMETRY Symmetry
INVARIANTS
  MirrorWithinModel
  ItemsAlive
  SuppressionReported
