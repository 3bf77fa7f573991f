SPECIFICATION FairCaptureSpec
CONSTANTS
  Sources = {s1, s2}
  Program = program
  Mix = mix
  Nothing = Nothing
  Chunks = {1, 2}
  Window = 3
  MaxCaptures = 3
INVARIANTS
  AnswersItsOwn
  GrabOutlivesCallbacks
PROPERTIES
  CapturesEnd
CHECK_DEADLOCK FALSE
