CONSTANTS
  o1 = o1
  o2 = o2
  o3 = o3
  o4 = o4
  o5 = o5
  o6 = o6
  v1 = v1
  Generator = "seq"
  MaxId = 1024
  IntBits = 8
  Injector <- Frames
  Width <- FramesWidth
  Eager <- FramesEager
  Variable = {v1}
  Walk <- FramesWalk
  Monitor = FALSE
SPECIFICATION Spec
INVARIANTS
  SingleFault
PROPERTIES
  ImplementsPlan
