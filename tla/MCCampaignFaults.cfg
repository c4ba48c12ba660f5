CONSTANTS
  o1 = o1
  o2 = o2
  o3 = o3
  o4 = o4
  o5 = o5
  o6 = o6
  v1 = v1
  Generator = "exp"
  MaxId = 32
  IntBits = 3
  Injector <- Many
  Width <- ManyWidth
  Eager <- ManyEager
  Variable = {v1}
  Walk <- ManyWalk
  Monitor = FALSE
SPECIFICATION Spec
INVARIANTS
  EveryFaultEnabled
