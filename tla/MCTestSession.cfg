CONSTANTS
  t1 = t1
  t2 = t2
  u1 = u1
  r1 = r1
  b1 = b1
  Command <- MixedCommand
  KindOf <- MixedKind
  Sender = {t1, u1}
  MaxTest = 3
SPECIFICATION Spec
INVARIANTS
  TypeOK
  RefCounts
  Ownership
  NoDangling
  NoStaleSession
  RttOfThisTest
PROPERTIES
  Ends
