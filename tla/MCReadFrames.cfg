CONSTANTS
  good = good
  bad = bad
  v1 = v1
  v2 = v2
  v3 = v3
  Script <- Dialogue
  Variable = {v1, v2, v3}
  Packet = {good, bad}
  Empty = empty
  Port = {1, 2}
  MaxTest = 2
  MaxPacket = 4
SPECIFICATION Spec
INVARIANTS
  TypeOK
  NoDoubleDelete
  Reclaimed
  VariablesLive
  FrameOfThisPort
PROPERTIES
  Accepts
  ReadsEnd
