SPECIFICATION Spec
CONSTANTS
  Node = {n1}
  Stream = {s1}
  None = None
  DownstreamBuffer = 1
  StepWindow = 0
  MaxStep = 0
INVARIANTS RevokedIsOffline
