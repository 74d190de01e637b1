SPECIFICATION FairSpec
CONSTANTS
  Node = {n1}
  Stream = {s1, s2}
  None = None
  DownstreamBuffer = 2
  StepWindow = 0
  MaxStep = 1
INVARIANTS OpenIsRegistered RegisteredIsHandled
PROPERTIES ClaimsDropOnDisconnect RefinesDirectory SentinelEndsStream SilentIsDropped
