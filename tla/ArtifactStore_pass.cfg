SPECIFICATION FairSpec
CONSTANTS
  s1 = s1
  s2 = s2
  a1 = a1
  a2 = a2
  old = old
  Artifacts <- MCArtifacts
  Sessions <- MCSessions
  SessionOf <- MCSessionOf
  Old <- MCOld
  MaxTotal = 1
  None = None
INVARIANTS
  IInv
  QueuedIsKept
PROPERTIES
  LostIsNeverShown
  EverySaveEnds
CHECK_DEADLOCK FALSE
