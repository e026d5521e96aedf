SPECIFICATION FairSpec
CONSTANTS
  t1 = t1
  t2 = t2
  Ticks <- MCTicks
  MaxRestarts = 1
  WindowSecs = 1
  Second = 1
  IS_TAURI = TRUE
  MaxEvents = 3
  MaxDeaths = 4
  Horizon = 5
  None = None
INVARIANTS
  IInv
  RestartsAreBounded
PROPERTIES
  ModalOpens
  OrphanEnds
CHECK_DEADLOCK FALSE
