CONSTANTS
  Thread = {t1, t2, t3}
  NoThread = NoThread
  Reckless = {t1}
  Reused = {t2, t3}
  MaxHeld = 2
SPECIFICATION FairSpec
INVARIANTS TypeOK MutualExclusion HeldInTheKernel NoStrayHolder
PROPERTY WaitsOnlyForOthers
CHECK_DEADLOCK FALSE
