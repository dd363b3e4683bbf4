CONSTANTS
  Thread = {t1, t2, t3}
  NoThread = NoThread
  Reckless = {t1}
  Reused = {t1, t2, t3}
  MaxHeld = 2
SPECIFICATION Spec
INVARIANT OwnerIsTheOwner
CHECK_DEADLOCK FALSE
