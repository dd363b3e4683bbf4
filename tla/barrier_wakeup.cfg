CONSTANTS
  Thread = {t1, t2}
  NoThread = NoThread
  GenMod = 8
  MaxRounds = 2
SPECIFICATION FairSpec
PROPERTY AllWake
CHECK_DEADLOCK FALSE
