CONSTANTS
  Thread = {t1, t2, t3}
  NoThread = NoThread
  GenMod = 8
  MaxRounds = 3
SPECIFICATION Spec
INVARIANTS TypeOK NobodyLeavesEarly LeaveInFullGroups OneSerialPerGroup
SYMMETRY Symmetry
CHECK_DEADLOCK FALSE
