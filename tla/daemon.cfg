CONSTANTS
  p1 = p1
  p2 = p2
  p3 = p3
  Proc = {p1, p2}
  NoProc = NoProc
  NoFile = NoFile
  Empty = Empty
  Forever = Forever
  Options <- PlainOptions
  FdLimit = 2
  Restarters = {p2}
SPECIFICATION FairSpec
INVARIANTS TypeOK OwnerHoldsLock NoLeakedLock PidFileNeverForeign TimeoutHonoured
PROPERTIES PidFileLostLate StartReturns StarvedOnlyByOthers ImplementsSingleton
