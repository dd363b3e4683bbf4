CONSTANTS
  p1 = p1
  p2 = p2
  p3 = p3
  Proc = {p1, p2, p3}
  NoProc = NoProc
  NoFile = NoFile
  Empty = Empty
  Forever = Forever
  Options <- DaemonOptions
  FdLimit = 2
  Restarters = {}
SPECIFICATION Spec
INVARIANT ParentIsOriginal
