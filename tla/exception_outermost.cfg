CONSTANTS
  Modules = {0, 1}
  Codes = {0, 7}
  StackCapacity = 2
  MaxBlocks = 2
  MaxThrows = 1
SPECIFICATION ExceptionSpec
INVARIANT CatchAllCatches
CHECK_DEADLOCK FALSE
