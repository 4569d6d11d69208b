SPECIFICATION Spec
CONSTANTS
  Worlds <- MCWorlds
  MakeName <- MCMakeName
  HeaderOf <- MCHeaderOf
  Headers = {"g_blk.h", "util.h"}
  Operators = {"operator ="}
  MaxCalls = 0
INVARIANT BrokenFileSkipped
CHECK_DEADLOCK FALSE
