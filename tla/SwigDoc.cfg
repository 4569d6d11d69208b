SPECIFICATION Spec
CONSTANTS
  Worlds <- MCWorlds
  MakeName <- MCMakeName
  HeaderOf <- MCHeaderOf
  Headers = {"g_blk.h", "util.h"}
  Operators = {"operator ="}
  MaxCalls = 3
INVARIANTS
  TypeOK
  NamesKnown
  EveryClassOnce
  MethodsOnce
  FunctionsOnce
  CrashHasCause
CHECK_DEADLOCK FALSE
