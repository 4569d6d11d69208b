SPECIFICATION FairSpec
CONSTANTS
  MaxCmd = 3
  MaxNok = 0
  MaxReady = 1
  MaxMissed = 0
  UnknownCmds = {2}
  Preamble = 0
  SyncBits = 1
  SyncZeros = 0
  CtrlBits = 1
  FecBits = 1
  BlockBits = 1
  DataBlocks = 1
  Backs = {1}
INVARIANT TypeOK
PROPERTY RunsOutBetweenCalls
PROPERTY AnsweredAsTreated
PROPERTY UntimedByModuleId
PROPERTY EveryCommandServed
